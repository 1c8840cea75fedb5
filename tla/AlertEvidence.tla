------------------------------ MODULE AlertEvidence ------------------------------
(***************************************************************************)
(* The evidence behind an alert of a buying wave (src/scanner.py           *)
(* merge_reactivation_wave_swaps, compact_pool_swap_buffers,               *)
(* apply_alert_data_quality, classify_alert_tier).                         *)
(*                                                                         *)
(* Each scan of a pool reads some of its trades and merges them into a     *)
(* bounded buffer; the run compacts the buffer by another limit before it  *)
(* saves it.  A wave is built from the buffer, judged by the quality of    *)
(* its data, and classified again when the all-time high is known.  How    *)
(* the trades are read is PoolHistory's: here a scan reads any of them and *)
(* knows of each second whether it has read all of it.                     *)
(***************************************************************************)
EXTENDS Naturals, FiniteSets, FiniteSetsExt

CONSTANTS Window,             \* seconds that the buffer keeps
          MaxMerged, MaxKept, \* swaps that a merge and a compaction keep
          Waves,              \* what a wave may look like: sets of traits
          MaxTime, PerSecond  \* bounds

VARIABLES traded,    \* trades of each second
          read,      \* trades that scans parsed and remember
          covered,   \* seconds of which every trade was read
          buffer,    \* reactivation_wave_swaps
          omitted,   \* candidate_swap_omitted_through
          truncated, \* reactivation_wave_buffer_truncated
          alert,     \* the alert of the run under way
          now

vars == <<traded, read, covered, buffer, omitted, truncated, alert, now>>

Times == 1..MaxTime
Trades == Times \X (1..PerSecond)
Tiers == {"noise", "watch", "late_chase", "candidate", "actionable", "hot_reactivation"}
Highs == {"unverified", "deep", "mid", "near"}
Traits == {"concentrated", "strong", "retained", "broken", "seasoned", "late", "verified", "gated"}
NoAlert == [from |-> 0, to |-> 0, traits |-> {}, high |-> "unverified", complete |-> FALSE, tier |-> "noise"]

TypeOK ==
    /\ traded \in [Times -> 0..PerSecond]
    /\ Waves \subseteq SUBSET Traits /\ read \subseteq Trades /\ covered \subseteq Times /\ buffer \subseteq read
    /\ omitted \in 0..MaxTime /\ truncated \in BOOLEAN /\ now \in 0..MaxTime
    /\ alert \in [from : 0..MaxTime, to : 0..MaxTime, traits : SUBSET Traits,
                  high : Highs, complete : BOOLEAN, tier : Tiers]

Init ==
    /\ traded = [t \in Times |-> 0] /\ read = {} /\ covered = {} /\ buffer = {}
    /\ omitted = 0 /\ truncated = FALSE /\ alert = NoAlert /\ now = 0

Made == {x \in Trades : x[2] <= traded[x[1]]}
At(trade) == trade[1]

\* Time passes, and the pool trades.
Trade(n) ==
    /\ now < MaxTime /\ alert = NoAlert /\ now' = now + 1 /\ traded' = [traded EXCEPT ![now'] = n]
    /\ UNCHANGED <<read, covered, buffer, omitted, truncated, alert>>

-----------------------------------------------------------------------------
\* The newest n of a set of trades, in the order of their times.
Later(x, y) == At(x) > At(y) \/ (At(x) = At(y) /\ x[2] > y[2])
Newest(s, n) == {x \in s : Cardinality({y \in s : Later(y, x)}) < n}
LastOf(s) == Max({0} \cup {At(x) : x \in s})

Cutoff == IF now > Window THEN now - Window ELSE 0

InWindow(new) == {x \in buffer \cup new : At(x) >= Cutoff}
OmittedBy(s, kept) == Max({omitted, LastOf(s \ kept)})

\* Mutant: only what this merge omits marks the buffer.
MergeForgets(new) ==
    LET s == InWindow(new)  kept == Newest(s, MaxMerged) IN
    buffer' = kept /\ omitted' = OmittedBy(s, kept) /\ truncated' = (s # kept)

\* merge_reactivation_wave_swaps: of the trades in the window the oldest are
\* omitted; what was omitted within the window is not forgotten.
Merge(new) ==
    LET s == InWindow(new)  kept == Newest(s, MaxMerged) IN
    /\ buffer' = kept /\ omitted' = OmittedBy(s, kept)
    /\ truncated' = (s # kept \/ (omitted' > 0 /\ omitted' >= Cutoff))

-----------------------------------------------------------------------------
\* classify_alert_tier: concentrated flow is noise, a weak signal is watched, the
\* rest depends on the move so far, the baseline and the all-time high.
Hot(traits) == {"strong", "retained", "broken", "seasoned", "verified"} \subseteq traits
Classified(traits, high) ==
    IF "concentrated" \in traits THEN "noise"
    ELSE IF Hot(traits) THEN "hot_reactivation"
    ELSE IF "late" \in traits THEN "late_chase"
    ELSE IF high = "deep" /\ {"retained", "broken", "seasoned", "verified"} \subseteq traits THEN "actionable"
    ELSE "watch"

\* apply_alert_data_quality: a buffer that lacks swaps, seconds of the wave's
\* window that were not covered, or unverified balances and owners.
Complete(from, to, cut, traits, seconds) ==
    /\ ~cut /\ "verified" \in traits
    /\ (from..to) \subseteq seconds

Lowered(tier, complete) == IF ~complete /\ tier \in {"actionable", "hot_reactivation"} THEN "watch" ELSE tier

\* apply_signal_confirmation, apply_noise_cut: only a confirmed signal keeps its
\* tier, and one that a risk gate excludes is noise.
Confirmed(tier, complete, traits) ==
    LET confirmed == complete /\ {"broken", "seasoned", "verified"} \subseteq traits IN
    IF "gated" \in traits THEN "noise"
    ELSE IF ~confirmed /\ tier \notin {"noise", "late_chase"} THEN "candidate" ELSE tier

Tier(traits, high, complete) == Confirmed(Lowered(Classified(traits, high), complete), complete, traits)

\* scan_pool_helius, scan_pool_signatures: new is what the fetch returned and was
\* not remembered from before, since the second from which it left no gap.
Scan(new, since, x, y, traits, high) ==
    LET seconds == covered \cup (since..now)
        complete == Complete(At(x), At(y), truncated', traits, seconds) IN
    /\ alert = NoAlert
    /\ read' = read \cup new /\ covered' = seconds
    /\ Merge(new) /\ {x, y} \subseteq buffer' /\ At(x) <= At(y)
    /\ alert' = [from |-> At(x), to |-> At(y), traits |-> traits, high |-> high,
                 complete |-> complete, tier |-> Tier(traits, high, complete)]
    /\ UNCHANGED <<traded, now>>

\* refresh_alert_tiers_with_market_ath.
Refreshed(high) ==
    /\ alert # NoAlert /\ high # "unverified"
    /\ alert' = [alert EXCEPT !.high = high, !.tier = Tier(alert.traits, high, alert.complete)]
    /\ UNCHANGED <<traded, read, covered, buffer, omitted, truncated, now>>

\* compact_pool_swap_buffers, when the run saves its state.
Compacted ==
    /\ alert # NoAlert /\ alert' = NoAlert
    /\ buffer' = Newest(buffer, MaxKept)
    /\ omitted' = OmittedBy(buffer, buffer')
    /\ truncated' = (truncated \/ buffer # buffer')
    /\ UNCHANGED <<traded, read, covered, now>>

Next ==
    \/ \E n \in 0..PerSecond : Trade(n)
    \/ /\ alert = NoAlert
       /\ \E new \in SUBSET (Made \ read) :
            \E since \in {t \in 1..(now + 1) : \A x \in Made \ (read \cup new) : At(x) < t},
               x, y \in buffer \cup new, traits \in Waves, high \in {"unverified", "deep"} :
              Scan(new, since, x, y, traits, high)
    \/ \E high \in Highs : Refreshed(high)
    \/ Compacted

Spec == Init /\ [][Next]_vars

-----------------------------------------------------------------------------
\* An alert that may be acted on rests on the whole wave: every trade of the
\* pool between its first and its last one is among those it was computed from,
\* whatever earlier merges and compactions left out, and however often it was
\* classified again; its signal is confirmed, and unless it is hot the price is
\* far below the all-time high that was known last.
ActionableIsComplete ==
    alert.tier \in {"actionable", "hot_reactivation"} =>
      /\ {x \in Made : alert.from <= At(x) /\ At(x) <= alert.to} \subseteq buffer
      /\ {"broken", "seasoned", "verified"} \subseteq alert.traits
      /\ "gated" \notin alert.traits
      /\ alert.tier = "actionable" => alert.high = "deep"
=================================================================================
