----------------------------- MODULE PositionLineage -----------------------------
(***************************************************************************)
(* Where the tokens of one purchase may be now, from the histories of      *)
(* token accounts (src/solana_position_lineage.py freeze_receipt_seeds,    *)
(* resolve_position_history, analyze_position; src/position_history_rpc.py *)
(* PositionHistoryRpc).                                                    *)
(*                                                                         *)
(* The receipt of a purchase is frozen when a signal opens.  A check later *)
(* reads the history of the account page by page, follows the transfers to *)
(* further accounts, and replays everything it read: it says of each       *)
(* account at least and at most how many of the tokens are there.  Which   *)
(* of its mixed tokens an account really sent is known to the model alone. *)
(***************************************************************************)
EXTENDS Naturals, FiniteSets, FiniteSetsExt, Sequences, SequencesExt

CONSTANTS Accounts, Owner,        \* token accounts, and the one that bought
          MaxDepth, MaxAddresses, PageSize,
          Prior, Moves, MaxAmount, MaxTxs      \* bounds: first balances, transfers

VARIABLES chain,     \* the transactions that moved the token, in their order
          truth,     \* what each account holds, and how much of it is of the purchase
          receipt,   \* the transaction of the purchase, 0 before it
          indexed,   \* the provider tells the order within a slot
          queue, told,   \* accounts to read, and what was told of those read or queued
          page, got, limited,   \* pages of the first account, transactions, limits met
          result

vars == <<chain, truth, receipt, indexed, queue, told, page, got, limited, result>>

reading == <<queue, told, page, got, limited, result>>

Places == Accounts \cup {"pool"}
Most == MaxAmount * (1 + MaxTxs)
Nothing == [nodes |-> <<>>, complete |-> FALSE, issues |-> {}]
Issues == {"gap", "account_limit", "depth_limit"}
Node == [balance : 0..Most, lower : 0..Most, upper : 0..Most, depth : 0..MaxDepth]

TypeOK ==
    /\ Len(chain) <= MaxTxs /\ receipt \in 0..Len(chain) /\ indexed \in BOOLEAN
    /\ \A i \in DOMAIN chain :
         chain[i] \in [slot : 1..MaxTxs, from : Places, to : Places, amount : 1..MaxAmount,
                       fromHad : 0..Most, toHad : 0..Most, clear : BOOLEAN]
    /\ truth \in [held : [Accounts -> 0..Most], mine : [Places -> 0..MaxAmount]]
    /\ Range(queue) \subseteq Accounts /\ page \in 0..MaxTxs
    /\ got \subseteq DOMAIN chain /\ limited \in BOOLEAN
    /\ DOMAIN told \subseteq Accounts
    /\ \A a \in DOMAIN told : told[a] \in {"queued", "complete", "partial"}
    /\ DOMAIN result.nodes \subseteq Accounts /\ result.issues \subseteq Issues
    /\ \A a \in DOMAIN result.nodes : result.nodes[a] \in Node
    /\ result.complete \in BOOLEAN

Init ==
    /\ truth \in [held : {Prior}, mine : {[p \in Places |-> 0]}]
    /\ chain = <<>> /\ receipt = 0 /\ indexed \in BOOLEAN /\ queue = <<>> /\ told = <<>>
    /\ page = 0 /\ got = {} /\ limited = FALSE /\ result = Nothing

-----------------------------------------------------------------------------
NextSlot == IF chain = <<>> THEN 1 ELSE Last(chain).slot + 1
Had(place) == IF place = "pool" THEN 0 ELSE truth.held[place]

\* What a transaction shows of its accounts, and whether the parser knows all of its
\* instructions.
Entry(from, to, amount, slot, clear) ==
    [slot |-> slot, from |-> from, to |-> to, amount |-> amount,
     fromHad |-> Had(from), toHad |-> Had(to), clear |-> clear]

\* Tokens move, in a plain transfer or by another instruction.
Moved(from, to, amount, mine, slot, clear) ==
    /\ told = <<>> /\ Len(chain) < MaxTxs
    /\ from # "pool" => amount <= truth.held[from]
    /\ chain' = Append(chain, Entry(from, to, amount, slot, clear))
    /\ truth' = [held |-> [a \in Accounts |-> CASE a = from -> truth.held[a] - amount
                                                [] a = to -> truth.held[a] + amount
                                                [] OTHER -> truth.held[a]],
                 mine |-> mine]
    /\ UNCHANGED <<indexed, reading>>

\* The purchase that will be frozen.
Buy(amount, slot) ==
    /\ receipt = 0 /\ receipt' = Len(chain) + 1
    /\ Moved("pool", Owner, amount, [truth.mine EXCEPT ![Owner] = amount], slot, TRUE)

\* Any tokens that the mixture of the sender allows may be of the purchase.
Move(from, to, amount, of, slot, clear) ==
    /\ of <= truth.mine[from]
    /\ from # "pool" => amount - of <= truth.held[from] - truth.mine[from]
    /\ Moved(from, to, amount, [truth.mine EXCEPT ![from] = @ - of, ![to] = @ + of], slot, clear)
    /\ UNCHANGED receipt

-----------------------------------------------------------------------------
\* The receipt that the trades seen in the pool show: the last purchase, alone in
\* its slot.
Purchases(seen) == {i \in seen : chain[i].from = "pool" /\ chain[i].to = Owner}
Touches(i, account) == account \in {chain[i].from, chain[i].to}
Frozen(seen) ==
    {i \in Purchases(seen) :
        /\ chain[i].clear
        /\ \A j \in Purchases(seen) : chain[j].slot <= chain[i].slot
        /\ \A j \in seen \ {i} : chain[j].slot = chain[i].slot => ~Touches(j, Owner)}

Start == chain[receipt].slot
Bought == chain[receipt].amount

\* A signal was opened on the purchase, and its account is now checked.
Check(seen) ==
    /\ told = <<>> /\ receipt \in Frozen(seen)
    /\ queue' = <<Owner>> /\ told' = [a \in {Owner} |-> "queued"]
    /\ UNCHANGED <<chain, truth, receipt, indexed, page, got, limited, result>>

-----------------------------------------------------------------------------
Less(n, m) == IF n > m THEN n - m ELSE 0
AtMost(n, m) == Min({n, m})

\* Something is missing: nothing is certain any more.
Gap(p) == [nodes |-> [a \in DOMAIN p.nodes |-> [p.nodes[a] EXCEPT !.lower = 0]],
           complete |-> FALSE, issues |-> p.issues \cup {"gap"}]

\* A transaction shows another balance than the replay has.
Shown(p, account, balance) ==
    IF account \notin DOMAIN p.nodes \/ p.nodes[account].balance = balance THEN p
    ELSE LET q == Gap(p)
         IN  [q EXCEPT !.nodes[account].balance = balance, !.nodes[account].upper = AtMost(@, balance)]

Sent(node, amount) ==
    [node EXCEPT !.balance = @ - amount, !.lower = Less(@, amount),
                 !.upper = AtMost(@, node.balance - amount)]

\* Mutant: what was in the account before counts as sent last.
GuaranteedFirst(node, amount) == AtMost(amount, node.lower)

\* The part of a transfer that must be, and the part that may be, of the purchase.
Guaranteed(node, amount) == Less(amount, node.balance - node.lower)
Possible(node, amount) == AtMost(amount, node.upper)

\* The recipient of a transfer that may carry tokens of the purchase is followed.
Followed(p, e, upper) ==
    IF e.to \in DOMAIN p.nodes \/ e.to = "pool" \/ upper = 0 THEN p
    ELSE IF Cardinality(DOMAIN p.nodes) >= MaxAddresses
    THEN [p EXCEPT !.issues = @ \cup {"account_limit"}]
    ELSE IF p.nodes[e.from].depth + 1 > MaxDepth
    THEN [p EXCEPT !.issues = @ \cup {"depth_limit"}]
    ELSE [p EXCEPT !.nodes = [a \in DOMAIN @ \cup {e.to} |->
            IF a = e.to THEN [balance |-> e.toHad, lower |-> 0, upper |-> 0,
                              depth |-> p.nodes[e.from].depth + 1]
            ELSE @[a]]]

Leg(p, e) ==
    LET known == e.from \in DOMAIN p.nodes
        lower == IF known THEN Guaranteed(p.nodes[e.from], e.amount) ELSE 0
        upper == IF known THEN Possible(p.nodes[e.from], e.amount) ELSE 0
        q == IF known THEN [p EXCEPT !.nodes[e.from] = Sent(@, e.amount)] ELSE p
        r == Followed(q, e, upper)
    IN  IF e.to \notin DOMAIN r.nodes THEN r
        ELSE [r EXCEPT !.nodes[e.to].balance = @ + e.amount, !.nodes[e.to].lower = @ + lower,
                       !.nodes[e.to].upper = @ + upper]

Replayed(p, e) ==
    LET before == Shown(Shown(IF e.clear THEN p ELSE Gap(p), e.from, e.fromHad), e.to, e.toHad)
        after == IF e.clear THEN Leg(before, e) ELSE before
    IN  Shown(Shown(after, e.from, e.fromHad - e.amount), e.to, e.toHad + e.amount)

\* Transactions of one slot whose order nobody told are left out.
Ambiguous(txs, i) == ~indexed /\ \E j \in txs \ {i} : chain[j].slot = chain[i].slot

\* The position after the transactions that were read, of accounts whose histories
\* are complete or not.
Analyzed(txs, complete) ==
    LET seed == [nodes |-> [a \in {Owner} |-> [balance |-> chain[receipt].toHad + Bought,
                                               lower |-> Bought, upper |-> Bought, depth |-> 0]],
                 complete |-> TRUE, issues |-> {}]
        clear == {i \in txs : ~Ambiguous(txs, i)}
        start == IF complete /\ clear = txs THEN seed ELSE Gap(seed)
    IN  FoldLeft(LAMBDA p, i : Replayed(p, chain[i]), start, SetToSortSeq(clear, <))

-----------------------------------------------------------------------------
\* Of an account the provider has the transactions since the slot of the receipt.
History(a) == SetToSortSeq({i \in DOMAIN chain : chain[i].slot >= Start /\ Touches(i, a)}, <)
Read(a, n) == Range(SubSeq(History(a), 1, AtMost(n * PageSize, Len(History(a)))))
LastPage(a, n) == n * PageSize >= Len(History(a))

\* The last pages show the receipt and nothing after it in its slot.
Anchored(a) ==
    a = Owner => \A i \in Range(History(a)) \ {receipt} :
                    chain[i].slot = Start => indexed /\ i < receipt

\* Accounts that a replay of what was read so far follows, and that were not read.
Discover(account, status, read) ==
    LET p == Analyzed(read, FALSE)
        new == SetToSortSeq(DOMAIN p.nodes \ DOMAIN told,
                            LAMBDA a, b : p.nodes[a].depth < p.nodes[b].depth)
    IN  /\ queue' = Tail(queue) \o new
        /\ told' = [a \in DOMAIN told \cup DOMAIN p.nodes |->
                     CASE a = account -> status [] a \in DOMAIN told -> told[a] [] OTHER -> "queued"]
        /\ limited' = (limited \/ p.issues \cap {"account_limit", "depth_limit"} # {})
        /\ got' = read /\ page' = 0

\* The next page of the first account arrives; transactions of the slot of the
\* receipt only serve as its anchor.
ReadPage ==
    /\ queue # <<>>
    /\ LET a == Head(queue)
           read == got \cup {i \in Read(a, page + 1) : chain[i].slot > Start}
       IN  IF LastPage(a, page + 1)
           THEN Discover(a, IF Anchored(a) THEN "complete" ELSE "partial", read)
           ELSE page' = page + 1 /\ got' = read /\ UNCHANGED <<queue, told, limited>>
    /\ UNCHANGED <<chain, truth, receipt, indexed, result>>

\* A page fails, or no more may be asked for.
FailPage ==
    /\ queue # <<>> /\ Discover(Head(queue), "partial", got)
    /\ UNCHANGED <<chain, truth, receipt, indexed, result>>

Covered == ~limited /\ \A a \in DOMAIN told : told[a] = "complete"

Conclude ==
    /\ told # <<>> /\ queue = <<>> /\ result = Nothing /\ result' = Analyzed(got, Covered)
    /\ UNCHANGED <<chain, truth, receipt, indexed, queue, told, page, got, limited>>

Next ==
    \/ \E slot \in {Last(chain).slot : i \in DOMAIN chain} \cup {NextSlot} :
          \/ \E amount \in 1..MaxAmount : Buy(amount, slot)
          \/ \E m \in Moves : \E of \in 0..m.amount : Move(m.from, m.to, m.amount, of, slot, m.clear)
    \/ \E seen \in SUBSET DOMAIN chain : Check(seen)
    \/ ReadPage \/ FailPage \/ Conclude

Spec == Init /\ [][Next]_vars

-----------------------------------------------------------------------------
\* What is said of the purchase: tokens that nothing is certain of, and the most that
\* an account may have.
Certain == MapThenSumSet(LAMBDA a : result.nodes[a].lower, DOMAIN result.nodes)
Upper(node) == IF result.complete THEN AtMost(node.upper + Bought - Certain, node.balance) ELSE Bought

\* Wherever the tokens went, in whatever order, and whichever of its tokens an account
\* sent: each account that was followed has at least and at most as many of the
\* purchase as the check says (analyze_position).
LineageIsReal ==
    result # Nothing =>
        /\ Certain <= Bought
        /\ \A a \in DOMAIN result.nodes :
             /\ result.nodes[a].lower <= truth.mine[a] /\ truth.mine[a] <= Upper(result.nodes[a])
             /\ result.complete => result.nodes[a].balance = truth.held[a]
=============================================================================
