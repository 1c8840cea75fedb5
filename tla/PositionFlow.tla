------------------------------ MODULE PositionFlow ------------------------------
(***************************************************************************)
(* What became of the tokens a cohort bought (src/position_evidence.py     *)
(* seed_position, replay_position; src/robinhood.py position_check).       *)
(*                                                                         *)
(* Tokens are fungible: a wallet that holds bought tokens and others may   *)
(* send either.  A check replays the transfers since its checkpoint, one   *)
(* by one while the chain goes on, and passes on only the part of each     *)
(* that must have been bought.  Which ones really were is known to the     *)
(* model alone.                                                            *)
(***************************************************************************)
EXTENDS Naturals, FiniteSets, FiniteSetsExt, Sequences

CONSTANTS Originals, Others,     \* the cohort's wallets, and wallets they may send to
          Seeds,                 \* wallets followed from the start
          Starts,                \* what each original has when the cohort is frozen, how much
                                 \* of it was bought, and the lower bound of that
          MaxHeld, MaxTransfers, MaxChecks    \* bounds

VARIABLES course,    \* the truth at the checkpoint and after each transfer since: balances,
                     \* bought tokens in each wallet, bought tokens sold
          sent,      \* the transfers since the checkpoint
          pos,       \* the checkpoint: followed wallets and what was proved sold
          check,     \* the check under way: how far it has replayed, and how far it will
          transfers, checks

vars == <<course, sent, pos, check, transfers, checks>>

Hops == 2      \* how far from an original a wallet is still followed
Wallets == Originals \cup Others
Amounts == 0..(MaxHeld * (1 + MaxTransfers))
Truth == [held : [Wallets -> Amounts], mine : [Wallets -> Amounts], sold : Amounts]
Event == [from : Wallets \cup {"outside"}, to : Wallets \cup {"pool", "outside"},
          amount : 1..MaxHeld, bought : 0..MaxHeld, proved : BOOLEAN]
Node == [balance : Amounts, known : Amounts, depth : 0..Hops]
NoCheck == [head |-> 0]

IsPosition(p) ==
    /\ p.sold \in Amounts /\ DOMAIN p.nodes \subseteq Wallets
    /\ \A w \in DOMAIN p.nodes : p.nodes[w] \in Node

TypeOK ==
    /\ course \in Seq(Truth) /\ sent \in Seq(Event) /\ Len(course) = Len(sent) + 1
    /\ IsPosition(pos)
    /\ check # NoCheck => check.head \in 1..Len(sent) /\ check.done \in 0..check.head /\ IsPosition(check.pos)
    /\ transfers \in 0..MaxTransfers /\ checks \in 0..MaxChecks

\* The checkpoint is seeded with a lower bound of what each original still has of
\* its purchases; of many originals, those with the most are followed.
Seeded(start, C) ==
    [nodes |-> [w \in C |-> [balance |-> start[w].held, known |-> start[w].lower, depth |-> 0]], sold |-> 0]

Init ==
    /\ \E start \in Starts, C \in SUBSET Originals :
         /\ Cardinality(C) = Min({Seeds, Cardinality(Originals)})
         /\ \A w \in C, v \in Originals \ C : start[v].lower <= start[w].lower
         /\ course = <<[held |-> [w \in Wallets |-> IF w \in Originals THEN start[w].held ELSE 0],
                       mine |-> [w \in Wallets |-> IF w \in Originals THEN start[w].mine ELSE 0],
                       sold |-> 0]>>
         /\ pos = Seeded(start, C)
    /\ sent = <<>> /\ check = NoCheck /\ transfers = 0 /\ checks = 0

-----------------------------------------------------------------------------
\* As Less, below nothing.
LessSigned(n, m) == n - m
Less(n, m) == IF n > m THEN n - m ELSE 0

\* A wallet sends an amount, of which any part that its mixture allows was bought;
\* from outside come tokens that the cohort never bought.  The pool proves some of
\* the sales by their receipts.
Legal(t, e) ==
    /\ e.from # e.to /\ e.bought <= e.amount
    /\ e.proved => e.to = "pool"
    /\ IF e.from = "outside" THEN e.to \in Wallets /\ e.bought = 0
       ELSE /\ e.amount <= t.held[e.from] /\ e.bought <= t.mine[e.from]
            /\ e.amount - e.bought <= t.held[e.from] - t.mine[e.from]

Flow(f, e, n) ==
    [w \in Wallets |-> CASE w = e.from -> f[w] - n [] w = e.to -> f[w] + n [] OTHER -> f[w]]
Moved(t, e) ==
    [held |-> Flow(t.held, e, e.amount), mine |-> Flow(t.mine, e, e.bought),
     sold |-> t.sold + IF e.to = "pool" THEN e.bought ELSE 0]

Transfer(e) ==
    /\ transfers < MaxTransfers /\ transfers' = transfers + 1
    /\ LET now == course[Len(course)]
       IN  Legal(now, e) /\ course' = Append(course, Moved(now, e))
    /\ sent' = Append(sent, e)
    /\ UNCHANGED <<pos, check, checks>>

-----------------------------------------------------------------------------
\* Wallets that a followed wallet of one depth paid; an original with nothing
\* known to be bought is not followed further.
Paid(nodes, depth) ==
    {sent[i].to : i \in {j \in DOMAIN sent :
        LET s == sent[j].from
        IN  /\ s \in DOMAIN nodes /\ nodes[s].depth = depth
            /\ depth = 0 => nodes[s].known > 0}} \cap (Wallets \ DOMAIN nodes)

\* Of those any may be left out: it is a contract, or the limits are reached.
Followed(nodes, new, depth) ==
    [w \in DOMAIN nodes \cup new |->
        IF w \in new THEN [balance |-> course[1].held[w], known |-> 0, depth |-> depth] ELSE nodes[w]]

\* A check goes as far as the chain has come when it begins.
Begin ==
    /\ check = NoCheck /\ sent # <<>>
    /\ checks < MaxChecks /\ checks' = checks + 1
    /\ \E first \in SUBSET Paid(pos.nodes, 0) :
         LET nodes == Followed(pos.nodes, first, 1)
         IN  \E second \in SUBSET Paid(nodes, 1) :
               check' = [head |-> Len(sent), done |-> 0,
                         pos |-> [nodes |-> Followed(nodes, second, Hops), sold |-> pos.sold]]
    /\ UNCHANGED <<course, sent, pos, transfers>>

\* Mutant: the whole transfer is taken to be bought as far as the sender had any.
GuaranteedAll(node, amount) == Min({amount, node.known})

\* The part of a transfer that must have been bought.
Guaranteed(node, amount) == Less(amount, node.balance - node.known)

Spend(node, amount) == [node EXCEPT !.balance = node.balance - amount, !.known = Less(node.known, amount)]
Gain(node, amount, sure) == [node EXCEPT !.balance = node.balance + amount, !.known = node.known + sure]

Replayed(p, e) ==
    LET sure == IF e.from \in DOMAIN p.nodes THEN Guaranteed(p.nodes[e.from], e.amount) ELSE 0
    IN  [nodes |-> [w \in DOMAIN p.nodes |-> CASE w = e.from -> Spend(p.nodes[w], e.amount)
                                               [] w = e.to -> Gain(p.nodes[w], e.amount, sure)
                                               [] OTHER -> p.nodes[w]],
         sold |-> p.sold + IF e.proved THEN sure ELSE 0]

Replay ==
    /\ check # NoCheck /\ check.done < check.head
    /\ check' = [check EXCEPT !.done = check.done + 1, !.pos = Replayed(check.pos, sent[check.done + 1])]
    /\ UNCHANGED <<course, sent, pos, transfers, checks>>

\* The new checkpoint; what was sent meanwhile is left for the next check.
Finish ==
    /\ check # NoCheck /\ check.done = check.head
    /\ pos' = check.pos /\ check' = NoCheck
    /\ course' = SubSeq(course, check.head + 1, Len(course))
    /\ sent' = SubSeq(sent, check.head + 1, Len(sent))
    /\ UNCHANGED <<transfers, checks>>

\* A check that fails leaves its checkpoint and is made again.
Fail == check # NoCheck /\ check' = NoCheck /\ UNCHANGED <<course, sent, pos, transfers, checks>>

Next ==
    \/ \E e \in Event : Transfer(e)
    \/ Begin \/ Replay \/ Finish \/ Fail

Spec == Init /\ [][Next]_vars

-----------------------------------------------------------------------------
\* Whatever wallets are followed from when on, and whichever tokens they really
\* sent: a wallet of the checkpoint then had, or had sold, at least what is
\* attributed to it, and the replayed balance is the real one, which no transfer
\* exceeds (replay_position).
AttributedIsReal ==
    /\ \A w \in DOMAIN pos.nodes :
         /\ pos.nodes[w].balance = course[1].held[w]
         /\ pos.nodes[w].known <= course[1].mine[w]
    /\ pos.sold <= course[1].sold
===============================================================================
