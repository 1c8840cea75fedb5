------------------------------- MODULE RpcRouting -------------------------------
(***************************************************************************)
(* How one scan spends its RPC providers (src/scanner.py                   *)
(* SolanaRpcProvider.call, RoutedSolanaRpc._route_call,                    *)
(* fair_pool_rpc_budget; src/rpc_routing.py).                              *)
(*                                                                         *)
(* Pools are served in turn.  A pool's requests go to the providers in the *)
(* method's order; a provider retries, fails over, cools down, is blocked, *)
(* or turns out not to support the method, and every attempt it sends is   *)
(* charged before the answer is known.  During a pool's turn a provider's  *)
(* budget is cut to that pool's share of what is left.                     *)
(***************************************************************************)
EXTENDS Naturals, FiniteSets, FiniteSetsExt, Sequences, SequencesExt

CONSTANTS Providers,
          Methods, Order, Cost,   \* each method's order of providers, and the cost of an attempt
          Paged,                  \* the methods whose pages shrink to fit the budget
          Budget,                 \* of each provider for the scan
          Retries, Cool,          \* attempts after the first, length of a cooldown
          Pools, MaxTime, MaxFaults   \* pools to serve; bounds

VARIABLES prov,    \* what the scan knows of each provider
          req,     \* the request under way
          left,    \* pools whose turn has not ended
          turn,    \* one of them has its turn
          now, faults

vars == <<prov, req, left, turn, now, faults>>

NoRequest == [method |-> "none", route |-> <<>>, tries |-> 0, cost |-> 0]

TypeOK ==
    /\ prov \in [Providers -> [spent : 0..Budget, cap : 0..Budget, blocked : BOOLEAN,
                               unsupported : SUBSET Methods,
                               cool : [Methods -> 0..(MaxTime + Cool)]]]
    /\ req.method \in Methods \cup {"none"} /\ req.tries \in 0..Retries
    /\ Range(req.route) \subseteq Providers
    /\ left \in 0..Pools /\ turn \in BOOLEAN /\ now \in 0..MaxTime /\ faults \in 0..MaxFaults

\* A provider at the start of a scan: blocked by its health check, without the
\* methods the capability cache has learned that it lacks.
NewProvider(blocked, lacks) ==
    [spent |-> 0, cap |-> Budget, blocked |-> blocked, unsupported |-> lacks,
     cool |-> [m \in Methods |-> 0]]
Learned == {{}} \cup {{m} : m \in Methods}
Healthy == \E p \in Providers : ~prov[p].blocked

Init ==
    /\ prov \in [Providers -> {NewProvider(b, u) : b \in BOOLEAN, u \in Learned}]
    /\ Healthy
    /\ req = NoRequest /\ left = Pools /\ turn = FALSE /\ now = 0 /\ faults = 0

-----------------------------------------------------------------------------
Cooling(p, m) == prov[p].cool[m] > now
Eligible(p, m) == ~prov[p].blocked /\ ~Cooling(p, m) /\ m \notin prov[p].unsupported

Fits(p, cost) == prov[p].spent + cost <= prov[p].cap

\* The share of a provider that the pool whose turn it is may use
\* (fair_pool_rpc_budget).
Allowance(p) == Max({1, (Budget - prov[p].spent) \div left})
Shared(p) == [prov[p] EXCEPT !.cap = Min({Budget, prov[p].spent + Allowance(p)})]

Turn ==
    /\ ~turn /\ left > 0 /\ turn' = TRUE
    /\ prov' = [p \in Providers |-> Shared(p)]
    /\ UNCHANGED <<req, left, now, faults>>

EndTurn ==
    /\ turn /\ req = NoRequest /\ turn' = FALSE
    /\ left' = left - 1
    /\ prov' = [p \in Providers |-> [prov[p] EXCEPT !.cap = Budget]]
    /\ UNCHANGED <<req, now, faults>>

\* The size of a page is cut until its cost fits; other costs are fixed.
CostOf(p, m) ==
    IF m \in Paged THEN Max({1} \cup {c \in 1..Cost[m] : Fits(p, c)}) ELSE Cost[m]

\* The route is fixed when the request starts.
Start(m) ==
    /\ turn /\ req = NoRequest
    /\ LET route == SelectSeq(Order[m], LAMBDA p : Eligible(p, m))
       IN  /\ route # <<>>
           /\ req' = [method |-> m, route |-> route, tries |-> 0, cost |-> CostOf(Head(route), m)]
    /\ UNCHANGED <<prov, left, turn, now, faults>>

-----------------------------------------------------------------------------
\* The provider tried now, and the request when it goes on to the next one.
Provider == Head(req.route)
Failover ==
    IF Len(req.route) = 1 THEN NoRequest
    ELSE [req EXCEPT !.route = Tail(@), !.tries = 0, !.cost = CostOf(req.route[2], req.method)]

\* Every attempt is charged when it is sent.
Charged(p) == [prov[p] EXCEPT !.spent = @ + req.cost]

\* Nothing was sent: the provider is cooling by now or its budget is used up.
Refused ==
    /\ req # NoRequest
    /\ ~Eligible(Provider, req.method) \/ ~Fits(Provider, req.cost)
    /\ req' = Failover
    /\ UNCHANGED <<prov, left, turn, now, faults>>

\* Mutant: a retry does not look at the budget.
MaySendRetry == req # NoRequest /\ Eligible(Provider, req.method) /\ (req.tries > 0 \/ Fits(Provider, req.cost))

MaySend == req # NoRequest /\ Eligible(Provider, req.method) /\ Fits(Provider, req.cost)

\* An answer; a null transaction is asked of the other providers too.
Answer ==
    /\ MaySend
    /\ \E null \in {FALSE, req.method \notin Paged} :
         req' = IF null THEN Failover ELSE NoRequest
    /\ prov' = [prov EXCEPT ![Provider] = Charged(Provider)]
    /\ UNCHANGED <<left, turn, now, faults>>

\* An error worth another attempt; the attempts may take time.
Retry ==
    /\ MaySend /\ req.tries < Retries
    /\ faults < MaxFaults /\ faults' = faults + 1
    /\ req' = [req EXCEPT !.tries = @ + 1]
    /\ prov' = [prov EXCEPT ![Provider] = Charged(Provider)]
    /\ now' \in {now, now + 1} /\ now' <= MaxTime
    /\ UNCHANGED <<left, turn>>

\* The last attempt fails, or the answer is no valid one: the method cools down
\* at this provider.  (Its failures in a row are cleared when the cooldown is
\* over, so the method's circuit never opens.)
Transient ==
    /\ MaySend
    /\ faults < MaxFaults /\ faults' = faults + 1
    /\ prov' = [prov EXCEPT ![Provider] = [Charged(Provider) EXCEPT !.cool[req.method] = now + Cool]]
    /\ req' = Failover
    /\ UNCHANGED <<left, turn, now>>

\* The provider refuses the key, is out of quota, or has no such method.
Denied ==
    /\ MaySend
    /\ faults < MaxFaults /\ faults' = faults + 1
    /\ \/ prov' = [prov EXCEPT ![Provider] = [Charged(Provider) EXCEPT !.blocked = TRUE]]
       \/ prov' = [prov EXCEPT ![Provider] = [Charged(Provider) EXCEPT !.unsupported = @ \cup {req.method}]]
    /\ req' = Failover
    /\ UNCHANGED <<left, turn, now>>

\* The request itself is wrong: no other provider is asked.
ClientError ==
    /\ MaySend
    /\ faults < MaxFaults /\ faults' = faults + 1
    /\ prov' = [prov EXCEPT ![Provider] = Charged(Provider)]
    /\ req' = NoRequest
    /\ UNCHANGED <<left, turn, now>>

Wait == req = NoRequest /\ now < MaxTime /\ now' = now + 1 /\ UNCHANGED <<prov, req, left, turn, faults>>

Next ==
    \/ Turn \/ EndTurn \/ Wait
    \/ \E m \in Methods : Start(m)
    \/ Refused \/ Answer \/ Retry \/ Transient \/ Denied \/ ClientError

Spec == Init /\ [][Next]_vars

-----------------------------------------------------------------------------
\* However often the requests of a pool are retried, failed over and shrunk, it
\* leaves each pool after it an equal share of every provider's budget, the
\* share that pool had when the pass began (fair_pool_rpc_budget, call).
SharesAreLeft ==
    LET others == IF left = 0 THEN 0 ELSE left - 1
    IN  \A p \in Providers : Budget - prov[p].spent >= others * (Budget \div Pools)
===============================================================================
