--------------------------- MODULE RouteLookup_proofs --------------------------
(***************************************************************************)
(* Proofs about RouteLookup, for any route tables, pools of any size and   *)
(* any number of requests: lookup finds the most specific route, no request *)
(* gets one upstream twice, the scan of a pool finds an upstream if there   *)
(* is one, and none is passed over for ever.  Only the part about routes    *)
(* expands Best; the others hold whatever route a lookup finds.             *)
(***************************************************************************)
EXTENDS RouteLookup, SequenceTheorems, WellFoundedInduction, TLAPS

\* How many places it is from one position to another, around a pool of n.
Places(n, from, to) == IF from <= to THEN to - from ELSE to + n - from

\* How many places the cursor of route i is away from slot k.
Distance(i, k) == Places(Size(i), cursor[i], k)

\* A slot has been passed over less often than the cursor has moved towards it:
\* what it has waited and what it may still wait stay below the size of the pool.
Patience ==
    \A i \in DOMAIN table : \A k \in Slots(i) :
        /\ waited[i][k] + Distance(i, k) < Size(i)
        /\ k \notin healthy[i] => waited[i][k] = 0

Ids == UNION {{Upstream(i, k).id : k \in Slots(i)} : i \in DOMAIN table}

RequestsOK ==
    /\ DOMAIN requests = Requests
    /\ \A r \in Requests : /\ requests[r].attempted \in Seq(Ids)
                           /\ IsInjective(requests[r].attempted)

WaitedOK ==
    /\ DOMAIN waited = DOMAIN table
    /\ \A i \in DOMAIN table : waited[i] \in [Slots(i) -> Nat]

IInv == TypeOK /\ WaitedOK /\ Patience /\ RequestsOK /\ ~turnedAway

--------------------------------------------------------------------------------
(* Arithmetic of the cursor *)

\* One subtraction is enough for the sum of a position and an offset.
LEMMA Wrapped ==
    ASSUME NEW n \in Nat \ {0}, NEW a \in 0..(2 * n - 1)
    PROVE  a % n = IF a < n THEN a ELSE a - n
  OBVIOUS

\* Offset o leads from position c to position k, which is o places away.
LEMMA Around ==
    ASSUME NEW n \in Nat \ {0}, NEW c \in 0..(n - 1), NEW o \in 0..(n - 1)
    PROVE  LET k == (c + o) % n
           IN  k \in 0..(n - 1) /\ Places(n, c, k) = o
<1> DEFINE a == c + o
<1>1. a \in 0..(2 * n - 1)
  OBVIOUS
<1>2. a % n = IF a < n THEN a ELSE a - n
  BY <1>1, Wrapped
<1> QED BY <1>2 DEF Places

LEMMA SmallestBelow ==
    ASSUME NEW R, IsWellFoundedOn(R, Nat), \A x, y \in Nat : <<y, x>> \in R <=> y < x,
           NEW T \in SUBSET Nat, T # {}
    PROVE  \E x \in T : \A y \in T : x <= y
<1>1. PICK x \in T : \A y \in T : ~(<<y, x>> \in R)
  BY WFMin
<1>2. ASSUME NEW y \in T
      PROVE  x <= y
  <2>1. x \in Nat /\ y \in Nat /\ <<y, x>> \notin R
    BY <1>1
  <2>2. ~(y < x)
    BY <2>1, Zenon
  <2> QED BY <2>1, <2>2
<1> QED BY <1>2

LEMMA Smallest ==
    ASSUME NEW T \in SUBSET Nat, T # {}
    PROVE  \E x \in T : \A y \in T : x <= y
<1>1. \A x, y \in Nat : <<y, x>> \in OpToRel(<, Nat) <=> y < x
  BY DEF OpToRel
<1> QED BY <1>1, NatLessThanWellFounded, SmallestBelow

LEMMA SizeType ==
    ASSUME TypeOK, NEW i \in DOMAIN table
    PROVE  /\ Size(i) \in Nat \ {0}
           /\ cursor[i] \in 0..(Size(i) - 1)
           /\ healthy[i] \subseteq 0..(Size(i) - 1)
  BY TableAssumption DEF TypeOK, Accepted, Size, Slots

\* The slot that the loop of lookup looks at with this offset, and the offset
\* with which it looks at that slot.
LEMMA SlotAt ==
    ASSUME TypeOK, NEW i \in DOMAIN table, NEW offset \in Slots(i)
    PROVE  LET k == (cursor[i] + offset) % Size(i)
           IN  k \in Slots(i) /\ Distance(i, k) = offset
<1>1. /\ Size(i) \in Nat \ {0}
      /\ cursor[i] \in 0..(Size(i) - 1)
      /\ offset \in 0..(Size(i) - 1)
  BY SizeType DEF Slots
<1> QED BY <1>1, Around DEF Slots, Distance

LEMMA OffsetOf ==
    ASSUME TypeOK, NEW i \in DOMAIN table, NEW k \in Slots(i)
    PROVE  /\ Distance(i, k) \in Slots(i)
           /\ (cursor[i] + Distance(i, k)) % Size(i) = k
<1>1. /\ Size(i) \in Nat \ {0}
      /\ cursor[i] \in 0..(Size(i) - 1)
      /\ k \in 0..(Size(i) - 1)
  BY SizeType DEF Slots
<1>2. /\ Distance(i, k) \in 0..(Size(i) - 1)
      /\ cursor[i] + Distance(i, k) = IF cursor[i] <= k THEN k ELSE k + Size(i)
  BY <1>1 DEF Distance, Places
<1>3. cursor[i] + Distance(i, k) \in 0..(2 * Size(i) - 1)
  BY <1>1, <1>2
<1>4. (cursor[i] + Distance(i, k)) % Size(i) = k
  BY <1>1, <1>2, <1>3, Wrapped
<1> QED BY <1>2, <1>4 DEF Slots

\* Every slot in front of the one that is taken was not eligible.
LEMMA TakenIsNearest ==
    ASSUME TypeOK, NEW i \in DOMAIN table, NEW excluded, NEW offset \in FirstEligible(i, excluded)
    PROVE  LET k == (cursor[i] + offset) % Size(i)
           IN  /\ k \in Slots(i)
               /\ Distance(i, k) = offset
               /\ Eligible(i, k, excluded)
               /\ \A s \in Slots(i) : Eligible(i, s, excluded) => Distance(i, s) >= offset
<1> DEFINE at(o) == (cursor[i] + o) % Size(i)
<1>1. /\ offset \in Slots(i)
      /\ Eligible(i, at(offset), excluded)
      /\ \A earlier \in Slots(i) : earlier < offset => ~Eligible(i, at(earlier), excluded)
  BY DEF FirstEligible
<1>2. ASSUME NEW s \in Slots(i), Eligible(i, s, excluded)
      PROVE  Distance(i, s) >= offset
  <2>1. Distance(i, s) \in Slots(i) /\ at(Distance(i, s)) = s
    BY OffsetOf
  <2>2. ~(Distance(i, s) < offset)
    BY <1>1, <1>2, <2>1
  <2> QED BY <1>1, <2>1, <2>2, SizeType DEF Slots
<1> QED BY <1>1, <1>2, SlotAt

\* The scan sees every slot, wherever it starts.
LEMMA ScanIsComplete ==
    ASSUME TypeOK, NEW i \in DOMAIN table, NEW excluded, FirstEligible(i, excluded) = {}
    PROVE  \A k \in healthy[i] : Upstream(i, k).id \in excluded
<1> DEFINE at(o) == (cursor[i] + o) % Size(i)
           found == {o \in Slots(i) : Eligible(i, at(o), excluded)}
<1>1. found \subseteq Nat
  BY SizeType DEF Slots
<1>2. found = {}
  <2>1. SUFFICES ASSUME found # {} PROVE FALSE
    OBVIOUS
  <2>2. PICK o \in found : \A m \in found : o <= m
    BY <1>1, <2>1, Smallest
  <2>3. o \in FirstEligible(i, excluded)
    BY <1>1, <2>2, SizeType DEF FirstEligible, Slots
  <2> QED BY <2>3
<1>3. ASSUME NEW k \in healthy[i], Upstream(i, k).id \notin excluded
      PROVE  FALSE
  <2>1. k \in Slots(i) /\ Eligible(i, k, excluded)
    BY <1>3, SizeType DEF Slots, Eligible
  <2>2. Distance(i, k) \in Slots(i) /\ at(Distance(i, k)) = k
    BY <2>1, OffsetOf
  <2> QED BY <1>2, <2>1, <2>2
<1> QED BY <1>3

--------------------------------------------------------------------------------
(* Taking an upstream *)

\* The cursor stops behind the slot that was taken: every other slot in front of
\* which it passed was not eligible, so it comes nearer to all that were.
LEMMA CursorMoves ==
    ASSUME NEW n \in Nat \ {0}, NEW c \in 0..(n - 1), NEW k \in 0..(n - 1),
           NEW s \in 0..(n - 1)
    PROVE  LET next == (k + 1) % n
           IN  /\ next \in 0..(n - 1)
               /\ Places(n, next, s) \in 0..(n - 1)
               /\ s # k /\ Places(n, c, k) <= Places(n, c, s) =>
                    Places(n, next, s) + Places(n, c, k) + 1 = Places(n, c, s)
<1> DEFINE next == (k + 1) % n
<1>1. next = IF k + 1 < n THEN k + 1 ELSE k + 1 - n
  <2> DEFINE a == k + 1
  <2>1. a \in 0..(2 * n - 1)
    OBVIOUS
  <2> HIDE DEF a
  <2>2. a % n = IF a < n THEN a ELSE a - n
    BY <2>1, Wrapped
  <2> QED BY <2>2 DEF a
<1> QED BY <1>1 DEF Places

LEMMA TakeKeepsPatience ==
    ASSUME TypeOK, WaitedOK, Patience, NEW i \in DOMAIN table, NEW excluded,
           NEW offset \in FirstEligible(i, excluded), NEW k,
           k = (cursor[i] + offset) % Size(i), Take(i, k, excluded)
    PROVE  WaitedOK' /\ Patience' /\ cursor' \in [DOMAIN table -> Nat]
           /\ \A j \in DOMAIN table : cursor'[j] \in Slots(j)
<1> DEFINE wait == [s \in Slots(i) |-> IF s # k /\ Eligible(i, s, excluded)
                                       THEN waited[i][s] + 1 ELSE 0]
           next == (k + 1) % Size(i)
<1>1. /\ Size(i) \in Nat \ {0} /\ cursor[i] \in 0..(Size(i) - 1)
      /\ cursor \in [DOMAIN table -> Nat] /\ \A j \in DOMAIN table : cursor[j] \in Slots(j)
  BY SizeType DEF TypeOK
<1>2. /\ k \in Slots(i) /\ Distance(i, k) = offset /\ Eligible(i, k, excluded)
      /\ \A s \in Slots(i) : Eligible(i, s, excluded) => Distance(i, s) >= offset
  BY TakenIsNearest
<1>3. /\ cursor' = [cursor EXCEPT ![i] = next]
      /\ waited' = [waited EXCEPT ![i] = wait]
      /\ table' = table /\ healthy' = healthy
  BY DEF Take, NextCursor
<1>4. /\ next \in 0..(Size(i) - 1)
      /\ \A s \in Slots(i) :
           /\ Places(Size(i), next, s) \in 0..(Size(i) - 1)
           /\ s # k /\ Distance(i, k) <= Distance(i, s) =>
                Places(Size(i), next, s) + Distance(i, k) + 1 = Distance(i, s)
  BY <1>1, <1>2, CursorMoves DEF Slots, Distance
<1> HIDE DEF next
<1>5. wait \in [Slots(i) -> Nat]
  BY DEF WaitedOK
<1>6. \A s \in Slots(i) :
        /\ wait[s] + Places(Size(i), next, s) < Size(i)
        /\ s \notin healthy[i] => wait[s] = 0
  <2> TAKE s \in Slots(i)
  <2> DEFINE d == Places(Size(i), next, s)
  <2>1. /\ s \in 0..(Size(i) - 1) /\ d \in 0..(Size(i) - 1)
        /\ s # k /\ Distance(i, k) <= Distance(i, s) =>
             d + Distance(i, k) + 1 = Distance(i, s)
    BY <1>4 DEF Slots
  <2>2. /\ waited[i][s] \in Nat /\ waited[i][s] + Distance(i, s) < Size(i)
        /\ Distance(i, s) \in Nat /\ Distance(i, k) \in Nat
    <3>1. waited[i][s] \in Nat /\ waited[i][s] + Distance(i, s) < Size(i)
      BY DEF WaitedOK, Patience
    <3>2. Distance(i, s) \in Nat /\ Distance(i, k) \in Nat
      BY <1>1, <1>2, OffsetOf DEF Slots
    <3> QED BY <3>1, <3>2
  <2> HIDE DEF d
  <2>3. CASE s # k /\ Eligible(i, s, excluded)
    <3>1. Distance(i, k) <= Distance(i, s)
      BY <1>2, <2>2, <2>3
    <3>2. wait[s] = waited[i][s] + 1
      BY <2>3
    <3>3. d + Distance(i, k) + 1 = Distance(i, s)
      BY <2>1, <2>3, <3>1
    <3>4. wait[s] + d < Size(i)
      <4> HIDE DEF wait
      <4> QED BY <1>1, <2>1, <2>2, <3>2, <3>3
    <3> QED BY <2>3, <3>4 DEF Eligible, d
  <2>4. CASE ~(s # k /\ Eligible(i, s, excluded))
    <3>1. wait[s] = 0
      BY <2>4
    <3> HIDE DEF wait
    <3> QED BY <1>1, <2>1, <3>1 DEF d
  <2> QED BY <2>3, <2>4
<1> HIDE DEF wait
<1>7. WaitedOK'
  BY <1>3, <1>5 DEF WaitedOK, Slots, Size
<1>8. Patience'
  <2> SUFFICES ASSUME NEW j \in DOMAIN table, NEW s \in Slots(j)
               PROVE  /\ waited'[j][s] + Distance(j, s)' < Size(j)
                      /\ s \notin healthy[j] => waited'[j][s] = 0
    BY <1>3 DEF Patience, Slots, Size
  <2>1. CASE j = i
    BY <1>1, <1>3, <1>6, <2>1 DEF WaitedOK, Distance, Size
  <2>2. CASE j # i
    <3>1. waited'[j] = waited[j] /\ cursor'[j] = cursor[j] /\ table' = table
      BY <1>1, <1>3, <2>2 DEF WaitedOK
    <3> QED BY <3>1 DEF Patience, Distance, Size
  <2> QED BY <2>1, <2>2
<1>9. cursor' \in [DOMAIN table -> Nat] /\ \A j \in DOMAIN table : cursor'[j] \in Slots(j)
  BY <1>1, <1>3, <1>4 DEF Slots
<1> QED BY <1>7, <1>8, <1>9

--------------------------------------------------------------------------------
(* The steps *)

LEMMA RequestsKept ==
    ASSUME RequestsOK, UNCHANGED <<table, requests>>
    PROVE  RequestsOK'
<1>1. Ids' = Ids
  BY DEF Ids, Slots, Size, Upstream
<1> QED BY <1>1 DEF RequestsOK

LEMMA HealthChanged ==
    ASSUME IInv, DOMAIN healthy' = DOMAIN table,
           \A i \in DOMAIN table : healthy'[i] \subseteq Slots(i),
           waited' = [i \in DOMAIN table |-> Forget(i)],
           UNCHANGED <<table, cursor, requests, turnedAway>>
    PROVE  IInv'
<1>1. TypeOK'
  BY DEF IInv, TypeOK, Slots, Size
<1>2. \A i \in DOMAIN table :
        waited'[i] = [s \in Slots(i) |-> IF s \in healthy'[i] THEN waited[i][s] ELSE 0]
  BY DEF Forget
<1>3. WaitedOK'
  BY <1>2 DEF IInv, WaitedOK, Slots, Size
<1>4. Patience'
  <2> SUFFICES ASSUME NEW i \in DOMAIN table, NEW k \in Slots(i)
               PROVE  /\ waited'[i][k] + Distance(i, k) < Size(i)
                      /\ k \notin healthy'[i] => waited'[i][k] = 0
    BY DEF Patience, Slots, Size, Distance
  <2>1. /\ waited[i][k] \in Nat /\ waited[i][k] + Distance(i, k) < Size(i)
    BY DEF IInv, WaitedOK, Patience
  <2>2. Distance(i, k) \in Nat /\ Distance(i, k) < Size(i)
    BY OffsetOf, SizeType DEF IInv, Slots
  <2>3. waited'[i][k] = IF k \in healthy'[i] THEN waited[i][k] ELSE 0
    BY <1>2
  <2> QED BY <2>1, <2>2, <2>3
<1>5. RequestsOK'
  BY RequestsKept DEF IInv
<1> QED BY <1>1, <1>3, <1>4, <1>5 DEF IInv

\* A request with a new list of attempts, the others as they were.
LEMMA RequestChanged ==
    ASSUME RequestsOK, UNCHANGED table, NEW r \in Requests, NEW q,
           requests' = [requests EXCEPT ![r] = q],
           q.attempted \in Seq(Ids), IsInjective(q.attempted)
    PROVE  RequestsOK'
<1>1. Ids' = Ids
  BY DEF Ids, Slots, Size, Upstream
<1> QED BY <1>1 DEF RequestsOK

LEMMA RequestEnded ==
    ASSUME RequestsOK, UNCHANGED table, NEW r \in Requests,
           requests' = [requests EXCEPT ![r] = NoRequest]
    PROVE  RequestsOK'
<1>1. NoRequest.attempted \in Seq(Ids) /\ IsInjective(NoRequest.attempted)
  BY DEF NoRequest, IsInjective
<1> QED BY <1>1, RequestChanged

LEMMA OneMore ==
    ASSUME NEW S, NEW q \in Seq(S), IsInjective(q), NEW e \in S, e \notin ToSet(q)
    PROVE  Append(q, e) \in Seq(S) /\ IsInjective(Append(q, e))
  BY DEF IsInjective, ToSet

LEMMA LookedUp ==
    ASSUME IInv, NEW r \in Requests, NEW header, NEW target,
           NEW attempted \in Seq(Ids), IsInjective(attempted),
           Lookup(r, header, target, attempted)
    PROVE  IInv'
<1> USE DEF IInv
<1>1. CASE Matched(r, header, target, attempted)
  <2> DEFINE excluded == ToSet(attempted)
  <2>a. PICK i \in DOMAIN table : \E offset \in FirstEligible(i, excluded) :
          /\ Take(i, (cursor[i] + offset) % Size(i), excluded)
          /\ requests' = [requests EXCEPT ![r] =
               [header |-> header, target |-> target,
                attempted |-> Append(attempted, Upstream(i, (cursor[i] + offset) % Size(i)).id)]]
    BY <1>1 DEF Matched
  <2>1. PICK offset \in FirstEligible(i, excluded) :
          /\ Take(i, (cursor[i] + offset) % Size(i), excluded)
          /\ requests' = [requests EXCEPT ![r] =
               [header |-> header, target |-> target,
                attempted |-> Append(attempted, Upstream(i, (cursor[i] + offset) % Size(i)).id)]]
    BY <2>a
  <2> HIDE DEF excluded
  <2> DEFINE k == (cursor[i] + offset) % Size(i)
  <2>2. k \in Slots(i) /\ Upstream(i, k).id \notin excluded
    BY TakenIsNearest DEF Eligible
  <2>3. /\ WaitedOK' /\ Patience' /\ cursor' \in [DOMAIN table -> Nat]
        /\ \A j \in DOMAIN table : cursor'[j] \in Slots(j)
    BY <2>1, TakeKeepsPatience
  <2>4. UNCHANGED <<table, healthy, turnedAway>>
    BY <2>1 DEF Take
  <2>5. TypeOK'
    BY <2>3, <2>4 DEF TypeOK, Slots, Size
  <2> DEFINE e == Upstream(i, k).id
             q == [header |-> header, target |-> target, attempted |-> Append(attempted, e)]
  <2>6. e \in Ids /\ e \notin ToSet(attempted)
    BY <2>2 DEF Ids, excluded
  <2>7. requests' = [requests EXCEPT ![r] = q]
    BY <2>1
  <2> HIDE DEF e
  <2>8. q.attempted \in Seq(Ids) /\ IsInjective(q.attempted)
    BY <2>6, OneMore
  <2> HIDE DEF q
  <2>9. RequestsOK'
    BY <2>4, <2>7, <2>8, RequestChanged
  <2> QED BY <2>3, <2>4, <2>5, <2>9
<1>2. CASE NoHealthyUpstream(r, header, target, attempted)
  <2>1. PICK i \in DOMAIN table :
          /\ FirstEligible(i, ToSet(attempted)) = {}
          /\ turnedAway' = (turnedAway \/ \E k \in healthy[i] :
                                           Upstream(i, k).id \notin ToSet(attempted))
    BY <1>2 DEF NoHealthyUpstream
  <2>2. ~turnedAway'
    BY <2>1, ScanIsComplete
  <2>3. /\ requests' = [requests EXCEPT ![r] = NoRequest]
        /\ UNCHANGED <<table, healthy, cursor, waited>>
    BY <1>2 DEF NoHealthyUpstream
  <2>4. TypeOK' /\ WaitedOK' /\ Patience'
    <3>1. turnedAway' \in BOOLEAN
      BY <2>1
    <3> QED BY <2>3, <3>1 DEF TypeOK, WaitedOK, Patience, Distance, Slots, Size
  <2> QED BY <2>2, <2>3, <2>4, RequestEnded
<1>3. CASE NoRoute(r, header, target)
  <2>1. /\ requests' = [requests EXCEPT ![r] = NoRequest]
        /\ UNCHANGED <<table, healthy, cursor, waited, turnedAway>>
    BY <1>3 DEF NoRoute
  <2>2. TypeOK' /\ WaitedOK' /\ Patience'
    BY <2>1 DEF TypeOK, WaitedOK, Patience, Distance, Slots, Size
  <2> QED BY <2>1, <2>2, RequestEnded
<1> QED BY <1>1, <1>2, <1>3 DEF Lookup

LEMMA Initially == Init => IInv
<1> SUFFICES ASSUME Init PROVE IInv
  OBVIOUS
<1>1. table \in Tables /\ Accepted(table)
  BY DEF Init
<1>2. ASSUME NEW i \in DOMAIN table
      PROVE  Size(i) \in Nat \ {0}
  <2>1. Len(table[i].upstreams) \in Nat /\ Len(table[i].upstreams) > 0
    BY <1>1, TableAssumption DEF Accepted
  <2> QED BY <2>1 DEF Size
<1>3. TypeOK
  <2>1. \A i \in DOMAIN table : 0 \in Slots(i)
    BY <1>2 DEF Slots
  <2> QED BY <1>1, <2>1 DEF Init, TypeOK
<1>4. WaitedOK /\ Patience
  BY <1>2 DEF Init, WaitedOK, Patience, Distance, Places, Slots
<1>5. NoRequest.attempted \in Seq(Ids) /\ IsInjective(NoRequest.attempted)
  BY DEF NoRequest, IsInjective
<1>6. RequestsOK
  BY <1>5 DEF Init, RequestsOK
<1> QED BY <1>3, <1>4, <1>6 DEF Init, IInv

LEMMA Preserved == IInv /\ [Next]_vars => IInv'
<1> SUFFICES ASSUME IInv, [Next]_vars PROVE IInv'
  OBVIOUS
<1>1. ASSUME NEW r \in Requests, FirstLookup(r)
      PROVE  IInv'
  <2>1. <<>> \in Seq(Ids) /\ IsInjective(<<>>)
    BY DEF IsInjective
  <2> QED BY <1>1, <2>1, LookedUp DEF FirstLookup
<1>2. ASSUME NEW r \in Requests, RetryLookup(r)
      PROVE  IInv'
  <2>1. requests[r].attempted \in Seq(Ids) /\ IsInjective(requests[r].attempted)
    BY DEF IInv, RequestsOK
  <2> QED BY <1>2, <2>1, LookedUp DEF RetryLookup
<1>3. ASSUME NEW r \in Requests, Finish(r)
      PROVE  IInv'
  <2>1. /\ requests' = [requests EXCEPT ![r] = NoRequest]
        /\ UNCHANGED <<table, healthy, cursor, waited, turnedAway>>
    BY <1>3 DEF Finish
  <2>2. TypeOK' /\ WaitedOK' /\ Patience' /\ ~turnedAway'
    BY <2>1 DEF IInv, TypeOK, WaitedOK, Patience, Distance, Slots, Size
  <2> QED BY <2>1, <2>2, RequestEnded DEF IInv
<1>4. ASSUME NEW address, NEW up \in BOOLEAN, SetEndpointHealth(address, up)
      PROVE  IInv'
  <2>1. /\ DOMAIN healthy' = DOMAIN table
        /\ \A i \in DOMAIN table : healthy'[i] \subseteq Slots(i)
    BY <1>4 DEF SetEndpointHealth, IInv, TypeOK
  <2> QED BY <1>4, <2>1, HealthChanged DEF SetEndpointHealth
<1>5. ASSUME NEW i \in DOMAIN table, NEW k \in Slots(i), NEW up \in BOOLEAN,
             SetUpstreamHealth(i, k, up)
      PROVE  IInv'
  <2>1. /\ DOMAIN healthy' = DOMAIN table
        /\ \A j \in DOMAIN table : healthy'[j] \subseteq Slots(j)
    BY <1>5 DEF SetUpstreamHealth, IInv, TypeOK
  <2> QED BY <1>5, <2>1, HealthChanged DEF SetUpstreamHealth
<1>6. CASE UNCHANGED vars
  <2>1. TypeOK' /\ WaitedOK' /\ Patience' /\ ~turnedAway'
    BY <1>6 DEF vars, IInv, TypeOK, WaitedOK, Patience, Distance, Slots, Size
  <2> QED BY <1>6, <2>1, RequestsKept DEF vars, IInv
<1> QED BY <1>1, <1>2, <1>3, <1>4, <1>5, <1>6 DEF Next

\* The inductive invariant holds of every table, whatever is looked up in it.
THEOREM Invariant == Spec => []IInv
  BY Initially, Preserved, PTL DEF Spec

\* The cursor of every route is a position in its pool.
THEOREM TypeCorrect == Spec => []TypeOK
<1>1. IInv => TypeOK
  BY DEF IInv
<1> QED BY <1>1, Invariant, PTL

\* A retry is never sent to the upstream of the first attempt, whatever other
\* requests and changes of health have done to the cursor in between.
THEOREM NoSecondTry == Spec => []TriedOnce
<1>1. IInv => TriedOnce
  BY DEF IInv, RequestsOK, TriedOnce
<1> QED BY <1>1, Invariant, PTL

\* In pools of any size, a healthy upstream is passed over less often in a row
\* than the pool has members.
THEOREM NoStarvation == Spec => []NobodyStarves
<1>1. ASSUME IInv
      PROVE  NobodyStarves
  <2> SUFFICES ASSUME NEW i \in DOMAIN table, NEW k \in Slots(i)
               PROVE  waited[i][k] < Size(i)
    BY DEF NobodyStarves
  <2>1. waited[i][k] \in Nat /\ waited[i][k] + Distance(i, k) < Size(i)
    BY <1>1 DEF IInv, WaitedOK, Patience
  <2>2. Size(i) \in Nat /\ Distance(i, k) \in Nat
    BY <1>1, OffsetOf, SizeType DEF IInv, Slots
  <2> QED BY <2>1, <2>2
<1> QED BY <1>1, Invariant, PTL

\* No request is refused while its route has a healthy upstream it has not tried.
THEOREM NoFalseRefusal == Spec => []AvailableIsFound
<1>1. IInv => AvailableIsFound
  BY DEF IInv, AvailableIsFound
<1> QED BY <1>1, Invariant, PTL

--------------------------------------------------------------------------------
(* The scan of the routes: a fold, and so a function of the set of routes *)

Matching(s, host, path) == {i \in s : Matches(table[i], host, path)}

\* The scan of the routes in s leads to b: the first of those that no other beats.
Leads(b, s, host, path) ==
    \/ b = 0 /\ Matching(s, host, path) = {}
    \/ /\ b \in Matching(s, host, path)
       /\ \A j \in Matching(s, host, path) : /\ ~Better(table[j], table[b])
                                             /\ j < b => Better(table[b], table[j])

\* One step of the scan.
Scanned(best, i, host, path) ==
    IF /\ Matches(table[i], host, path)
       /\ best = 0 \/ Better(table[i], table[best])
    THEN i ELSE best

\* f is the scan, as a function of the set of routes it has looked at.
IsScan(f, n, host, path) ==
    f = [s \in SUBSET (1..n) |->
           IF s = {} THEN 0
           ELSE LET x == Max(s) IN Scanned(f[s \ {x}], x, host, path)]

\* What the constants say of a route of an accepted list.
LEMMA RouteType ==
    ASSUME TypeOK, NEW i \in DOMAIN table
    PROVE  /\ table[i].wildcard \in BOOLEAN
           /\ table[i].host \in Seq(ToSet(table[i].host)) /\ Len(table[i].host) \in Nat
           /\ table[i].prefix \in Seq(ToSet(table[i].prefix)) /\ Len(table[i].prefix) \in Nat
           /\ i \in 1..Len(table) /\ i \in Nat /\ Len(table) \in Nat
<1>1. /\ table[i].wildcard \in BOOLEAN
      /\ table[i].host \in Seq(ToSet(table[i].host))
      /\ table[i].prefix \in Seq(ToSet(table[i].prefix))
      /\ i \in 1..Len(table) /\ Len(table) \in Nat
  BY TableAssumption DEF TypeOK
<1> QED BY <1>1, LenProperties

\* Better is a strict weak order.
LEMMA BetterOrder ==
    ASSUME TypeOK, NEW i \in DOMAIN table, NEW j \in DOMAIN table, NEW k \in DOMAIN table
    PROVE  /\ ~Better(table[i], table[i])
           /\ Better(table[i], table[j]) /\ Better(table[j], table[k]) =>
                Better(table[i], table[k])
           /\ Better(table[i], table[j]) /\ ~Better(table[k], table[j]) =>
                Better(table[i], table[k])
<1> DEFINE w(x) == table[x].wildcard
           h(x) == Len(table[x].host)
           p(x) == Len(table[x].prefix)
<1>1. \A x \in {i, j, k} : w(x) \in BOOLEAN /\ h(x) \in Nat /\ p(x) \in Nat
  BY RouteType
<1>2. \A x, y \in {i, j, k} : Better(table[x], table[y]) <=>
        \/ w(y) /\ ~w(x)
        \/ w(y) = w(x) /\ h(x) > h(y)
        \/ w(y) = w(x) /\ h(x) = h(y) /\ p(x) > p(y)
  BY DEF Better
<1> HIDE DEF w, h, p
<1> QED BY <1>1, <1>2

\* A scan leads to one route, or to none.
LEMMA LeadsOnce ==
    ASSUME TypeOK, NEW s \in SUBSET (DOMAIN table), NEW host, NEW path,
           NEW b, Leads(b, s, host, path), NEW c, Leads(c, s, host, path)
    PROVE  b = c
<1>1. CASE Matching(s, host, path) = {}
  BY <1>1 DEF Leads
<1>2. CASE Matching(s, host, path) # {}
  <2>1. b \in Matching(s, host, path) /\ c \in Matching(s, host, path)
    BY <1>2 DEF Leads
  <2>2. b \in Nat /\ c \in Nat /\ b # 0 /\ c # 0
    BY <2>1, RouteType DEF Matching
  <2>3. ~(b < c) /\ ~(c < b)
    BY <2>1, <2>2 DEF Leads
  <2> QED BY <2>2, <2>3
<1> QED BY <1>1, <1>2

\* A step of the scan leads on, past the last of the routes.
LEMMA ScanLeads ==
    ASSUME TypeOK, NEW s \in SUBSET (DOMAIN table), NEW host, NEW path,
           NEW x \in s, \A y \in s : x >= y,
           NEW b, Leads(b, s \ {x}, host, path)
    PROVE  Leads(Scanned(b, x, host, path), s, host, path)
<1> DEFINE before == Matching(s \ {x}, host, path)
           all == Matching(s, host, path)
<1>1. \A y \in s \ {x} : y \in Nat /\ x \in Nat /\ y < x /\ y # 0 /\ x # 0
  BY RouteType
<1>2. CASE ~Matches(table[x], host, path)
  <2>1. all = before
    BY <1>2 DEF Matching
  <2>2. Scanned(b, x, host, path) = b
    BY <1>2 DEF Scanned
  <2> QED BY <2>1, <2>2 DEF Leads
<1>3. CASE Matches(table[x], host, path) /\ b = 0
  <2>1. 0 \notin before
    BY <1>1 DEF Matching
  <2>2. all = {x}
    BY <1>3, <2>1 DEF Matching, Leads
  <2>3. Scanned(b, x, host, path) = x
    BY <1>3 DEF Scanned
  <2>4. ~Better(table[x], table[x]) /\ ~(x < x)
    BY BetterOrder, RouteType
  <2> QED BY <2>2, <2>3, <2>4 DEF Leads
<1>4. CASE Matches(table[x], host, path) /\ b # 0
  <2>1. /\ b \in before /\ b \in DOMAIN table
        /\ \A j \in before : /\ ~Better(table[j], table[b])
                             /\ j < b => Better(table[b], table[j])
    BY <1>4 DEF Leads, Matching
  <2>2. all = before \cup {x}
    BY <1>4 DEF Matching
  <2>3. CASE Better(table[x], table[b])
    <3>1. Scanned(b, x, host, path) = x
      BY <1>4, <2>3 DEF Scanned
    <3>2. ASSUME NEW j \in before
          PROVE  ~Better(table[j], table[x]) /\ Better(table[x], table[j])
      <4>1. ~Better(table[j], table[b]) /\ j \in DOMAIN table /\ x \in DOMAIN table
        BY <2>1 DEF Matching
      <4> QED BY <2>1, <2>3, <4>1, BetterOrder
    <3>3. ~Better(table[x], table[x]) /\ ~(x < x)
      BY BetterOrder, RouteType
    <3> QED BY <2>2, <3>1, <3>2, <3>3 DEF Leads
  <2>4. CASE ~Better(table[x], table[b])
    <3>1. Scanned(b, x, host, path) = b
      BY <1>4, <2>4 DEF Scanned
    <3>2. ~(x < b)
      BY <1>1, <2>1 DEF Matching
    <3> QED BY <2>1, <2>2, <2>4, <3>1, <3>2 DEF Leads
  <2> QED BY <2>3, <2>4
<1> QED BY <1>2, <1>3, <1>4

LEMMA MaxOf ==
    ASSUME NEW n \in Nat, NEW s \in SUBSET (1..n), s # {}
    PROVE  Max(s) \in s /\ \A y \in s : Max(s) >= y
<1> DEFINE bounds == {u \in Nat : \A y \in s : y <= u}
<1>1. n \in bounds
  OBVIOUS
<1>2. PICK u \in bounds : \A v \in bounds : u <= v
  BY <1>1, Smallest
<1>3. u \in s
  <2>1. SUFFICES ASSUME u \notin s PROVE FALSE
    OBVIOUS
  <2>2. PICK y \in s : TRUE
    OBVIOUS
  <2>3. u >= 1 /\ u - 1 \in Nat
    BY <1>2, <2>2
  <2>4. \A z \in s : z <= u - 1
    BY <1>2, <2>1
  <2>5. u - 1 \in bounds
    BY <2>3, <2>4
  <2> QED BY <1>2, <2>5
<1>4. \A y \in s : u >= y
  BY <1>2
<1>5. \E x \in s : \A y \in s : x >= y
  BY <1>3, <1>4
<1> QED BY <1>5, Zenon DEF Max

\* There is a lead of every set of routes: the smallest number of routes among
\* which there was none would have one, by a step from one route less.
LEMMA Reached ==
    ASSUME TypeOK, NEW host, NEW path
    PROVE  \A s \in SUBSET (1..Len(table)) : \E b : Leads(b, s, host, path)
<1> DEFINE n == Len(table)
           missed == {k \in Nat : /\ k <= n
                                  /\ \E s \in SUBSET (1..k) : ~\E b : Leads(b, s, host, path)}
<1>1. n \in Nat /\ DOMAIN table = 1..n
  BY TableAssumption DEF TypeOK
<1>2. SUFFICES ASSUME missed # {} PROVE FALSE
  BY <1>1
<1>3. PICK k \in missed : \A m \in missed : k <= m
  BY <1>2, Smallest
<1>4. k \in Nat /\ k <= n
  BY <1>3
<1>5. PICK s \in SUBSET (1..k) : ~\E b : Leads(b, s, host, path)
  BY <1>3
<1>6. s # {}
  <2>1. Leads(0, {}, host, path)
    BY DEF Leads, Matching
  <2> QED BY <1>5, <2>1
<1> DEFINE x == Max(s)
<1>7. x \in s /\ (\A y \in s : x >= y) /\ x \in 1..k
  BY <1>4, <1>6, MaxOf
<1> HIDE DEF x
<1>8. PICK b : Leads(b, s \ {x}, host, path)
  <2>1. s \ {x} \in SUBSET (1..(x - 1))
    BY <1>4, <1>7
  <2>2. x - 1 \in Nat /\ x - 1 <= n /\ ~(k <= x - 1)
    BY <1>4, <1>7, <1>1
  <2>3. x - 1 \notin missed
    BY <1>3, <2>2
  <2> QED BY <2>1, <2>2, <2>3
<1>9. s \in SUBSET (DOMAIN table)
  BY <1>1, <1>4
<1>10. Leads(Scanned(b, x, host, path), s, host, path)
  BY <1>7, <1>8, <1>9, ScanLeads
<1> QED BY <1>5, <1>10

\* Whatever function satisfies the recursion of the fold, it is the lead.
LEMMA ScanFindsLead ==
    ASSUME TypeOK, NEW host, NEW path, NEW f, IsScan(f, Len(table), host, path)
    PROVE  \A s \in SUBSET (1..Len(table)) : Leads(f[s], s, host, path)
<1> DEFINE n == Len(table)
           missed == {k \in Nat : /\ k <= n
                                  /\ \E s \in SUBSET (1..k) : ~Leads(f[s], s, host, path)}
<1>1. n \in Nat /\ DOMAIN table = 1..n
  BY TableAssumption DEF TypeOK
<1>2. SUFFICES ASSUME missed # {} PROVE FALSE
  <2>1. n \notin missed => \A s \in SUBSET (1..n) : Leads(f[s], s, host, path)
    BY <1>1
  <2> QED BY <2>1
<1>3. PICK k \in missed : \A m \in missed : k <= m
  BY <1>2, Smallest
<1>4. k \in Nat /\ k <= n
  BY <1>3
<1>5. PICK s \in SUBSET (1..k) : ~Leads(f[s], s, host, path)
  BY <1>3
<1> DEFINE x == Max(s)
<1>a. s \in SUBSET (1..n)
  BY <1>1, <1>4
<1>b. f[s] = IF s = {} THEN 0 ELSE Scanned(f[s \ {x}], x, host, path)
  BY <1>a DEF IsScan
<1>6. s # {}
  <2>1. Leads(0, {}, host, path)
    BY DEF Leads, Matching
  <2> QED BY <1>5, <1>b, <2>1
<1>7. x \in s /\ (\A y \in s : x >= y) /\ x \in 1..k
  BY <1>4, <1>6, MaxOf
<1> HIDE DEF x
<1>8. Leads(f[s \ {x}], s \ {x}, host, path)
  <2>1. s \ {x} \in SUBSET (1..(x - 1))
    BY <1>4, <1>7
  <2>2. x - 1 \in Nat /\ x - 1 <= n /\ ~(k <= x - 1)
    BY <1>4, <1>7, <1>1
  <2>3. x - 1 \notin missed
    BY <1>3, <2>2
  <2> QED BY <2>1, <2>2, <2>3
<1>10. Leads(Scanned(f[s \ {x}], x, host, path), s, host, path)
  BY <1>1, <1>7, <1>8, <1>a, ScanLeads
<1> QED BY <1>5, <1>6, <1>b, <1>10

\* There is such a function: the one that takes every set of routes to its lead.
LEMMA ScanExists ==
    ASSUME TypeOK, NEW host, NEW path
    PROVE  \E f : IsScan(f, Len(table), host, path)
<1> DEFINE sets == SUBSET (1..Len(table))
           lead(s) == CHOOSE b : Leads(b, s, host, path)
           f == [s \in sets |-> lead(s)]
<1>1. \A s \in sets : Leads(lead(s), s, host, path)
  BY Reached
<1>2. Len(table) \in Nat /\ DOMAIN table = 1..Len(table)
  BY TableAssumption DEF TypeOK
<1> HIDE DEF lead
<1>3. ASSUME NEW s \in sets
      PROVE  f[s] = IF s = {} THEN 0
                    ELSE LET x == Max(s) IN Scanned(f[s \ {x}], x, host, path)
  <2>1. CASE s = {}
    <3>1. Leads(0, s, host, path)
      BY <2>1 DEF Leads, Matching
    <3> QED BY <1>1, <2>1, <3>1, LeadsOnce
  <2>2. CASE s # {}
    <3> DEFINE x == Max(s)
    <3>1. x \in s /\ \A y \in s : x >= y
      BY <1>2, <2>2, MaxOf
    <3> HIDE DEF x
    <3>2. Leads(f[s \ {x}], s \ {x}, host, path)
      BY <1>1
    <3>3. Leads(Scanned(f[s \ {x}], x, host, path), s, host, path)
      BY <1>2, <3>1, <3>2, ScanLeads
    <3>4. Leads(f[s], s, host, path)
      BY <1>1
    <3>5. f[s] = Scanned(f[s \ {x}], x, host, path)
      BY <1>2, <3>3, <3>4, LeadsOnce
    <3> QED BY <2>2, <3>5 DEF x
  <2> QED BY <2>1, <2>2
<1>4. IsScan(f, Len(table), host, path)
  BY <1>3 DEF IsScan
<1> QED BY <1>4

\* lookup finds the lead of all routes.
LEMMA BestLeads ==
    ASSUME TypeOK, NEW host, NEW path, host # <<>>, path # <<>>
    PROVE  Leads(Best(host, path), DOMAIN table, host, path)
<1> DEFINE n == Len(table)
           routes == [i \in 1..n |-> i]
           Step(f, s) == IF s = {} THEN 0
                         ELSE LET x == Max(s)
                              IN  IF /\ Matches(table[routes[x]], host, path)
                                     /\ f[s \ {x}] = 0 \/ Better(table[routes[x]], table[f[s \ {x}]])
                                  THEN routes[x] ELSE f[s \ {x}]
           fold == CHOOSE f : f = [s \in SUBSET (DOMAIN routes) |-> Step(f, s)]
<1>1. n \in Nat /\ DOMAIN table = 1..n /\ DOMAIN routes = 1..n
  BY TableAssumption DEF TypeOK
<1>2. Best(host, path) = fold[DOMAIN routes]
  BY Zenon DEF Best, FoldLeft, MapThenFoldSet
<1>3. ASSUME NEW f, NEW s \in SUBSET (1..n)
      PROVE  Step(f, s) = IF s = {} THEN 0
                          ELSE LET x == Max(s) IN Scanned(f[s \ {x}], x, host, path)
  <2>1. CASE s = {}
    BY <2>1
  <2>2. CASE s # {}
    <3> DEFINE x == Max(s)
               b == f[s \ {x}]
    <3>1. routes[x] = x
      BY <1>1, <2>2, MaxOf
    <3>2. Step(f, s) = IF /\ Matches(table[routes[x]], host, path)
                          /\ b = 0 \/ Better(table[routes[x]], table[b])
                       THEN routes[x] ELSE b
      BY <2>2
    <3> HIDE DEF Step, routes, x, b
    <3>3. Step(f, s) = Scanned(b, x, host, path)
      BY <3>1, <3>2 DEF Scanned
    <3> QED BY <2>2, <3>3 DEF x, b
  <2> QED BY <2>1, <2>2
<1> HIDE DEF Step, routes
<1>4. \A f : IsScan(f, n, host, path) <=> f = [s \in SUBSET (DOMAIN routes) |-> Step(f, s)]
  BY <1>1, <1>3 DEF IsScan
<1>5. IsScan(fold, n, host, path)
  <2>1. \E f : f = [s \in SUBSET (DOMAIN routes) |-> Step(f, s)]
    BY <1>4, ScanExists
  <2>2. fold = [s \in SUBSET (DOMAIN routes) |-> Step(fold, s)]
    BY <2>1, Zenon
  <2> QED BY <1>4, <2>2
<1> HIDE DEF fold
<1> QED BY <1>1, <1>2, <1>5, ScanFindsLead

--------------------------------------------------------------------------------
(* The most specific route *)

\* s is how t ends, place by place.
Ends(s, t) == Len(s) <= Len(t) /\ \A i \in 1..Len(s) : s[i] = t[(Len(t) - Len(s)) + i]

\* IsSuffix compares the reversed sequences from their start.
LEMMA SuffixEnds ==
    ASSUME NEW S, NEW s \in Seq(S), NEW t \in Seq(S)
    PROVE  IsSuffix(s, t) <=> Ends(s, t)
<1> DEFINE m == Len(s)
           n == Len(t)
           back == Reverse(s)
           ahead == Reverse(t)
<1>1. m \in Nat /\ n \in Nat /\ DOMAIN s = 1..m /\ DOMAIN t = 1..n
  BY LenProperties
<1>2. /\ back \in Seq(S) /\ Len(back) = m /\ \A i \in 1..m : back[i] = s[(m - i) + 1]
      /\ ahead \in Seq(S) /\ Len(ahead) = n /\ \A i \in 1..n : ahead[i] = t[(n - i) + 1]
  <2>1. \A i \in 1..m : s[(m - i) + 1] \in S
    BY <1>1
  <2>2. \A i \in 1..n : t[(n - i) + 1] \in S
    BY <1>1
  <2> QED BY <1>1, <2>1, <2>2 DEF Reverse
<1>3. IsSuffix(s, t) <=> m <= n /\ SubSeq(back, 1, m) = SubSeq(ahead, 1, m)
  BY <1>2, Zenon DEF IsSuffix, IsPrefix
<1> HIDE DEF back, ahead
<1>4. CASE ~(m <= n)
  BY <1>3, <1>4 DEF Ends
<1>5. CASE m <= n
  <2>1. SubSeq(back, 1, m) = back
    BY <1>2, SubSeqFull
  <2> DEFINE first == SubSeq(ahead, 1, m)
  <2>2. first \in Seq(S) /\ Len(first) = m /\ \A i \in 1..m : first[i] = ahead[i]
    <3>1. \A i \in 1..m : ahead[i] \in S
      BY <1>1, <1>2, <1>5
    <3>2. /\ first \in Seq(S) /\ Len(first) = IF 1 <= m THEN m - 1 + 1 ELSE 0
          /\ \A i \in 1..(m - 1 + 1) : first[i] = ahead[1 + i - 1]
      BY <1>1, <3>1, SubSeqProperties
    <3> QED BY <1>1, <3>2
  <2> HIDE DEF first
  <2>3. back = first <=> \A i \in 1..m : back[i] = first[i]
    BY <1>1, <1>2, <2>2, SeqEqual
  <2>4. back = first <=> \A i \in 1..m : s[(m - i) + 1] = t[(n - i) + 1]
    BY <1>1, <1>2, <1>5, <2>2, <2>3
  <2>5. ASSUME \A i \in 1..m : s[(m - i) + 1] = t[(n - i) + 1], NEW i \in 1..m
        PROVE  s[i] = t[(n - m) + i]
    <3>1. (m - i) + 1 \in 1..m
      BY <1>1
    <3>2. (m - ((m - i) + 1)) + 1 = i /\ (n - ((m - i) + 1)) + 1 = (n - m) + i
      BY <1>1
    <3> QED BY <2>5, <3>1, <3>2
  <2>6. ASSUME \A i \in 1..m : s[i] = t[(n - m) + i], NEW i \in 1..m
        PROVE  s[(m - i) + 1] = t[(n - i) + 1]
    <3>1. (m - i) + 1 \in 1..m /\ (n - m) + ((m - i) + 1) = (n - i) + 1
      BY <1>1
    <3> QED BY <2>6, <3>1
  <2> QED BY <1>3, <1>5, <2>1, <2>4, <2>5, <2>6 DEF Ends, first
<1> QED BY <1>4, <1>5

\* A strict suffix is what is left behind the first label, or behind more.
LEMMA StrictSuffix ==
    ASSUME NEW S, NEW s \in Seq(S), s # <<>>, NEW t \in Seq(S)
    PROVE  IsStrictSuffix(s, t) <=> \E n \in 2..Len(t) : s = SubSeq(t, n, Len(t))
<1>1. /\ Len(s) \in Nat /\ Len(t) \in Nat /\ DOMAIN s = 1..Len(s) /\ DOMAIN t = 1..Len(t)
      /\ Len(s) # 0
  BY LenProperties, EmptySeq
<1>2. ASSUME NEW n \in 2..Len(t)
      PROVE  LET rest == SubSeq(t, n, Len(t))
             IN  /\ rest \in Seq(S) /\ Len(rest) = (Len(t) - n) + 1
                 /\ \A i \in 1..Len(rest) : rest[i] = t[(n + i) - 1]
  <2>1. \A i \in n..Len(t) : t[i] \in S
    BY <1>1
  <2>2. n \in Int /\ Len(t) \in Int /\ n <= Len(t)
    BY <1>1
  <2> QED BY <2>1, <2>2, SubSeqProperties
<1>3. ASSUME IsStrictSuffix(s, t)
      PROVE  \E n \in 2..Len(t) : s = SubSeq(t, n, Len(t))
  <2>1. Ends(s, t) /\ s # t
    BY <1>3, SuffixEnds DEF IsStrictSuffix
  <2>2. Len(s) # Len(t)
    <3>1. SUFFICES ASSUME Len(s) = Len(t) PROVE s = t
      BY <2>1
    <3>2. \A i \in 1..Len(s) : s[i] = t[i]
      BY <1>1, <2>1, <3>1 DEF Ends
    <3> QED BY <3>1, <3>2, SeqEqual
  <2> DEFINE n == (Len(t) - Len(s)) + 1
             rest == SubSeq(t, n, Len(t))
  <2>3. n \in 2..Len(t) /\ (Len(t) - n) + 1 = Len(s)
    <3>1. Len(s) <= Len(t)
      BY <2>1 DEF Ends
    <3>2. \A a, c \in Nat : a # 0 /\ a <= c /\ a # c =>
            LET m == (c - a) + 1 IN m \in 2..c /\ (c - m) + 1 = a
      OBVIOUS
    <3> QED BY <1>1, <2>2, <3>1, <3>2
  <2>4. rest \in Seq(S) /\ Len(rest) = Len(s) /\ \A i \in 1..Len(s) : rest[i] = s[i]
    <3>1. /\ rest \in Seq(S) /\ Len(rest) = Len(s)
          /\ \A i \in 1..Len(rest) : rest[i] = t[(n + i) - 1]
      BY <1>2, <2>3
    <3>2. \A i \in 1..Len(s) : (n + i) - 1 = (Len(t) - Len(s)) + i
      BY <1>1
    <3> HIDE DEF n, rest
    <3> QED BY <2>1, <3>1, <3>2 DEF Ends
  <2>5. s = rest
    BY <2>4, SeqEqual
  <2> QED BY <2>3, <2>5
<1>4. ASSUME NEW n \in 2..Len(t), s = SubSeq(t, n, Len(t))
      PROVE  IsStrictSuffix(s, t)
  <2>1. Len(s) = (Len(t) - n) + 1 /\ \A i \in 1..Len(s) : s[i] = t[(n + i) - 1]
    BY <1>2, <1>4
  <2>2. Len(s) <= Len(t) /\ Len(s) # Len(t)
    BY <1>1, <2>1
  <2>3. \A i \in 1..Len(s) : (n + i) - 1 = (Len(t) - Len(s)) + i
    BY <1>1, <2>1
  <2>4. Ends(s, t)
    BY <2>1, <2>2, <2>3 DEF Ends
  <2> QED BY <2>2, <2>4, SuffixEnds DEF IsStrictSuffix
<1> QED BY <1>3, <1>4

\* Of two prefixes, or suffixes, of one sequence only the length can differ.
LEMMA SamePrefix ==
    ASSUME NEW S, NEW p \in Seq(S), NEW T, NEW q \in Seq(T), NEW path,
           IsPrefix(p, path), IsPrefix(q, path), Len(p) = Len(q)
    PROVE  p = q
<1>1. SubSeq(p, 1, Len(p)) = p /\ SubSeq(q, 1, Len(q)) = q
  BY SubSeqFull
<1> QED BY <1>1 DEF IsPrefix

LEMMA SameSuffix ==
    ASSUME NEW S, NEW s \in Seq(S), NEW u \in Seq(S), NEW t \in Seq(S),
           IsSuffix(s, t), IsSuffix(u, t), Len(s) = Len(u)
    PROVE  s = u
<1>1. Ends(s, t) /\ Ends(u, t)
  BY SuffixEnds
<1>2. \A i \in 1..Len(s) : s[i] = u[i]
  BY <1>1 DEF Ends
<1> QED BY <1>2, SeqEqual

--------------------------------------------------------------------------------
(* What lookup finds *)

\* On the routes of an accepted list, Matches says what the rule says.
LEMMA MatchesCovers ==
    ASSUME TypeOK, NEW i \in DOMAIN table, NEW host, host \in Seq(ToSet(host)), NEW path
    PROVE  Matches(table[i], host, path) <=>
             Covers(table[i], host) /\ IsPrefix(table[i].prefix, path)
<1> DEFINE pattern == table[i].host
           S == ToSet(pattern) \cup ToSet(host)
<1>1. pattern \in Seq(S) /\ host \in Seq(S)
  BY RouteType, SeqMonotonic
<1>2. pattern # <<>>
  BY DEF TypeOK, Accepted
<1>3. IsStrictSuffix(pattern, host) <=> \E n \in 2..Len(host) : pattern = SubSeq(host, n, Len(host))
  BY <1>1, <1>2, StrictSuffix
<1> QED BY <1>3 DEF Matches, HostMatches, Covers

\* Two routes that match one request, and rank alike, are one.
LEMMA RanksOnce ==
    ASSUME TypeOK, NEW host, host \in Seq(ToSet(host)), NEW path,
           NEW i \in Matching(DOMAIN table, host, path),
           NEW j \in Matching(DOMAIN table, host, path),
           table[i].wildcard = table[j].wildcard,
           Len(table[i].host) = Len(table[j].host),
           Len(table[i].prefix) = Len(table[j].prefix)
    PROVE  i = j
<1>1. /\ i \in DOMAIN table /\ j \in DOMAIN table
      /\ Matches(table[i], host, path) /\ Matches(table[j], host, path)
  BY DEF Matching
<1>2. table[i].prefix = table[j].prefix
  BY <1>1, RouteType, SamePrefix DEF Matches
<1>3. table[i].host = table[j].host
  <2>1. CASE table[i].wildcard
    <3> DEFINE S == ToSet(table[i].host) \cup ToSet(table[j].host) \cup ToSet(host)
    <3>1. table[i].host \in Seq(S) /\ table[j].host \in Seq(S) /\ host \in Seq(S)
      BY <1>1, RouteType, SeqMonotonic
    <3>2. IsSuffix(table[i].host, host) /\ IsSuffix(table[j].host, host)
      BY <1>1, <2>1 DEF Matches, HostMatches, IsStrictSuffix
    <3> HIDE DEF S
    <3> QED BY <3>1, <3>2, SameSuffix
  <2>2. CASE ~table[i].wildcard
    BY <1>1, <2>2 DEF Matches, HostMatches
  <2> QED BY <2>1, <2>2
<1> DEFINE key(x) == <<table[x].wildcard, table[x].host, table[x].prefix>>
           keys == [x \in DOMAIN table |-> key(x)]
<1>4. IsInjective(keys)
  BY DEF TypeOK, Accepted
<1>5. keys[i] = keys[j]
  BY <1>1, <1>2, <1>3
<1>6. DOMAIN keys = DOMAIN table
  OBVIOUS
<1> HIDE DEF keys
<1> QED BY <1>1, <1>4, <1>5, <1>6 DEF IsInjective

\* The lead is of the kind the rule asks for, and there is only one such route.
LEMMA LeadIsMostSpecific ==
    ASSUME TypeOK, NEW host, host \in Seq(ToSet(host)), NEW path,
           NEW b, Leads(b, DOMAIN table, host, path)
    PROVE  {b} \ {0} = MostSpecific(host, path)
<1> DEFINE all == Matching(DOMAIN table, host, path)
           exact == {i \in all : ~table[i].wildcard}
           longest == {i \in all : \A j \in all : Len(table[j].host) <= Len(table[i].host)}
           hosts == IF exact # {} THEN exact ELSE longest
           best == {i \in hosts : \A j \in hosts : Len(table[j].prefix) <= Len(table[i].prefix)}
<1>1. MostSpecific(host, path) = best
  <2>1. all = {i \in DOMAIN table : /\ Covers(table[i], host)
                                    /\ IsPrefix(table[i].prefix, path)}
    BY MatchesCovers DEF Matching
  <2> HIDE DEF all
  <2> QED BY <2>1 DEF MostSpecific
<1>2. CASE all = {}
  <2>1. b = 0 /\ best = {}
    BY <1>2 DEF Leads
  <2> QED BY <1>1, <2>1
<1>3. CASE all # {}
  <2>1. b \in all /\ \A j \in all : ~Better(table[j], table[b])
    BY <1>3 DEF Leads
  <2>2. \A i \in all : /\ table[i].wildcard \in BOOLEAN
                       /\ Len(table[i].host) \in Nat /\ Len(table[i].prefix) \in Nat
                       /\ i # 0
    BY RouteType DEF Matching
  <2>3. \A i, j \in exact : Len(table[i].host) = Len(table[j].host)
    BY DEF Matching, Matches, HostMatches
  <2>4. b \in hosts
    <3>1. CASE exact # {}
      <4>1. ~table[b].wildcard
        BY <2>1, <2>2, <3>1 DEF Better
      <4> QED BY <2>1, <3>1, <4>1
    <3>2. CASE exact = {}
      <4>1. \A j \in all : table[j].wildcard = table[b].wildcard
        BY <2>1, <2>2, <3>2
      <4>2. \A j \in all : ~(Len(table[j].host) > Len(table[b].host))
        BY <2>1, <4>1 DEF Better
      <4> QED BY <2>1, <2>2, <3>2, <4>2
    <3> QED BY <3>1, <3>2
  <2>5. \A i, j \in hosts : /\ i \in all /\ table[i].wildcard = table[j].wildcard
                            /\ Len(table[i].host) = Len(table[j].host)
    <3>1. CASE exact # {}
      BY <2>2, <2>3, <3>1
    <3>2. CASE exact = {}
      BY <2>2, <3>2
    <3> QED BY <3>1, <3>2
  <2>6. b \in best
    <3>1. ASSUME NEW j \in hosts
          PROVE  Len(table[j].prefix) <= Len(table[b].prefix)
      <4>1. /\ j \in all /\ table[b].wildcard = table[j].wildcard
            /\ Len(table[j].host) = Len(table[b].host)
        BY <2>4, <2>5
      <4>2. ~(Len(table[j].prefix) > Len(table[b].prefix))
        BY <2>1, <4>1 DEF Better
      <4> QED BY <2>1, <2>2, <4>1, <4>2
    <3> QED BY <2>4, <3>1
  <2>7. ASSUME NEW c \in best
        PROVE  c = b
    <3>1. /\ c \in all /\ table[c].wildcard = table[b].wildcard
          /\ Len(table[c].host) = Len(table[b].host)
      BY <2>4, <2>5
    <3>2. Len(table[c].prefix) = Len(table[b].prefix)
      <4>1. /\ Len(table[c].prefix) <= Len(table[b].prefix)
            /\ Len(table[b].prefix) <= Len(table[c].prefix)
        BY <2>6
      <4> QED BY <2>1, <2>2, <3>1, <4>1
    <3> QED BY <2>1, <3>1, <3>2, RanksOnce
  <2> HIDE DEF best
  <2>8. b # 0
    BY <2>1, <2>2
  <2> QED BY <1>1, <2>6, <2>7, <2>8
<1> QED BY <1>2, <1>3

\* In whatever order the routes are configured, and however many there are, lookup
\* finds the most specific one that matches, and none only if none does.
THEOREM MostSpecificFound == Spec => []FindsMostSpecific
<1>1. ASSUME IInv
      PROVE  FindsMostSpecific
  <2> SUFFICES ASSUME NEW header \in Headers, NEW target \in Targets,
                      NormalizeHost(header) # <<>>, TargetPath(target) # <<>>
               PROVE  {Best(NormalizeHost(header), TargetPath(target))} \ {0} =
                        MostSpecific(NormalizeHost(header), TargetPath(target))
    BY DEF FindsMostSpecific
  <2> DEFINE host == NormalizeHost(header)
             path == TargetPath(target)
  <2>1. TypeOK
    BY <1>1 DEF IInv
  <2>2. host \in Seq(ToSet(host))
    BY HeaderAssumption DEF NormalizeHost
  <2>3. host # <<>> /\ path # <<>>
    OBVIOUS
  <2> HIDE DEF host, path
  <2>4. Leads(Best(host, path), DOMAIN table, host, path)
    BY <2>1, <2>3, BestLeads
  <2>5. {Best(host, path)} \ {0} = MostSpecific(host, path)
    BY <2>1, <2>2, <2>4, LeadIsMostSpecific
  <2> QED BY <2>5 DEF host, path
<1> QED BY <1>1, Invariant, PTL
================================================================================
