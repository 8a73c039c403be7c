------------------------- MODULE TokenOrdersProofs -------------------------
(***************************************************************************)
(* Proofs about the pool and the settlement of token orders, for any       *)
(* numbers of connections, requests and orders.                            *)
(*                                                                         *)
(* PoolInv and MineInv say what the pool and a request's own "connection"  *)
(* agree on at each place of its code; they hold in every state, refusals  *)
(* included.  That a connection is in one place (Exclusive) holds until    *)
(* the first throw after a release.  Until then each transaction belongs   *)
(* to one request, so what is open on a connection can be told from that   *)
(* request's place (Fits), and Settled is inductive.                       *)
(***************************************************************************)
EXTENDS TokenOrders, FiniteSetTheorems, TLAPS

USE DEF poolVars, dbVars, vars

-----------------------------------------------------------------------------
(* The pool *)

\* Places of a request outside its transaction, and those at which it asks
\* for a second connection.
Outside   == {"idle", "rethrown", "done"}
AskPlaces == {"crediting", "finalizing", "aliases", "granted"}
Working(r) == at[r] \notin Outside \cup {"begin"}

\* The slots in which a request may hold a connection at place p.
SlotsAt(p) ==
  IF p \in Outside THEN {}
  ELSE IF p \in AskPlaces THEN {"outer", "inner"} ELSE {"outer"}
Eligible == {s \in Slots : s[2] \in SlotsAt(at[s[1]])}

PoolTypeOK ==
  /\ free \in [Conns -> Nat] /\ waiting \in Seq(Slots)
  /\ held \in [Slots -> Conns \cup {NoConn}]

\* Only slots that may hold a connection hold or want one, nobody wants two
\* at a time, nobody waits while a connection is free, and none is lost.
PoolInv ==
  /\ \A s \in Slots : held[s] # NoConn => s \in Eligible
  /\ \A i \in 1 .. Len(waiting) : held[waiting[i]] = NoConn /\ waiting[i] \in Eligible
  /\ \A i, j \in 1 .. Len(waiting) : waiting[i] = waiting[j] => i = j
  /\ waiting # <<>> => \A c \in Conns : free[c] = 0
  /\ \A c \in Conns : free[c] > 0 \/ \E s \in Slots : held[s] = c

\* A connection is in one place.
Exclusive ==
  \A c \in Conns :
    /\ free[c] <= 1
    /\ \A s \in Slots : held[s] = c => free[c] = 0
    /\ \A s, t \in Slots : held[s] = c /\ held[t] = c => s = t

\* The queue loses its first caller.
LEMMA Shorter ==
  ASSUME NEW q \in Seq(Slots), q # <<>>
  PROVE  /\ Head(q) \in Slots /\ Head(q) = q[1] /\ 1 \in 1 .. Len(q)
         /\ Tail(q) \in Seq(Slots)
         /\ Len(Tail(q)) = Len(q) - 1
         /\ \A i \in 1 .. Len(Tail(q)) : i + 1 \in 1 .. Len(q) /\ Tail(q)[i] = q[i + 1]
OBVIOUS

LEMMA Longer ==
  ASSUME NEW q \in Seq(Slots), NEW s \in Slots
  PROVE  /\ Append(q, s) \in Seq(Slots) /\ Append(q, s) # <<>>
         /\ Len(Append(q, s)) = Len(q) + 1
         /\ Append(q, s)[Len(q) + 1] = s
         /\ \A i \in 1 .. Len(q) : Append(q, s)[i] = q[i]
OBVIOUS

LEMMA GiveBackType ==
  ASSUME PoolTypeOK, NEW c, NEW rest \in [Slots -> Conns \cup {NoConn}],
         c \in Conns \cup {NoConn}, GiveBack(c, rest)
  PROVE  PoolTypeOK'
<1>1. CASE waiting # <<>>
  BY <1>1, Shorter DEF PoolTypeOK, GiveBack
<1>2. CASE waiting = <<>>
  <2>1. c \in Conns => free[c] + 1 \in Nat
    BY DEF PoolTypeOK
  <2>2. [free EXCEPT ![c] = free[c] + 1] \in [Conns -> Nat]
    <3> DEFINE n == free[c] + 1
    <3> HIDE DEF n
    <3>1. c \in Conns => n \in Nat
      BY <2>1 DEF n
    <3>2. [free EXCEPT ![c] = n] \in [Conns -> Nat]
      BY <3>1 DEF PoolTypeOK
    <3>3. QED BY <3>2 DEF n
  <2>3. QED BY <1>2, <2>2 DEF PoolTypeOK, GiveBack
<1>3. QED BY <1>1, <1>2

LEMMA AskType ==
  ASSUME PoolTypeOK, NEW s \in Slots, Ask(s)
  PROVE  PoolTypeOK'
<1>1. CASE waiting' = Append(waiting, s)
  BY <1>1, Longer DEF PoolTypeOK, Ask
<1>2. CASE waiting' # Append(waiting, s)
  BY <1>2 DEF PoolTypeOK, Ask
<1>3. QED BY <1>1, <1>2

LEMMA ReleaseType ==
  ASSUME PoolTypeOK, NEW s \in Slots, Release(s)
  PROVE  PoolTypeOK'
BY GiveBackType DEF PoolTypeOK, Release

LEMMA AskKeeps ==
  ASSUME PoolTypeOK, PoolInv, NEW s \in Slots, Ask(s), s \notin Eligible,
         Eligible' = Eligible \cup {s}
  PROVE  PoolInv' /\ (Exclusive => Exclusive')
<1>1. held[s] = NoConn /\ \A i \in 1 .. Len(waiting) : waiting[i] \in Slots \ {s}
  BY DEF PoolInv, PoolTypeOK
<1>2. ASSUME NEW c \in Conns, free[c] > 0, free' = [free EXCEPT ![c] = @ - 1],
             held' = [held EXCEPT ![s] = c], waiting' = waiting
      PROVE  PoolInv' /\ (Exclusive => Exclusive')
  <2>1. waiting = <<>>
    BY <1>2 DEF PoolInv, PoolTypeOK
  <2>2. held'[s] = c /\ \A t \in Slots \ {s} : held'[t] = held[t]
    BY <1>2 DEF PoolTypeOK
  <2>3. free'[c] = free[c] - 1 /\ \A d \in Conns \ {c} : free'[d] = free[d]
    BY <1>2 DEF PoolTypeOK
  <2>4. \A d \in Conns : free'[d] > 0 \/ \E t \in Slots : held'[t] = d
    BY <1>1, <2>2, <2>3, NoConnAssumption DEF PoolInv
  <2>5. PoolInv'
    BY <1>2, <2>1, <2>2, <2>4 DEF PoolInv
  <2>6. Exclusive => Exclusive'
    BY <1>1, <1>2, <2>2, <2>3, NoConnAssumption DEF Exclusive, PoolTypeOK
  <2>7. QED BY <2>5, <2>6
<1>3. ASSUME \A c \in Conns : free[c] = 0, waiting' = Append(waiting, s),
             free' = free, held' = held
      PROVE  PoolInv' /\ (Exclusive => Exclusive')
  <2>1. /\ Len(waiting') = Len(waiting) + 1 /\ Len(waiting) \in Nat
        /\ waiting'[Len(waiting) + 1] = s
        /\ \A i \in 1 .. Len(waiting) : waiting'[i] = waiting[i]
    BY <1>3, Longer DEF PoolTypeOK
  <2>2. \A i \in 1 .. Len(waiting') : held'[waiting'[i]] = NoConn /\ waiting'[i] \in Eligible'
    BY <1>1, <1>3, <2>1 DEF PoolInv
  <2>3. \A i, j \in 1 .. Len(waiting') : waiting'[i] = waiting'[j] => i = j
    BY <1>1, <2>1 DEF PoolInv
  <2>4. QED BY <1>3, <2>2, <2>3 DEF PoolInv, Exclusive
<1>4. QED BY <1>2, <1>3 DEF Ask

\* Connection c comes back, and the slot it was in, if any, is left.
LEMMA GiveBackKeeps ==
  ASSUME PoolTypeOK, PoolInv, NEW c \in Conns, NEW rest \in [Slots -> Conns \cup {NoConn}],
         GiveBack(c, rest),
         \A t \in Slots : rest[t] \in {held[t], NoConn},
         \A t \in Slots : rest[t] # held[t] => held[t] = c,
         \A t \in Slots : rest[t] # NoConn => t \in Eligible',
         \A i \in 1 .. Len(waiting) : waiting[i] \in Eligible'
  PROVE  PoolInv'
<1>1. CASE waiting # <<>>
  <2> DEFINE h == Head(waiting)
  <2>1. /\ held' = [rest EXCEPT ![h] = c] /\ waiting' = Tail(waiting) /\ free' = free
    BY <1>1 DEF GiveBack
  <2>2. /\ h \in Slots /\ h = waiting[1] /\ 1 \in 1 .. Len(waiting)
        /\ Len(waiting') = Len(waiting) - 1 /\ Len(waiting) \in Nat
        /\ \A i \in 1 .. Len(waiting') :
             i + 1 \in 1 .. Len(waiting) /\ waiting'[i] = waiting[i + 1]
    BY <1>1, <2>1, Shorter DEF PoolTypeOK
  <2> HIDE DEF h
  <2>3. held[h] = NoConn /\ h \in Eligible'
    BY <2>2 DEF PoolInv
  <2>4. held'[h] = c /\ \A t \in Slots \ {h} : held'[t] = rest[t]
    BY <2>1, <2>2
  <2>5. \A i \in 1 .. Len(waiting') : waiting'[i] # h
    BY <2>2 DEF PoolInv
  <2>6. \A i \in 1 .. Len(waiting') :
          waiting'[i] \in Slots /\ held[waiting'[i]] = NoConn /\ waiting'[i] \in Eligible'
    BY <2>2 DEF PoolInv, PoolTypeOK
  <2>7. \A i \in 1 .. Len(waiting') : held'[waiting'[i]] = NoConn
    BY <2>4, <2>5, <2>6
  <2>8. \A i, j \in 1 .. Len(waiting') : waiting'[i] = waiting'[j] => i = j
    BY <2>2 DEF PoolInv
  <2>9. \A d \in Conns : free'[d] > 0 \/ \E t \in Slots : held'[t] = d
    BY <2>1, <2>2, <2>3, <2>4, NoConnAssumption DEF PoolInv
  <2>10. \A s \in Slots : held'[s] # NoConn => s \in Eligible'
    BY <2>3, <2>4
  <2>11. \A d \in Conns : free'[d] = 0
    BY <1>1, <2>1 DEF PoolInv
  <2>12. QED BY <2>6, <2>7, <2>8, <2>9, <2>10, <2>11 DEF PoolInv
<1>2. CASE waiting = <<>>
  <2>1. free' = [free EXCEPT ![c] = @ + 1] /\ held' = rest /\ waiting' = waiting
    BY <1>2 DEF GiveBack
  <2>2. \A d \in Conns : free'[d] > 0 \/ \E t \in Slots : held'[t] = d
    BY <2>1, NoConnAssumption DEF PoolInv, PoolTypeOK
  <2>3. QED BY <1>2, <2>1, <2>2 DEF PoolInv
<1>3. QED BY <1>1, <1>2

LEMMA ReleaseKeeps ==
  ASSUME PoolTypeOK, PoolInv, NEW s \in Slots, held[s] # NoConn, Release(s),
         Eligible' = Eligible \ {s}
  PROVE  PoolInv' /\ (Exclusive => Exclusive')
<1> DEFINE rest == [held EXCEPT ![s] = NoConn]
<1>1. /\ held[s] \in Conns /\ rest \in [Slots -> Conns \cup {NoConn}]
      /\ rest[s] = NoConn /\ \A t \in Slots \ {s} : rest[t] = held[t]
      /\ GiveBack(held[s], rest)
  BY DEF PoolTypeOK, Release
<1> HIDE DEF rest
<1>2. \A i \in 1 .. Len(waiting) : waiting[i] \in Slots \ {s} /\ waiting[i] \in Eligible'
  BY DEF PoolInv, PoolTypeOK
<1>3. PoolInv'
  BY <1>1, <1>2, GiveBackKeeps DEF PoolInv
<1>4. ASSUME Exclusive PROVE Exclusive'
  <2>1. free[held[s]] = 0 /\ \A t \in Slots \ {s} : held[t] # held[s]
    BY <1>1, <1>4 DEF Exclusive
  <2>2. CASE waiting # <<>>
    <3>1. held' = [rest EXCEPT ![Head(waiting)] = held[s]] /\ free' = free
      BY <1>1, <2>2 DEF GiveBack
    <3>2. Head(waiting) \in Slots
      BY <2>2, Shorter DEF PoolTypeOK
    <3>3. held'[Head(waiting)] = held[s]
            /\ \A t \in Slots \ {Head(waiting)} : held'[t] = rest[t]
      BY <1>1, <3>1, <3>2
    <3>4. QED BY <1>1, <1>4, <2>1, <3>1, <3>2, <3>3, NoConnAssumption DEF Exclusive
  <2>3. CASE waiting = <<>>
    <3>1. free' = [free EXCEPT ![held[s]] = @ + 1] /\ held' = rest
      BY <1>1, <2>3 DEF GiveBack
    <3>2. free'[held[s]] = 1 /\ \A d \in Conns \ {held[s]} : free'[d] = free[d]
      BY <1>1, <2>1, <3>1 DEF PoolTypeOK
    <3>3. QED BY <1>1, <1>4, <2>1, <3>1, <3>2, NoConnAssumption DEF Exclusive
  <2>4. QED BY <2>2, <2>3
<1>5. QED BY <1>3, <1>4

LEMMA ReleaseAgainKeeps ==
  ASSUME PoolTypeOK, PoolInv, NEW c \in Conns, ReleaseAgain(c),
         Eligible' = Eligible
  PROVE  PoolInv'
<1>1. CASE UNCHANGED poolVars
  BY <1>1 DEF PoolInv, PoolTypeOK
<1>2. CASE GiveBack(c, held)
  <2>1. \A i \in 1 .. Len(waiting) : waiting[i] \in Slots /\ waiting[i] \in Eligible'
    BY DEF PoolInv, PoolTypeOK
  <2>2. QED BY <1>2, <2>1, GiveBackKeeps DEF PoolInv, PoolTypeOK
<1>3. QED BY <1>1, <1>2 DEF ReleaseAgain

LEMMA QuietKeeps ==
  ASSUME PoolTypeOK, PoolInv, UNCHANGED poolVars, Eligible' = Eligible
  PROVE  PoolInv' /\ (Exclusive => Exclusive')
BY DEF PoolInv, Exclusive, PoolTypeOK

\* A connection stays in a slot that neither asks nor releases.
LEMMA HeldStays ==
  ASSUME PoolTypeOK, PoolInv, NEW s \in Slots,
         \/ Ask(s) \/ Release(s) \/ UNCHANGED poolVars
         \/ \E c : ReleaseAgain(c)
  PROVE  \A t \in Slots \ {s} : held[t] # NoConn => held'[t] = held[t]
<1>1. CASE Ask(s)
  BY <1>1 DEF Ask, PoolTypeOK
<1>2. ASSUME NEW c, NEW rest \in [Slots -> Conns \cup {NoConn}], GiveBack(c, rest),
             \A t \in Slots \ {s} : rest[t] = held[t]
      PROVE \A t \in Slots \ {s} : held[t] # NoConn => held'[t] = held[t]
  <2>1. CASE waiting # <<>>
    <3>1. /\ Head(waiting) \in Slots /\ held[Head(waiting)] = NoConn
          /\ held' = [rest EXCEPT ![Head(waiting)] = c]
      BY <1>2, <2>1, Shorter DEF GiveBack, PoolInv, PoolTypeOK
    <3>2. QED BY <1>2, <3>1
  <2>2. CASE waiting = <<>>
    BY <1>2, <2>2 DEF GiveBack
  <2>3. QED BY <2>1, <2>2
<1>3. CASE Release(s)
  <2>1. [held EXCEPT ![s] = NoConn] \in [Slots -> Conns \cup {NoConn}]
    BY DEF PoolTypeOK
  <2>2. QED BY <1>2, <1>3, <2>1 DEF Release, PoolTypeOK
<1>4. ASSUME NEW c, ReleaseAgain(c)
      PROVE \A t \in Slots \ {s} : held[t] # NoConn => held'[t] = held[t]
  BY <1>2, <1>4 DEF ReleaseAgain, PoolTypeOK
<1>5. QED BY <1>1, <1>3, <1>4

-----------------------------------------------------------------------------
(* What a request does to the pool *)

ControlTypeOK ==
  /\ refused \in BOOLEAN
  /\ kind \in [Requests -> Kinds] /\ order \in [Requests -> Orders]
  /\ at \in [Requests -> Places] /\ mine \in [Requests -> Conns \cup {NoConn}]

\* The local variable of a request is the connection of its transaction, and
\* keeps it when a throw comes after the release.
MineInv ==
  \A r \in Requests :
    /\ Working(r) => held[Outer(r)] = mine[r]
    /\ Working(r) \/ at[r] = "rethrown" => mine[r] \in Conns
    /\ at[r] = "rethrown" => refused

Goes(r, to) == at' = [at EXCEPT ![r] = to] /\ UNCHANGED <<kind, order>>
Keeps == UNCHANGED <<mine, refused>>
Single == Places \ (Outside \cup AskPlaces \cup {"begin"})

\* The seven things a step can be to the pool.
Quietly(r)  == /\ at[r] \in Single /\ \E to \in Single : Goes(r, to)
               /\ Keeps /\ UNCHANGED poolVars
Calls(r)    == at[r] = "idle" /\ Goes(r, "begin") /\ Keeps /\ Ask(Outer(r))
Begins(r)   == /\ at[r] = "begin" /\ \E to \in Single : Goes(r, to)
               /\ held[Outer(r)] # NoConn
               /\ mine' = [mine EXCEPT ![r] = held[Outer(r)]]
               /\ UNCHANGED <<poolVars, refused>>
Doubles(r)  == /\ at[r] \in Single /\ \E to \in AskPlaces : Goes(r, to)
               /\ Keeps /\ Ask(Inner(r))
Singles(r)  == /\ at[r] \in AskPlaces /\ \E to \in Single : Goes(r, to)
               /\ held[Inner(r)] # NoConn /\ Keeps /\ Release(Inner(r))
Leaves(r)   == /\ at[r] \in Single
               /\ \/ Goes(r, "done") /\ Keeps
                  \/ Goes(r, "rethrown") /\ mine' = mine /\ refused' = TRUE
               /\ Release(Outer(r))
Rethrows(r) == at[r] = "rethrown" /\ Goes(r, "done") /\ Keeps /\ ReleaseAgain(mine[r])

LEMMA PlaceNames ==
  /\ AskPlaces \cap Outside = {} /\ Single \cap Outside = {} /\ Single \cap AskPlaces = {}
  /\ Single \subseteq Places /\ AskPlaces \subseteq Places /\ Outside \subseteq Places
  /\ "begin" \in Places /\ "begin" \notin Single /\ "begin" \notin AskPlaces
  /\ "begin" \notin Outside
  /\ \A p \in Places : p \in Single \/ p \in AskPlaces \/ p \in Outside \/ p = "begin"
BY DEF Single, AskPlaces, Outside, Places

LEMMA StepForms ==
  ASSUME NEW r \in Requests, Step(r)
  PROVE  \/ Quietly(r) \/ Calls(r) \/ Begins(r) \/ Doubles(r) \/ Singles(r)
         \/ Leaves(r) \/ Rethrows(r)
<1> USE DEF Local, Goes, Keeps, Single, Places, Outside, AskPlaces
<1>1. CASE Call(r)
  BY <1>1 DEF Call, Calls
<1>2. CASE BeginWork(r)
  <2>1. at' = [at EXCEPT ![r] = "lock"] \/ at' = [at EXCEPT ![r] = "work"]
    BY <1>2 DEF BeginWork
  <2>2. QED BY <1>2, <2>1 DEF BeginWork, Begins, Statement
<1>3. CASE Throws(r)
  BY <1>3 DEF Throws, Quietly
<1>4. CASE Catch(r) \/ Finish(r)
  BY <1>4 DEF Catch, Finish, Leaves
<1>5. CASE CatchAfterRelease(r)
  BY <1>5 DEF CatchAfterRelease, Rethrows
<1>6. CASE InsertOrder(r) \/ LockOrder(r) \/ MarkFailed(r) \/ MarkCredited(r)
  BY <1>6 DEF InsertOrder, LockOrder, MarkFailed, MarkCredited, Statement, Quietly
<1>7. CASE NotFound(r) \/ RefuseSignature(r) \/ RefuseActive(r) \/ NoTokens(r)
  BY <1>7 DEF NotFound, RefuseSignature, RefuseActive, NoTokens, RefuseInTry, ThrowInTry,
              Leaves
<1>8. CASE CreditWallet(r)
  BY <1>8 DEF CreditWallet, Doubles
<1>9. CASE Announce(r)
  BY <1>9 DEF Announce, Quietly
<1>10. CASE Credited(r) \/ Finalized(r) \/ HasWallet(r) \/ HasGranted(r)
  BY <1>10 DEF Credited, Finalized, HasWallet, HasGranted, HasAliases, Singles
<1>11. CASE FinalizeOld(r) \/ ReadWallet(r) \/ ReadGranted(r)
  BY <1>11 DEF FinalizeOld, ReadWallet, ReadGranted, AskAliases, Doubles
<1>12. CASE Enough(r)
  BY <1>12 DEF Enough, Quietly
<1>13. QED
  BY <1>1, <1>2, <1>3, <1>4, <1>5, <1>6, <1>7, <1>8, <1>9, <1>10, <1>11, <1>12
     DEF Step, Settle, StartOrBill

LEMMA SlotNames ==
  ASSUME NEW r \in Requests
  PROVE  /\ Outer(r) \in Slots /\ Inner(r) \in Slots /\ Outer(r) # Inner(r)
         /\ \A q \in Requests : Outer(q) # Inner(r) /\ (Outer(q) = Outer(r) => q = r)
         /\ \A s \in Slots : s[1] = r => s \in {Outer(r), Inner(r)}
         /\ Outer(r)[1] = r /\ Outer(r)[2] = "outer"
         /\ Inner(r)[1] = r /\ Inner(r)[2] = "inner"
BY DEF Slots, Outer, Inner

\* Which slots may be used after request r has gone elsewhere.
LEMMA EligibleAfter ==
  ASSUME ControlTypeOK, NEW r \in Requests, NEW to, Goes(r, to)
  PROVE  /\ SlotsAt(to) = SlotsAt(at[r]) => Eligible' = Eligible
         /\ at[r] \in Outside /\ to = "begin" =>
              Outer(r) \notin Eligible /\ Eligible' = Eligible \cup {Outer(r)}
         /\ at[r] \in Single /\ to \in AskPlaces =>
              Inner(r) \notin Eligible /\ Eligible' = Eligible \cup {Inner(r)}
         /\ at[r] \in AskPlaces /\ to \in Single => Eligible' = Eligible \ {Inner(r)}
         /\ at[r] \in Single /\ to \in Outside => Eligible' = Eligible \ {Outer(r)}
<1>1. at'[r] = to /\ \A q \in Requests \ {r} : at'[q] = at[q]
  BY DEF ControlTypeOK, Goes
<1>2. \A s \in Slots : /\ s[1] # r => (s \in Eligible' <=> s \in Eligible)
                       /\ s[1] = r => (s \in Eligible' <=> s[2] \in SlotsAt(to))
                       /\ s[1] = r => (s \in Eligible <=> s[2] \in SlotsAt(at[r]))
  BY <1>1 DEF Eligible, Slots
<1>3. Eligible \subseteq Slots /\ Eligible' \subseteq Slots
  BY DEF Eligible
<1>4. /\ \A p \in Outside : SlotsAt(p) = {} /\ p \notin AskPlaces
      /\ \A p \in AskPlaces : SlotsAt(p) = {"outer", "inner"}
      /\ \A p \in Single : SlotsAt(p) = {"outer"}
      /\ SlotsAt("begin") = {"outer"}
  BY PlaceNames DEF SlotsAt
<1>5. \A s \in Slots : s[1] = r => (s = Outer(r) /\ s[2] = "outer") \/ (s = Inner(r) /\ s[2] = "inner")
  BY SlotNames
<1>6. Outer(r) \in Slots /\ Outer(r)[1] = r /\ Outer(r)[2] = "outer"
        /\ Inner(r) \in Slots /\ Inner(r)[1] = r /\ Inner(r)[2] = "inner"
  BY SlotNames
<1>7. ASSUME SlotsAt(to) = SlotsAt(at[r]) PROVE Eligible' = Eligible
  BY <1>2, <1>3, <1>7
<1>8. ASSUME at[r] \in Outside, to = "begin"
      PROVE Outer(r) \notin Eligible /\ Eligible' = Eligible \cup {Outer(r)}
  BY <1>2, <1>3, <1>4, <1>5, <1>6, <1>8
<1>9. ASSUME at[r] \in Single, to \in AskPlaces
      PROVE Inner(r) \notin Eligible /\ Eligible' = Eligible \cup {Inner(r)}
  BY <1>2, <1>3, <1>4, <1>5, <1>6, <1>9
<1>10. ASSUME at[r] \in AskPlaces, to \in Single PROVE Eligible' = Eligible \ {Inner(r)}
  BY <1>2, <1>3, <1>4, <1>5, <1>6, <1>10
<1>11. ASSUME at[r] \in Single, to \in Outside PROVE Eligible' = Eligible \ {Outer(r)}
  BY <1>2, <1>3, <1>4, <1>5, <1>6, <1>11
<1>12. QED BY <1>7, <1>8, <1>9, <1>10, <1>11

LEMMA PoolStep ==
  ASSUME PoolTypeOK, ControlTypeOK, PoolInv, MineInv, NEW r \in Requests, Step(r)
  PROVE  /\ PoolTypeOK' /\ ControlTypeOK' /\ PoolInv' /\ MineInv'
         /\ Exclusive => Exclusive' \/ refused'
<1>1. /\ Outer(r) \in Slots /\ Inner(r) \in Slots
      /\ \A q \in Requests \ {r} : Outer(q) \in Slots \ {Outer(r), Inner(r)}
  BY SlotNames
<1>2. \A q \in Requests : Outer(q) \in Slots \ {Inner(r)}
  BY SlotNames
<1>3. ASSUME NEW to \in Places, Goes(r, to)
      PROVE at'[r] = to /\ at' \in [Requests -> Places] /\ \A q \in Requests \ {r} : at'[q] = at[q]
  BY <1>3 DEF ControlTypeOK, Goes
<1>4. \A q \in Requests : Working(q) => held[Outer(q)] # NoConn
  BY NoConnAssumption DEF MineInv
<1>5. CASE Quietly(r)
  <2>1. PICK to \in Single : Goes(r, to)
    BY <1>5 DEF Quietly
  <2>2. Eligible' = Eligible
    BY <1>5, <2>1, EligibleAfter, PlaceNames DEF SlotsAt, Quietly
  <2>3. to \in Places /\ to \notin Outside \cup {"begin"} /\ at[r] \notin Outside \cup {"begin"}
    BY <1>5, PlaceNames DEF Quietly
  <2>4. ControlTypeOK' /\ PoolTypeOK'
    BY <1>3, <1>5, <2>1, <2>3 DEF Quietly, Keeps, Goes, ControlTypeOK, PoolTypeOK
  <2>5. MineInv'
    BY <1>3, <1>5, <2>1, <2>3 DEF Quietly, Keeps, MineInv, Working, Outside
  <2>6. QED BY <1>5, <2>2, <2>4, <2>5, QuietKeeps DEF Quietly
<1>6. CASE Calls(r)
  <2>1. Eligible' = Eligible \cup {Outer(r)} /\ Outer(r) \notin Eligible
    BY <1>6, EligibleAfter DEF Calls, Outside
  <2>2. PoolInv' /\ PoolTypeOK' /\ (Exclusive => Exclusive')
    BY <1>1, <1>6, <2>1, AskKeeps, AskType DEF Calls
  <2>3. ControlTypeOK'
    BY <1>3, <1>6, PlaceNames DEF Calls, Keeps, Goes, ControlTypeOK
  <2>4. MineInv'
    <3>1. \A q \in Requests \ {r} : held[Outer(q)] # NoConn => held'[Outer(q)] = held[Outer(q)]
      BY <1>1, <1>6, HeldStays DEF Calls
    <3>2. QED BY <1>3, <1>4, <1>6, <3>1, PlaceNames DEF Calls, Keeps, MineInv, Working
  <2>5. QED BY <2>2, <2>3, <2>4
<1>7. CASE Begins(r)
  <2>1. PICK to \in Single : Goes(r, to)
    BY <1>7 DEF Begins
  <2>2. Eligible' = Eligible
    BY <1>7, <2>1, EligibleAfter, PlaceNames DEF SlotsAt, Begins
  <2>3. to \in Places /\ to \notin Outside \cup {"begin"} /\ held[Outer(r)] \in Conns
    BY <1>1, <1>7, PlaceNames DEF Begins, PoolTypeOK
  <2>4. ControlTypeOK' /\ PoolTypeOK'
    BY <1>3, <1>7, <2>1, <2>3 DEF Begins, Goes, ControlTypeOK, PoolTypeOK
  <2>5. mine'[r] = held[Outer(r)] /\ \A q \in Requests \ {r} : mine'[q] = mine[q]
    BY <1>7 DEF Begins, ControlTypeOK
  <2>6. MineInv'
    BY <1>3, <1>7, <2>1, <2>3, <2>5 DEF Begins, MineInv, Working, Outside
  <2>7. QED BY <1>7, <2>2, <2>4, <2>6, QuietKeeps DEF Begins
<1>8. CASE Doubles(r)
  <2>1. PICK to \in AskPlaces : Goes(r, to)
    BY <1>8 DEF Doubles
  <2>2. Eligible' = Eligible \cup {Inner(r)} /\ Inner(r) \notin Eligible
    BY <1>8, <2>1, EligibleAfter DEF Doubles
  <2>3. PoolInv' /\ PoolTypeOK' /\ (Exclusive => Exclusive')
    BY <1>1, <1>8, <2>2, AskKeeps, AskType DEF Doubles
  <2>4. to \in Places /\ to \notin Outside \cup {"begin"} /\ at[r] \notin Outside \cup {"begin"}
    BY <1>8, PlaceNames DEF Doubles
  <2>5. ControlTypeOK'
    BY <1>3, <1>8, <2>1, <2>4 DEF Doubles, Keeps, Goes, ControlTypeOK
  <2>6. MineInv'
    <3>1. \A q \in Requests : held[Outer(q)] # NoConn => held'[Outer(q)] = held[Outer(q)]
      BY <1>1, <1>2, <1>8, HeldStays DEF Doubles
    <3>2. QED
      BY <1>3, <1>4, <1>8, <2>1, <2>4, <3>1 DEF Doubles, Keeps, MineInv, Working, Outside
  <2>7. QED BY <2>3, <2>5, <2>6
<1>9. CASE Singles(r)
  <2>1. PICK to \in Single : Goes(r, to)
    BY <1>9 DEF Singles
  <2>2. Eligible' = Eligible \ {Inner(r)}
    BY <1>9, <2>1, EligibleAfter DEF Singles
  <2>3. PoolInv' /\ PoolTypeOK' /\ (Exclusive => Exclusive')
    BY <1>1, <1>9, <2>2, ReleaseKeeps, ReleaseType DEF Singles
  <2>4. to \in Places /\ to \notin Outside \cup {"begin"} /\ at[r] \notin Outside \cup {"begin"}
    BY <1>9, PlaceNames DEF Singles
  <2>5. ControlTypeOK'
    BY <1>3, <1>9, <2>1, <2>4 DEF Singles, Keeps, Goes, ControlTypeOK
  <2>6. MineInv'
    <3>1. \A q \in Requests : held[Outer(q)] # NoConn => held'[Outer(q)] = held[Outer(q)]
      BY <1>1, <1>2, <1>9, HeldStays DEF Singles
    <3>2. QED
      BY <1>3, <1>4, <1>9, <2>1, <2>4, <3>1 DEF Singles, Keeps, MineInv, Working, Outside
  <2>7. QED BY <2>3, <2>5, <2>6
<1>10. CASE Leaves(r)
  <2>1. PICK to \in {"done", "rethrown"} : Goes(r, to)
    BY <1>10 DEF Leaves
  <2>2. to \in Outside /\ to \in Places /\ at[r] \notin Outside \cup {"begin"}
    BY <1>10, <2>1, PlaceNames DEF Leaves, Outside
  <2>3. Eligible' = Eligible \ {Outer(r)}
    BY <1>10, <2>1, <2>2, EligibleAfter DEF Leaves
  <2>4. held[Outer(r)] # NoConn
    BY <1>4, <2>2 DEF Working
  <2>5. PoolInv' /\ PoolTypeOK' /\ (Exclusive => Exclusive')
    BY <1>1, <1>10, <2>3, <2>4, ReleaseKeeps, ReleaseType DEF Leaves
  <2>6. ControlTypeOK'
    BY <1>3, <1>10, <2>1, <2>2 DEF Leaves, Keeps, Goes, ControlTypeOK
  <2>7. MineInv'
    <3>1. \A q \in Requests \ {r} : held[Outer(q)] # NoConn => held'[Outer(q)] = held[Outer(q)]
      BY <1>1, <1>10, HeldStays DEF Leaves
    <3>2. at'[r] \in Outside /\ (at'[r] = "rethrown" => refused') /\ (refused => refused')
      BY <1>3, <1>10, <2>2, PlaceNames DEF Leaves, Keeps, Outside
    <3>3. mine' = mine /\ mine[r] \in Conns
      BY <1>10, <2>2 DEF Leaves, Keeps, MineInv, Working
    <3>4. QED
      BY <1>3, <1>4, <2>1, <2>2, <3>1, <3>2, <3>3 DEF MineInv, Working
  <2>8. QED BY <2>5, <2>6, <2>7
<1>11. CASE Rethrows(r)
  <2>1. Eligible' = Eligible
    BY <1>11, EligibleAfter DEF Rethrows, SlotsAt, Outside
  <2>2. mine[r] \in Conns /\ refused
    BY <1>11 DEF Rethrows, MineInv
  <2>3. PoolInv'
    BY <1>11, <2>1, <2>2, ReleaseAgainKeeps DEF Rethrows
  <2>4. PoolTypeOK'
    BY <1>11, <2>2, GiveBackType DEF Rethrows, ReleaseAgain, PoolTypeOK
  <2>5. ControlTypeOK'
    BY <1>3, <1>11, PlaceNames DEF Rethrows, Keeps, Goes, ControlTypeOK, Outside
  <2>6. MineInv'
    <3>1. \A q \in Requests \ {r} : held[Outer(q)] # NoConn => held'[Outer(q)] = held[Outer(q)]
      BY <1>1, <1>11, HeldStays DEF Rethrows
    <3>2. at'[r] = "done" /\ \A q \in Requests \ {r} : at'[q] = at[q]
      BY <1>3, <1>11, PlaceNames DEF Rethrows, Outside
    <3>3. QED BY <1>4, <1>11, <2>2, <3>1, <3>2 DEF Rethrows, Keeps, MineInv, Working, Outside
  <2>7. refused'
    BY <1>11, <2>2 DEF Rethrows, Keeps
  <2>8. QED BY <2>3, <2>4, <2>5, <2>6, <2>7
<1>12. QED
  BY <1>5, <1>6, <1>7, <1>8, <1>9, <1>10, <1>11, StepForms

LEMMA InitialPool == Init => PoolTypeOK /\ ControlTypeOK /\ PoolInv /\ MineInv /\ Exclusive
<1> SUFFICES ASSUME Init PROVE PoolTypeOK /\ ControlTypeOK /\ PoolInv /\ MineInv /\ Exclusive
  OBVIOUS
<1>1. PoolTypeOK
  BY DEF Init, PoolInit, PoolTypeOK
<1>2. ControlTypeOK
  BY DEF Init, ControlTypeOK, Places
<1>3. \A s \in Slots : held[s] = NoConn
  BY DEF Init, PoolInit
<1>4. PoolInv /\ Exclusive
  BY <1>3, NoConnAssumption DEF Init, PoolInit, PoolInv, Exclusive
<1>5. MineInv
  BY DEF Init, MineInv, Working, Outside
<1>6. QED BY <1>1, <1>2, <1>4, <1>5

PoolCorrect ==
  /\ PoolTypeOK /\ ControlTypeOK /\ PoolInv /\ MineInv
  /\ refused \/ Exclusive

LEMMA RefusedStays ==
  ASSUME ControlTypeOK, NEW r \in Requests, Step(r), refused
  PROVE  refused'
BY StepForms DEF Quietly, Calls, Begins, Doubles, Singles, Leaves, Rethrows, Keeps

LEMMA PoolInvariant == Spec => []PoolCorrect
<1>1. Init => PoolCorrect
  BY InitialPool DEF PoolCorrect
<1>2. PoolCorrect /\ [Next]_vars => PoolCorrect'
  <2> SUFFICES ASSUME PoolCorrect, [Next]_vars PROVE PoolCorrect'
    OBVIOUS
  <2>1. ASSUME NEW r \in Requests, Step(r) PROVE PoolCorrect'
    BY <2>1, PoolStep, RefusedStays DEF PoolCorrect
  <2>2. CASE UNCHANGED vars
    BY <2>2 DEF PoolCorrect, PoolTypeOK, ControlTypeOK, PoolInv, Eligible, MineInv, Working,
                Exclusive
  <2>3. QED BY <2>1, <2>2 DEF Next
<1>3. QED BY <1>1, <1>2, PTL DEF Spec

\* Who holds a connection runs.
LEMMA HoldersRun ==
  ASSUME PoolCorrect, NEW s \in Slots, held[s] # NoConn
  PROVE  Runs(s[1]) /\ s[2] \in SlotsAt(at[s[1]]) /\ s[1] \in Requests
<1>1. s \in Eligible /\ s[1] \in Requests
  BY DEF PoolCorrect, PoolInv, Slots
<1>2. QED BY <1>1 DEF Eligible, SlotsAt, Runs, Outside

\* Whatever fails and whoever refuses, a connection is free or in the hands
\* of a request that is still going to give it back.
THEOREM ConnectionsNeverLost == Spec => []NoConnectionLost
<1>1. PoolCorrect => NoConnectionLost
  BY HoldersRun, NoConnAssumption DEF PoolCorrect, PoolInv, NoConnectionLost
<1>2. QED BY <1>1, PoolInvariant, PTL

\* Two requests never share a connection before one has thrown after it had
\* released.
THEOREM ConnectionsSharedOnlyAfterRefusal == Spec => []SharedOnlyAfterRefusal
<1>1. PoolCorrect => SharedOnlyAfterRefusal
  BY DEF PoolCorrect, Exclusive, SharedOnlyAfterRefusal
<1>2. QED BY <1>1, PoolInvariant, PTL

\* A request that holds a connection and waits for another holds it in its
\* outer slot.
LEMMA WaitersHoldOne ==
  ASSUME PoolCorrect, NEW s \in Slots, held[s] # NoConn, Waits(s[1])
  PROVE  s = Outer(s[1]) /\ s[1] \in Requests
<1>1. PICK i \in 1 .. Len(waiting) : waiting[i][1] = s[1]
  BY DEF Waits
<1>2. /\ waiting[i] \in Slots /\ held[waiting[i]] = NoConn /\ waiting[i] \in Eligible
      /\ s \in Eligible /\ s[1] \in Requests
  BY DEF PoolCorrect, PoolInv, PoolTypeOK, Slots
<1>3. waiting[i] # s
  BY <1>2
<1>4. waiting[i] \in {Outer(s[1]), Inner(s[1])} /\ s \in {Outer(s[1]), Inner(s[1])}
  BY <1>1, <1>2, SlotNames
<1>5. CASE s = Inner(s[1])
  <2>1. waiting[i] = Outer(s[1])
    BY <1>3, <1>4, <1>5
  <2>2. "inner" \in SlotsAt(at[s[1]])
    BY <1>2, <1>5, SlotNames DEF Eligible
  <2>3. Working(s[1])
    BY <2>2 DEF SlotsAt, Working, AskPlaces
  <2>4. held[Outer(s[1])] # NoConn
    BY <1>2, <2>3, NoConnAssumption DEF PoolCorrect, MineInv
  <2>5. QED BY <1>2, <2>1, <2>4
<1>6. QED BY <1>2, <1>4, <1>5

\* With fewer requests than connections some holder is not waiting: if each
\* waited, each connection would have a request of its own.
THEOREM QueueAlwaysMoves == Spec => []NotAllWait
<1>1. PoolCorrect => NotAllWait
  <2> SUFFICES ASSUME PoolCorrect, Cardinality(Requests) < Cardinality(Conns), waiting # <<>>,
                      \A s \in Slots : held[s] # NoConn /\ Runs(s[1]) => Waits(s[1])
               PROVE  FALSE
    BY DEF NotAllWait
  <2>1. \A c \in Conns : \E s \in Slots : held[s] = c
    BY DEF PoolCorrect, PoolInv
  <2>2. \A c \in Conns : \E r \in Requests : held[Outer(r)] = c
    BY <2>1, HoldersRun, WaitersHoldOne, NoConnAssumption
  <2> DEFINE f == [c \in Conns |-> CHOOSE r \in Requests : held[Outer(r)] = c]
  <2>3. f \in [Conns -> Requests] /\ \A c \in Conns : held[Outer(f[c])] = c
    BY <2>2
  <2> HIDE DEF f
  <2>4. \E c, d \in Conns : c # d /\ f[c] = f[d]
    BY <2>3, PoolSizeAssumption, FS_PigeonHole
  <2>5. QED BY <2>3, <2>4
<1>2. QED BY <1>1, PoolInvariant, PTL

-----------------------------------------------------------------------------
(* The database *)

Transaction == [active : BOOLEAN, lock : SUBSET Orders, credit : [Orders -> Nat],
                mark : [Orders -> Statuses \cup {"none"}]]

DbTypeOK ==
  /\ status \in [Orders -> Statuses] /\ credited \in [Orders -> Nat]
  /\ notified \subseteq Orders /\ column \in BOOLEAN
  /\ open \in [Conns -> Transaction]

LEMMA NoChangeType ==
  /\ NoChange \in Transaction /\ [NoChange EXCEPT !.active = TRUE] \in Transaction
  /\ NoChange.lock = {} /\ \A o \in Orders : NoChange.credit[o] = 0 /\ NoChange.mark[o] = "none"
BY DEF NoChange, Transaction

LEMMA CommitType ==
  ASSUME DbTypeOK, NEW c \in Conns, NEW next \in Transaction, CommitThen(c, next)
  PROVE  /\ status' \in [Orders -> Statuses] /\ credited' \in [Orders -> Nat]
         /\ column' \in BOOLEAN /\ open' \in [Conns -> Transaction]
<1>1. open[c] \in Transaction
  BY DEF DbTypeOK
<1>2. credited' \in [Orders -> Nat]
  BY <1>1 DEF CommitThen, DbTypeOK, Transaction
<1>3. status' \in [Orders -> Statuses]
  BY <1>1 DEF CommitThen, DbTypeOK, Transaction
<1>4. QED BY <1>2, <1>3 DEF CommitThen, DbTypeOK

LEMMA StatementType ==
  ASSUME DbTypeOK, NEW c \in Conns, NEW o \in Orders,
         \/ \E m \in Statuses : Mark(c, o, m)
         \/ Credit(c, o) \/ Lock(c, o) \/ Rollback(c)
  PROVE  /\ status' \in [Orders -> Statuses] /\ credited' \in [Orders -> Nat]
         /\ column' \in BOOLEAN /\ open' \in [Conns -> Transaction]
<1>1. open[c] \in Transaction /\ open[c].credit[o] \in Nat
  BY DEF DbTypeOK, Transaction
<1>2. ASSUME NEW m \in Statuses, Mark(c, o, m)
      PROVE status' \in [Orders -> Statuses] /\ open' \in [Conns -> Transaction]
  <2>1. [open[c] EXCEPT !.mark[o] = m] \in Transaction
    BY <1>1 DEF Transaction
  <2>2. QED BY <1>2, <2>1 DEF Mark, DbTypeOK
<1>3. ASSUME Credit(c, o)
      PROVE credited' \in [Orders -> Nat] /\ open' \in [Conns -> Transaction]
  <2>1. [open[c] EXCEPT !.credit[o] = @ + 1] \in Transaction
    BY <1>1 DEF Transaction
  <2>2. QED BY <1>3, <2>1 DEF Credit, DbTypeOK
<1>4. ASSUME Lock(c, o) PROVE open' \in [Conns -> Transaction]
  <2>1. [open[c] EXCEPT !.lock = @ \cup {o}] \in Transaction
    BY <1>1 DEF Transaction
  <2>2. QED BY <1>4, <2>1 DEF Lock, DbTypeOK
<1>5. QED BY <1>2, <1>3, <1>4, NoChangeType DEF Mark, Credit, Lock, Rollback, DbTypeOK

LEMMA DbType ==
  ASSUME PoolCorrect, DbTypeOK, NEW r \in Requests, Step(r)
  PROVE  DbTypeOK'
<1> DEFINE c == mine[r]
           o == order[r]
<1>1. o \in Orders /\ (Working(r) => c \in Conns)
  BY DEF PoolCorrect, ControlTypeOK, MineInv
<1>2. /\ "PENDING_PAYMENT" \in Statuses /\ "FAILED" \in Statuses /\ "TOKEN_CREDITED" \in Statuses
  BY DEF Statuses
<1>3. \A p \in Single : at[r] = p => Working(r)
  BY PlaceNames DEF Working
<1>4. CASE UNCHANGED <<dbVars, notified>>
  BY <1>4 DEF DbTypeOK
<1>5. CASE BeginWork(r)
  <2>1. held[Outer(r)] \in Conns
    BY <1>5, SlotNames DEF BeginWork, PoolCorrect, PoolTypeOK
  <2>2. QED BY <1>5, <2>1, NoChangeType, CommitType DEF BeginWork, Begin, Statement, DbTypeOK
<1> USE DEF Local, Single, Places, Outside, AskPlaces
<1>6. CASE Catch(r)
  BY <1>1, <1>3, <1>6, StatementType DEF Catch, DbTypeOK
<1>7. CASE Finish(r) \/ RefuseSignature(r)
  BY <1>1, <1>3, <1>7, NoChangeType, CommitType
     DEF Finish, RefuseSignature, ThrowInTry, Commit, DbTypeOK
<1>8. CASE NotFound(r) \/ RefuseActive(r) \/ NoTokens(r)
  BY <1>1, <1>3, <1>8, StatementType
     DEF NotFound, RefuseActive, NoTokens, RefuseInTry, ThrowInTry, DbTypeOK
<1>9. CASE InsertOrder(r) \/ MarkFailed(r) \/ MarkCredited(r)
  <2>1. UNCHANGED notified /\ Working(r) /\ \E m \in Statuses : Mark(c, o, m)
    BY <1>2, <1>3, <1>9 DEF InsertOrder, MarkFailed, MarkCredited, Statement
  <2>2. QED BY <1>1, <2>1, StatementType DEF DbTypeOK
<1>10. CASE LockOrder(r)
  BY <1>1, <1>3, <1>10, StatementType DEF LockOrder, Statement, DbTypeOK
<1>11. CASE CreditWallet(r)
  BY <1>1, <1>3, <1>11, StatementType DEF CreditWallet, DbTypeOK
<1>12. CASE Announce(r)
  BY <1>1, <1>12 DEF Announce, DbTypeOK
<1>13. CASE CatchAfterRelease(r)
  <2>1. mine[r] \in Conns
    BY <1>13 DEF CatchAfterRelease, PoolCorrect, MineInv
  <2>2. QED BY <1>1, <1>13, <2>1, StatementType DEF CatchAfterRelease, DbTypeOK
<1>14. QED
  BY <1>4, <1>5, <1>6, <1>7, <1>8, <1>9, <1>10, <1>11, <1>12, <1>13
     DEF Step, Settle, StartOrBill, Call, Throws, Credited, FinalizeOld, Finalized,
         ReadWallet, HasWallet, ReadGranted, HasGranted, Enough, AskAliases,
         HasAliases, Quiet

LEMMA DbInvariant == Spec => []DbTypeOK
<1>1. Init => DbTypeOK
  <2> SUFFICES ASSUME Init PROVE DbTypeOK
    OBVIOUS
  <2>1. status \in [Orders -> Statuses]
    BY DEF Init, Statuses
  <2>2. QED BY <2>1, NoChangeType DEF Init, DbTypeOK
<1>2. PoolCorrect /\ DbTypeOK /\ [Next]_vars => DbTypeOK'
  BY DbType DEF Next, DbTypeOK
<1>3. QED BY <1>1, <1>2, PoolInvariant, PTL DEF Spec

\* Every variable of the orders, the transactions and the pool keeps its type.
THEOREM OrderTypesCorrect == Spec => []TypeOK
<1>1. PoolCorrect /\ DbTypeOK => TypeOK
  BY DEF PoolCorrect, PoolTypeOK, ControlTypeOK, DbTypeOK, TypeOK, Transaction
<1>2. QED BY <1>1, PoolInvariant, DbInvariant, PTL

-----------------------------------------------------------------------------
(* What a settlement has done so far *)

Paid       == {"crediting", "credited", "mark"}
HasLocked  == {"signed", "forged", "failed"} \cup Paid
ForSession == {"finalizing", "wallet", "aliases", "checked", "granted", "decide"}

\* A request that holds its order's row.
Locks(p, k) == p \in HasLocked \/ (p = "commit" /\ k = "verify")

\* The transaction t of a request of kind k at place p, about order o that
\* has the status st.
Fits(t, p, k, o, st) ==
  /\ t.active
  /\ \A x \in Orders \ {o} : t.credit[x] = 0 /\ t.mark[x] = "none"
  /\ p \notin Paid \cup {"commit", "catch"} => t.credit[o] = 0
  /\ p \in Paid => t.credit[o] = 1
  /\ p \notin {"commit", "catch", "failed"} => t.mark[o] = "none"
  /\ p = "commit" =>
       \/ k = "create" /\ t.credit[o] = 0 /\ t.mark[o] = "PENDING_PAYMENT"
       \/ k = "verify" /\ t.credit[o] = 1 /\ t.mark[o] = "TOKEN_CREDITED"
       \/ k \in {"start", "bill"} /\ t.credit[o] = 0 /\ t.mark[o] = "none"
  /\ Locks(p, k) =>
       k = "verify" /\ o \in t.lock /\ st \notin {"absent", "TOKEN_CREDITED"}
  /\ k = "create" => p \in {"work", "commit", "catch"}
  /\ p \in ForSession => k \in {"start", "bill"}

\* The wallet agrees with the status, only running requests have something
\* open, and it fits; nobody holds another's row, and an order that is about
\* to be created is not there.
Settled ==
  /\ \A o \in Orders : credited[o] = IF status[o] = "TOKEN_CREDITED" THEN 1 ELSE 0
  /\ \A c \in Conns : open[c] = NoChange \/ \E r \in Requests : Working(r) /\ mine[r] = c
  /\ \A r \in Requests :
       Working(r) => Fits(open[mine[r]], at[r], kind[r], order[r], status[order[r]])
  /\ \A c, d \in Conns : c # d => open[c].lock \cap open[d].lock = {}
  /\ \A r \in Requests : kind[r] = "create" /\ at[r] # "done" => status[order[r]] = "absent"
  /\ \A r, q \in Requests :
       kind[r] = "create" /\ kind[q] = "create" /\ order[r] = order[q] => r = q

\* Requests have connections of their own.
LEMMA Apart ==
  ASSUME PoolCorrect, ~refused
  PROVE  /\ \A r \in Requests : Working(r) => mine[r] \in Conns /\ held[Outer(r)] = mine[r]
         /\ \A r, q \in Requests : Working(r) /\ Working(q) /\ mine[r] = mine[q] => r = q
         /\ \A r, q \in Requests : Working(q) /\ r # q /\ held[Outer(r)] # NoConn
                                     => mine[q] # held[Outer(r)]
<1>1. Exclusive /\ MineInv
  BY DEF PoolCorrect
<1>2. \A r \in Requests : Outer(r) \in Slots /\ \A q \in Requests : Outer(q) = Outer(r) => q = r
  BY SlotNames
<1>3. \A r \in Requests : Working(r) => mine[r] \in Conns /\ held[Outer(r)] = mine[r]
  BY <1>1 DEF MineInv
<1>4. \A s, t \in Slots : \A c \in Conns : held[s] = c /\ held[t] = c => s = t
  BY <1>1 DEF Exclusive
<1>5. QED BY <1>2, <1>3, <1>4

LEMMA NextPlace ==
  ASSUME PoolCorrect, NEW r \in Requests, NEW to, Goes(r, to)
  PROVE  at'[r] = to /\ \A q \in Requests \ {r} : at'[q] = at[q]
BY DEF PoolCorrect, ControlTypeOK, Goes

\* One transaction goes on and changes nothing that is committed.
LEMMA MoveSettles ==
  ASSUME PoolCorrect, DbTypeOK, ~refused, Settled,
         NEW r \in Requests, Working(r), NEW to, to \notin Outside \cup {"begin"},
         Goes(r, to), mine' = mine, NEW t, t \in Transaction,
         open' = [open EXCEPT ![mine[r]] = t], UNCHANGED <<status, credited>>,
         Fits(t, to, kind[r], order[r], status[order[r]]),
         \A d \in Conns \ {mine[r]} : t.lock \cap open[d].lock = {}
  PROVE  Settled'
<1>1. at'[r] = to /\ \A q \in Requests \ {r} : at'[q] = at[q]
  BY NextPlace
<1>2. UNCHANGED <<kind, order>>
  BY DEF Goes
<1>3. mine[r] \in Conns /\ \A q \in Requests \ {r} : Working(q) => mine[q] \in Conns \ {mine[r]}
  BY Apart
<1>4. open'[mine[r]] = t /\ \A d \in Conns \ {mine[r]} : open'[d] = open[d]
  BY <1>3 DEF DbTypeOK
<1>5. Working(r)' /\ \A q \in Requests \ {r} : Working(q)' <=> Working(q)
  BY <1>1 DEF Working
<1>6. \A c \in Conns : open'[c] = NoChange \/ \E q \in Requests : Working(q)' /\ mine'[q] = c
  BY <1>4, <1>5 DEF Settled
<1>7. \A q \in Requests :
        Working(q)' => Fits(open'[mine'[q]], at'[q], kind'[q], order'[q], status'[order'[q]])
  <2>1. ASSUME NEW q \in Requests \ {r}, Working(q)
        PROVE Fits(open'[mine'[q]], at'[q], kind'[q], order'[q], status'[order'[q]])
    BY <1>1, <1>2, <1>3, <1>4, <2>1 DEF Settled
  <2>2. Fits(open'[mine'[r]], at'[r], kind'[r], order'[r], status'[order'[r]])
    BY <1>1, <1>2, <1>4
  <2>3. QED BY <1>5, <2>1, <2>2
<1>8. \A c, d \in Conns : c # d => open'[c].lock \cap open'[d].lock = {}
  BY <1>3, <1>4 DEF Settled
<1>9. \A q \in Requests : kind'[q] = "create" /\ at'[q] # "done" => status'[order'[q]] = "absent"
  BY <1>1, <1>2 DEF Settled, Working, Outside
<1>10. QED BY <1>2, <1>6, <1>7, <1>8, <1>9 DEF Settled

\* One transaction ends and changes at most its own order.
LEMMA EndSettles ==
  ASSUME PoolCorrect, DbTypeOK, ~refused, Settled,
         NEW r \in Requests, Working(r), Goes(r, "done"), mine' = mine,
         open' = [open EXCEPT ![mine[r]] = NoChange],
         \A x \in Orders \ {order[r]} : status'[x] = status[x] /\ credited'[x] = credited[x],
         credited'[order[r]] = IF status'[order[r]] = "TOKEN_CREDITED" THEN 1 ELSE 0,
         \A q \in Requests \ {r} :
           order[q] = order[r] /\ (\/ Working(q) /\ Locks(at[q], kind[q])
                                   \/ kind[q] = "create" /\ at[q] # "done")
             => status'[order[r]] = status[order[r]]
  PROVE  Settled'
<1>1. at'[r] = "done" /\ \A q \in Requests \ {r} : at'[q] = at[q]
  BY NextPlace
<1>2. UNCHANGED <<kind, order>> /\ \A q \in Requests : order[q] \in Orders
  BY DEF Goes, PoolCorrect, ControlTypeOK
<1>3. mine[r] \in Conns /\ \A q \in Requests \ {r} : Working(q) => mine[q] \in Conns \ {mine[r]}
  BY Apart
<1>4. open'[mine[r]] = NoChange /\ \A d \in Conns \ {mine[r]} : open'[d] = open[d]
  BY <1>3 DEF DbTypeOK
<1>5. ~Working(r)' /\ \A q \in Requests \ {r} : Working(q)' <=> Working(q)
  BY <1>1 DEF Working, Outside
<1>6. \A c \in Conns : open'[c] = NoChange \/ \E q \in Requests : Working(q)' /\ mine'[q] = c
  BY <1>4, <1>5 DEF Settled
<1>7. \A q \in Requests :
        Working(q)' => Fits(open'[mine'[q]], at'[q], kind'[q], order'[q], status'[order'[q]])
  <2> SUFFICES ASSUME NEW q \in Requests \ {r}, Working(q)
               PROVE Fits(open'[mine'[q]], at'[q], kind'[q], order'[q], status'[order'[q]])
    BY <1>5
  <2>1. open'[mine'[q]] = open[mine[q]] /\ at'[q] = at[q] /\ kind'[q] = kind[q]
          /\ order'[q] = order[q]
    BY <1>1, <1>2, <1>3, <1>4
  <2>2. Fits(open[mine[q]], at[q], kind[q], order[q], status[order[q]])
    BY DEF Settled
  <2>3. Locks(at[q], kind[q]) => status'[order[q]] = status[order[q]]
    BY <1>2
  <2>4. Fits(open[mine[q]], at[q], kind[q], order[q], status'[order[q]])
    BY <2>2, <2>3 DEF Fits
  <2>5. QED BY <2>1, <2>4
<1>8. \A c, d \in Conns : c # d => open'[c].lock \cap open'[d].lock = {}
  BY <1>3, <1>4, NoChangeType DEF Settled
<1>9. \A q \in Requests : kind'[q] = "create" /\ at'[q] # "done" => status'[order'[q]] = "absent"
  BY <1>1, <1>2 DEF Settled
<1>10. \A o \in Orders : credited'[o] = IF status'[o] = "TOKEN_CREDITED" THEN 1 ELSE 0
  BY DEF Settled
<1>11. QED BY <1>2, <1>6, <1>7, <1>8, <1>9, <1>10 DEF Settled

\* What is there when request r works.
LEMMA AtWork ==
  ASSUME PoolCorrect, DbTypeOK, ~refused, Settled, NEW r \in Requests, Working(r)
  PROVE  /\ mine[r] \in Conns /\ order[r] \in Orders /\ kind[r] \in Kinds
         /\ open[mine[r]] \in Transaction /\ open[mine[r]].active
         /\ Fits(open[mine[r]], at[r], kind[r], order[r], status[order[r]])
         /\ open[mine[r]].credit[order[r]] \in Nat
         /\ status[order[r]] \in Statuses /\ credited[order[r]] \in Nat
         /\ \A d \in Conns \ {mine[r]} : open[mine[r]].lock \cap open[d].lock = {}
<1>1. mine[r] \in Conns /\ order[r] \in Orders /\ kind[r] \in Kinds
  BY Apart DEF PoolCorrect, ControlTypeOK
<1>2. open[mine[r]] \in Transaction /\ open[mine[r]].credit[order[r]] \in Nat
  BY <1>1 DEF DbTypeOK, Transaction
<1>3. Fits(open[mine[r]], at[r], kind[r], order[r], status[order[r]])
  BY DEF Settled
<1>4. QED BY <1>1, <1>2, <1>3 DEF Settled, DbTypeOK, Fits

\* A step that only moves a request on.
LEMMA QuietSettles ==
  ASSUME PoolCorrect, DbTypeOK, ~refused, Settled, NEW r \in Requests, Working(r),
         NEW to, to \notin Outside \cup {"begin"}, Goes(r, to), mine' = mine,
         UNCHANGED dbVars,
         Fits(open[mine[r]], to, kind[r], order[r], status[order[r]])
  PROVE  Settled'
<1>1. open' = [open EXCEPT ![mine[r]] = open[mine[r]]]
  BY AtWork DEF DbTypeOK
<1>2. /\ open[mine[r]] \in Transaction
      /\ \A d \in Conns \ {mine[r]} : open[mine[r]].lock \cap open[d].lock = {}
  BY AtWork
<1>3. UNCHANGED <<status, credited>>
  OBVIOUS
<1> DEFINE t == open[mine[r]]
<1> HIDE DEF t
<1>4. /\ t \in Transaction /\ open' = [open EXCEPT ![mine[r]] = t]
      /\ Fits(t, to, kind[r], order[r], status[order[r]])
      /\ \A d \in Conns \ {mine[r]} : t.lock \cap open[d].lock = {}
  BY <1>1, <1>2 DEF t
<1>5. QED BY <1>3, <1>4, MoveSettles

LEMMA BeginSettles ==
  ASSUME PoolCorrect, DbTypeOK, ~refused, Settled, NEW r \in Requests, BeginWork(r)
  PROVE  Settled'
<1> DEFINE c == held[Outer(r)]
           fresh == [NoChange EXCEPT !.active = TRUE]
<1>1. PICK to \in {"lock", "work"} :
        Goes(r, to) /\ (kind[r] \in {"verify", "webhook"} <=> to = "lock")
  BY DEF BeginWork, Goes
<1>2. at'[r] = to /\ at[r] = "begin" /\ \A q \in Requests \ {r} : at'[q] = at[q]
  BY <1>1, NextPlace DEF BeginWork
<1>3. UNCHANGED <<kind, order>>
  BY <1>1 DEF Goes
<1>4. c \in Conns /\ c # NoConn
  BY SlotNames DEF BeginWork, PoolCorrect, PoolTypeOK
<1>5. mine' = [mine EXCEPT ![r] = c] /\ mine \in [Requests -> Conns \cup {NoConn}]
  BY DEF BeginWork, PoolCorrect, ControlTypeOK
<1>6. mine'[r] = c /\ \A q \in Requests \ {r} : mine'[q] = mine[q]
  BY <1>5
<1>7. ~Working(r) /\ Working(r)' /\ \A q \in Requests \ {r} : Working(q)' <=> Working(q)
  BY <1>2 DEF Working, Outside
<1>8. \A q \in Requests : Working(q) => mine[q] \in Conns \ {c}
  BY <1>4, <1>7, Apart
<1>9. open[c] = NoChange
  BY <1>4, <1>8 DEF Settled
<1>10. /\ status' = status /\ credited' = credited /\ open' = [open EXCEPT ![c] = fresh]
  <2>1. CommitThen(c, fresh)
    BY DEF BeginWork, Begin
  <2>2. status' = [o \in Orders |-> status[o]]
    BY <1>9, <2>1, NoChangeType DEF CommitThen
  <2>3. credited' = [o \in Orders |-> credited[o] + 0]
    BY <1>9, <2>1, NoChangeType DEF CommitThen
  <2>4. \A o \in Orders : credited[o] + 0 = credited[o]
    BY DEF DbTypeOK
  <2>5. QED BY <2>1, <2>2, <2>3, <2>4 DEF DbTypeOK, CommitThen
<1>11. open'[c] = fresh /\ \A d \in Conns \ {c} : open'[d] = open[d]
  BY <1>4, <1>10 DEF DbTypeOK
<1>12. /\ fresh.active /\ fresh.lock = {}
       /\ \A o \in Orders : fresh.credit[o] = 0 /\ fresh.mark[o] = "none"
  BY DEF NoChange
<1> HIDE DEF c, fresh
<1>13. Fits(fresh, to, kind[r], order[r], status[order[r]])
  BY <1>1, <1>12 DEF Fits, Paid, Locks, HasLocked, ForSession, PoolCorrect, ControlTypeOK
<1>14. \A d \in Conns : open'[d] = NoChange \/ \E q \in Requests : Working(q)' /\ mine'[q] = d
  BY <1>6, <1>7, <1>11 DEF Settled
<1>15. \A q \in Requests :
         Working(q)' => Fits(open'[mine'[q]], at'[q], kind'[q], order'[q], status'[order'[q]])
  <2>1. ASSUME NEW q \in Requests \ {r}, Working(q)
        PROVE Fits(open'[mine'[q]], at'[q], kind'[q], order'[q], status'[order'[q]])
    BY <1>2, <1>3, <1>6, <1>8, <1>10, <1>11, <2>1 DEF Settled
  <2>2. Fits(open'[mine'[r]], at'[r], kind'[r], order'[r], status'[order'[r]])
    BY <1>2, <1>3, <1>6, <1>10, <1>11, <1>13
  <2>3. QED BY <1>7, <2>1, <2>2
<1>16. \A d, e \in Conns : d # e => open'[d].lock \cap open'[e].lock = {}
  BY <1>4, <1>11, <1>12 DEF Settled
<1>17. \A q \in Requests : kind'[q] = "create" /\ at'[q] # "done" => status'[order'[q]] = "absent"
  BY <1>2, <1>3, <1>10 DEF Settled
<1>18. QED BY <1>3, <1>10, <1>14, <1>15, <1>16, <1>17 DEF Settled

LEMMA CallSettles ==
  ASSUME PoolCorrect, Settled, NEW r \in Requests, Call(r)
  PROVE  Settled'
<1>1. Goes(r, "begin") /\ at[r] = "idle" /\ UNCHANGED <<kind, order, mine, dbVars>>
  BY DEF Call, Local, Quiet, Goes
<1>2. at'[r] = "begin" /\ \A q \in Requests \ {r} : at'[q] = at[q]
  BY <1>1, NextPlace
<1>3. \A q \in Requests : /\ Working(q)' <=> Working(q)
                          /\ Working(q) => at'[q] = at[q]
                          /\ at'[q] # "done" => at[q] # "done"
  BY <1>1, <1>2 DEF Working, Outside
<1>4. QED BY <1>1, <1>3 DEF Settled

LEMMA CatchSettles ==
  ASSUME PoolCorrect, DbTypeOK, ~refused, Settled, NEW r \in Requests, Catch(r)
  PROVE  Settled'
<1>1. Working(r) /\ Goes(r, "done") /\ mine' = mine
  BY DEF Catch, Local, Goes, Working, Outside
<1>2. open' = [open EXCEPT ![mine[r]] = NoChange] /\ UNCHANGED <<status, credited>>
  BY DEF Catch, Rollback
<1>3. order[r] \in Orders
  BY <1>1, AtWork
<1>4. QED BY <1>1, <1>2, <1>3, EndSettles DEF Settled

LEMMA FinishSettles ==
  ASSUME PoolCorrect, DbTypeOK, ~refused, Settled, NEW r \in Requests, Finish(r)
  PROVE  Settled'
<1> DEFINE o == order[r]
           t == open[mine[r]]
<1>1. Working(r) /\ Goes(r, "done") /\ mine' = mine /\ at[r] = "commit"
  BY DEF Finish, Local, Goes, Working, Outside
<1>2. /\ open' = [open EXCEPT ![mine[r]] = NoChange]
      /\ credited' = [x \in Orders |-> credited[x] + t.credit[x]]
      /\ status' = [x \in Orders |-> IF t.mark[x] = "none" THEN status[x] ELSE t.mark[x]]
  BY DEF Finish, Commit, CommitThen
<1>3. o \in Orders /\ Fits(t, "commit", kind[r], o, status[o]) /\ credited[o] \in Nat
  BY <1>1, AtWork
<1>4. \A x \in Orders \ {o} : status'[x] = status[x] /\ credited'[x] = credited[x]
  <2>1. \A x \in Orders \ {o} : t.credit[x] = 0 /\ t.mark[x] = "none"
    BY <1>3 DEF Fits
  <2>2. QED BY <1>2, <2>1 DEF DbTypeOK
<1>5. credited[o] = IF status[o] = "TOKEN_CREDITED" THEN 1 ELSE 0
  BY <1>3 DEF Settled
<1>6. ASSUME NEW q \in Requests \ {r}, order[q] = o, Working(q), Locks(at[q], kind[q])
      PROVE  status[o] # "absent" /\ kind[r] # "verify"
  <2>1. Fits(open[mine[q]], at[q], kind[q], o, status[o]) /\ mine[q] # mine[r]
        /\ mine[q] \in Conns /\ mine[r] \in Conns
    BY <1>1, <1>6, AtWork, Apart
  <2>2. o \in open[mine[q]].lock /\ status[o] # "absent"
    BY <1>6, <2>1 DEF Fits
  <2>3. kind[r] = "verify" => o \in t.lock
    BY <1>3 DEF Fits, Locks
  <2>4. QED BY <2>1, <2>2, <2>3 DEF Settled
<1>7. ASSUME NEW q \in Requests \ {r}, order[q] = o, kind[q] = "create", at[q] # "done"
      PROVE  status[o] = "absent" /\ kind[r] # "create"
  BY <1>7 DEF Settled
<1> HIDE DEF o, t
<1>8. CASE kind[r] = "create"
  <2>1. status[o] = "absent" /\ t.credit[o] = 0 /\ t.mark[o] = "PENDING_PAYMENT"
    BY <1>1, <1>3, <1>8 DEF Settled, Fits, o
  <2>2. status'[o] = "PENDING_PAYMENT" /\ credited'[o] = 0
    BY <1>2, <1>3, <1>5, <2>1
  <2>3. QED BY <1>1, <1>2, <1>4, <1>6, <1>7, <1>8, <2>1, <2>2, EndSettles DEF o
<1>9. CASE kind[r] = "verify"
  <2>1. /\ t.credit[o] = 1 /\ t.mark[o] = "TOKEN_CREDITED"
        /\ status[o] \notin {"absent", "TOKEN_CREDITED"}
    BY <1>3, <1>9 DEF Fits, Locks
  <2>2. status'[o] = "TOKEN_CREDITED" /\ credited'[o] = 1
    BY <1>2, <1>3, <1>5, <2>1
  <2>3. QED BY <1>1, <1>2, <1>4, <1>6, <1>7, <1>9, <2>1, <2>2, EndSettles DEF o
<1>10. CASE kind[r] \notin {"create", "verify"}
  <2>1. t.credit[o] = 0 /\ t.mark[o] = "none"
    BY <1>3, <1>10 DEF Fits
  <2>2. status'[o] = status[o] /\ credited'[o] = credited[o]
    BY <1>2, <1>3, <2>1
  <2>3. QED BY <1>1, <1>2, <1>4, <1>5, <2>2, EndSettles DEF o
<1>11. QED BY <1>8, <1>9, <1>10

\* The statements of a settlement.
LEMMA StatementSettles ==
  ASSUME PoolCorrect, DbTypeOK, ~refused, Settled, NEW r \in Requests,
         InsertOrder(r) \/ LockOrder(r) \/ MarkFailed(r) \/ CreditWallet(r) \/ MarkCredited(r)
  PROVE  Settled'
<1> DEFINE c == mine[r]
           o == order[r]
           t == open[c]
<1> USE DEF Local, Goes
<1>1. Working(r) /\ mine' = mine
  BY DEF InsertOrder, LockOrder, MarkFailed, CreditWallet, MarkCredited, Working, Outside
<1>2. /\ c \in Conns /\ o \in Orders /\ t \in Transaction /\ t.active
      /\ Fits(t, at[r], kind[r], o, status[o])
      /\ \A d \in Conns \ {c} : t.lock \cap open[d].lock = {}
  BY <1>1, AtWork
<1>3. ASSUME NEW m \in Statuses, Mark(c, o, m), NEW to, to \notin Outside \cup {"begin"},
             Goes(r, to), Fits([t EXCEPT !.mark[o] = m], to, kind[r], o, status[o])
      PROVE  Settled'
  <2> DEFINE u == [t EXCEPT !.mark[o] = m]
  <2>1. u \in Transaction /\ u.lock = t.lock
    BY <1>2, <1>3 DEF Transaction
  <2>2. open' = [open EXCEPT ![c] = u] /\ UNCHANGED <<status, credited>>
    BY <1>2, <1>3 DEF Mark
  <2> HIDE DEF u
  <2>3. Fits(u, to, kind[r], o, status[o])
    BY <1>3 DEF u
  <2>4. QED BY <1>1, <1>2, <1>3, <2>1, <2>2, <2>3, MoveSettles
<1>4. \A m : LET u == [t EXCEPT !.mark[o] = m]
             IN  /\ u.active = t.active /\ u.lock = t.lock /\ u.credit = t.credit
                 /\ u.mark[o] = m /\ \A x \in Orders \ {o} : u.mark[x] = t.mark[x]
  BY <1>2 DEF Transaction
<1>5. CASE InsertOrder(r)
  <2>1. at[r] = "work" /\ Goes(r, "commit") /\ Mark(c, o, "PENDING_PAYMENT") /\ kind[r] = "create"
    BY <1>5 DEF InsertOrder
  <2>2. Fits([t EXCEPT !.mark[o] = "PENDING_PAYMENT"], "commit", kind[r], o, status[o])
    BY <1>2, <1>4, <2>1 DEF Fits, Paid, Locks, HasLocked, ForSession
  <2>3. QED BY <1>3, <2>1, <2>2 DEF Statuses, Outside
<1>6. CASE MarkFailed(r)
  <2>1. at[r] = "forged" /\ Goes(r, "failed") /\ Mark(c, o, "FAILED")
    BY <1>6 DEF MarkFailed
  <2>2. Fits([t EXCEPT !.mark[o] = "FAILED"], "failed", kind[r], o, status[o])
    BY <1>2, <1>4, <2>1 DEF Fits, Paid, Locks, HasLocked, ForSession
  <2>3. QED BY <1>3, <2>1, <2>2 DEF Statuses, Outside
<1>7. CASE MarkCredited(r)
  <2>1. at[r] = "mark" /\ Goes(r, "commit") /\ Mark(c, o, "TOKEN_CREDITED")
    BY <1>7 DEF MarkCredited
  <2>2. Fits([t EXCEPT !.mark[o] = "TOKEN_CREDITED"], "commit", kind[r], o, status[o])
    BY <1>2, <1>4, <2>1 DEF Fits, Paid, Locks, HasLocked, ForSession
  <2>3. QED BY <1>3, <2>1, <2>2 DEF Statuses, Outside
<1>8. CASE LockOrder(r)
  <2> DEFINE u == [t EXCEPT !.lock = @ \cup {o}]
  <2>1. /\ at[r] = "lock" /\ kind[r] = "verify" /\ \A d \in Conns \ {c} : o \notin open[d].lock
        /\ View(c, o) # "absent" /\ Lock(c, o)
    BY <1>8 DEF LockOrder, Free
  <2>2. View(c, o) = status[o]
    BY <1>2, <2>1 DEF View, Fits, Paid
  <2>3. PICK to \in {"catch", "signed", "forged"} :
          Goes(r, to) /\ (to # "catch" => status[o] # "TOKEN_CREDITED")
    BY <1>8, <2>2 DEF LockOrder
  <2>4. u \in Transaction /\ u.lock = t.lock \cup {o} /\ u.active
        /\ u.credit = t.credit /\ u.mark = t.mark
    BY <1>2 DEF Transaction
  <2>5. open' = [open EXCEPT ![c] = u] /\ UNCHANGED <<status, credited>>
    BY <1>2, <2>1 DEF Lock
  <2> HIDE DEF u
  <2>6. Fits(u, to, kind[r], o, status[o])
    BY <1>2, <2>1, <2>2, <2>3, <2>4 DEF Fits, Paid, Locks, HasLocked, ForSession
  <2>7. \A d \in Conns \ {c} : u.lock \cap open[d].lock = {}
    BY <1>2, <2>1, <2>4
  <2>8. QED BY <1>1, <2>3, <2>4, <2>5, <2>6, <2>7, MoveSettles DEF Outside
<1>9. CASE CreditWallet(r)
  <2> DEFINE u == [t EXCEPT !.credit[o] = @ + 1]
  <2>1. at[r] = "signed" /\ Goes(r, "crediting") /\ Credit(c, o)
    BY <1>9 DEF CreditWallet
  <2>2. t.credit[o] = 0
    BY <1>2, <2>1 DEF Fits, Paid
  <2>3. u \in Transaction /\ u.lock = t.lock /\ u.active /\ u.mark = t.mark
        /\ u.credit[o] = 1 /\ \A x \in Orders \ {o} : u.credit[x] = t.credit[x]
    BY <1>2, <2>2 DEF Transaction
  <2>4. open' = [open EXCEPT ![c] = u] /\ UNCHANGED <<status, credited>>
    BY <1>2, <2>1 DEF Credit
  <2> HIDE DEF u
  <2>5. Fits(u, "crediting", kind[r], o, status[o])
    BY <1>2, <2>1, <2>3 DEF Fits, Paid, Locks, HasLocked, ForSession
  <2>6. \A d \in Conns \ {c} : u.lock \cap open[d].lock = {}
    BY <1>2, <2>3
  <2>7. QED BY <1>1, <2>1, <2>3, <2>4, <2>5, <2>6, MoveSettles DEF Outside
<1>10. QED BY <1>5, <1>6, <1>7, <1>8, <1>9

\* What a request does between its statements.
LEMMA BetweenSettles ==
  ASSUME PoolCorrect, DbTypeOK, ~refused, Settled, NEW r \in Requests,
         \/ Throws(r) \/ Credited(r) \/ Announce(r) \/ FinalizeOld(r) \/ Finalized(r)
         \/ ReadWallet(r) \/ HasWallet(r) \/ ReadGranted(r) \/ HasGranted(r) \/ Enough(r)
  PROVE  Settled'
<1> DEFINE t == open[mine[r]]
<1> USE DEF Local, Goes, AskAliases, HasAliases, Quiet
<1>1. UNCHANGED dbVars /\ mine' = mine
  BY DEF Throws, Credited, Announce, FinalizeOld, Finalized, ReadWallet, HasWallet,
         ReadGranted, HasGranted, Enough
<1>2. Working(r)
  BY DEF Throws, Credited, Announce, FinalizeOld, Finalized, ReadWallet, HasWallet,
         ReadGranted, HasGranted, Enough, Working, Outside
<1>3. t.active /\ Fits(t, at[r], kind[r], order[r], status[order[r]])
  BY <1>2, AtWork
<1>4. ASSUME NEW to, to \notin Outside \cup {"begin"}, Goes(r, to),
             Fits(t, to, kind[r], order[r], status[order[r]])
      PROVE  Settled'
  BY <1>1, <1>2, <1>4, QuietSettles
<1> HIDE DEF t
<1> USE DEF Fits, Paid, Locks, HasLocked, ForSession
<1>5. CASE Throws(r)
  <2>1. Goes(r, "catch") /\ at[r] # "commit"
    BY <1>5 DEF Throws
  <2>2. kind[r] = "create" => "catch" \in {"work", "commit", "catch"}
    OBVIOUS
  <2>3. QED BY <1>3, <1>4, <2>1, <2>2 DEF Outside
<1>6. CASE Credited(r)
  BY <1>3, <1>4, <1>6 DEF Credited, Outside
<1>7. CASE Announce(r)
  <2>1. PICK to \in {"mark", "catch"} : Goes(r, to) /\ at[r] = "credited"
    BY <1>7 DEF Announce
  <2>2. QED BY <1>3, <1>4, <2>1 DEF Outside
<1>8. CASE FinalizeOld(r) \/ Finalized(r) \/ ReadWallet(r) \/ HasWallet(r) \/ ReadGranted(r)
           \/ HasGranted(r)
  <2>1. PICK to \in ForSession : Goes(r, to)
    BY <1>8 DEF FinalizeOld, Finalized, ReadWallet, HasWallet, ReadGranted, HasGranted
  <2>2. kind[r] \in {"start", "bill"}
    BY <1>3, <1>8 DEF FinalizeOld, Finalized, ReadWallet, HasWallet, ReadGranted, HasGranted
  <2>3. at[r] \in ForSession \cup {"work"}
    BY <1>8 DEF FinalizeOld, Finalized, ReadWallet, HasWallet, ReadGranted, HasGranted
  <2>4. QED BY <1>3, <1>4, <2>1, <2>2, <2>3 DEF Outside
<1>9. CASE Enough(r)
  BY <1>3, <1>4, <1>9 DEF Enough, Outside
<1>10. QED BY <1>5, <1>6, <1>7, <1>8, <1>9

LEMMA StepSettles ==
  ASSUME PoolCorrect, DbTypeOK, Settled \/ refused, NEW r \in Requests, Step(r)
  PROVE  Settled' \/ refused'
<1> SUFFICES ASSUME ~refused' PROVE Settled'
  OBVIOUS
<1>1. ~refused /\ Settled
  BY RefusedStays DEF PoolCorrect
<1>2. ~NotFound(r) /\ ~RefuseSignature(r) /\ ~RefuseActive(r) /\ ~NoTokens(r)
  BY DEF NotFound, RefuseSignature, RefuseActive, NoTokens, RefuseInTry, ThrowInTry
<1>3. ~CatchAfterRelease(r)
  BY <1>1 DEF CatchAfterRelease, Local, PoolCorrect, MineInv
<1>4. QED
  BY <1>1, <1>2, <1>3, CallSettles, BeginSettles, CatchSettles, FinishSettles,
     StatementSettles, BetweenSettles DEF Step, Settle, StartOrBill

LEMMA InitialSettled == Init => Settled
<1> SUFFICES ASSUME Init PROVE Settled
  OBVIOUS
<1>1. /\ \A r \in Requests : ~Working(r)
      /\ \A o \in Orders : credited[o] = 0 /\ status[o] \in {"absent", "PENDING_PAYMENT"}
      /\ \A c \in Conns : open[c] = NoChange
  BY DEF Init, Working, Outside
<1>2. \A r \in Requests : kind[r] = "create" => status[order[r]] = "absent"
  BY DEF Init
<1>3. QED BY <1>1, <1>2, NoChangeType DEF Init, Settled

\* The tokens of an order are granted once, and with its status, as long as
\* nobody has thrown after a release.
THEOREM CreditedOnce == Spec => []CreditedExactlyOnce
<1>1. Init => Settled \/ refused
  BY InitialSettled
<1>2. PoolCorrect /\ DbTypeOK /\ (Settled \/ refused) /\ [Next]_vars => (Settled \/ refused)'
  <2> SUFFICES ASSUME PoolCorrect, DbTypeOK, Settled \/ refused, [Next]_vars
               PROVE  Settled' \/ refused'
    OBVIOUS
  <2>1. CASE UNCHANGED vars
    BY <2>1 DEF Settled, Working
  <2>2. QED BY <2>1, StepSettles DEF Next
<1>3. Settled \/ refused => CreditedExactlyOnce
  BY DEF Settled, CreditedExactlyOnce
<1>4. QED BY <1>1, <1>2, <1>3, PoolInvariant, DbInvariant, PTL DEF Spec
=============================================================================
