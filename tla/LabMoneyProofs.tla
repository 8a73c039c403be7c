--------------------------- MODULE LabMoneyProofs ---------------------------
(***************************************************************************)
(* The accounts of a lab session, for every number of sessions, requests   *)
(* and tokens and however long the system runs: the wallet is never        *)
(* overdrawn, the billed columns agree, the ledger stays within what was   *)
(* charged, what was charged stays within the minutes that passed, the     *)
(* sessions together stay within their wallet, an extension is paid once   *)
(* and a practical credit granted once. BillingKeepsAllocatedTime rests on *)
(* EndingInv, which relates the two ends a row has.                        *)
(*                                                                         *)
(* ChargesBounded is not inductive: a meter that is started again forgets  *)
(* the minutes that ran before, while BilledTokens keeps the tokens they   *)
(* cost. Meter says how the two go together: the tokens charged are        *)
(* covered by the time before the meter was last started and by what the   *)
(* row shows as billed, and, when the row shows more than has run since,   *)
(* by the whole minutes that have run.                                     *)
(***************************************************************************)
EXTENDS LabPlatformProofs, FiniteSetTheorems, WellFoundedInduction

USE DEF money, work, vars

\* Of a row x whose session has been charged c tokens, r of them for half
\* minutes rounded up, at time t.
Meter(x, c, r, t) ==
  /\ x.createdAt =< x.startedAt /\ x.startedAt =< t
  /\ x.billedTicks = 2 * x.billedTokens /\ x.billedTokens >= 0
  /\ x.status = "NONE" => c = 0
  /\ 2 * c =< (x.startedAt - x.createdAt) + x.billedTicks + 2 * r
  /\ x.billedTicks > t - x.startedAt =>
       2 * c =< (x.startedAt - x.createdAt) + 2 * ((t - x.startedAt) \div 2) + 2 * r

Metering == \A s \in Sessions : Meter(row[s], charged[s], rounded[s], now)

MoneyInv == NeverOverdrawn /\ LedgerWithinWallet /\ Metering

-----------------------------------------------------------------------------
(* The arithmetic of one session *)

LEMMA Halves ==
  ASSUME NEW e \in Nat
  PROVE  /\ e \div 2 \in Nat /\ e % 2 \in Nat
         /\ 2 * (e \div 2) + (e % 2) = e
         /\ e % 2 =< 1
         /\ 2 * (e \div 2) =< 2 * ((e + 1) \div 2)
OBVIOUS

\* Two rows with the same meter, the second of which is still in use if the
\* first one was.
SameMeter(x, y) ==
  /\ y.createdAt = x.createdAt /\ y.startedAt = x.startedAt
  /\ y.billedTokens = x.billedTokens /\ y.billedTicks = x.billedTicks
  /\ y.status = "NONE" => x.status = "NONE"

LEMMA MeterKept ==
  ASSUME NEW x, NEW y, NEW c, NEW r, NEW t, SameMeter(x, y), Meter(x, c, r, t)
  PROVE  Meter(y, c, r, t)
BY DEF SameMeter, Meter

LEMMA MeterTicks ==
  ASSUME NEW x \in SessionRow, NEW c \in Nat, NEW r \in Nat, NEW t \in Nat,
         Meter(x, c, r, t)
  PROVE  Meter(x, c, r, t + 1)
<1>1. /\ x.createdAt \in Nat /\ x.startedAt \in Nat /\ x.startedAt =< t
      /\ x.billedTicks \in Int
  BY DEF SessionRow, Meter
<1>2. PICK e \in Nat : e = t - x.startedAt
  BY <1>1
<1>3. (t + 1) - x.startedAt = e + 1
  BY <1>1, <1>2
<1>4. 2 * (e \div 2) =< 2 * ((e + 1) \div 2) /\ e \div 2 \in Nat /\ (e + 1) \div 2 \in Nat
  BY Halves
<1>5. x.billedTicks > e + 1 =>
        2 * c =< (x.startedAt - x.createdAt) + 2 * ((e + 1) \div 2) + 2 * r
  BY <1>1, <1>2, <1>4 DEF Meter
<1>6. QED BY <1>1, <1>3, <1>5 DEF Meter

\* The meter starts again: the minutes before it are accounted for.
LEMMA MeterStarted ==
  ASSUME now \in Nat, NEW x \in SessionRow, NEW c \in Nat, NEW r \in Nat,
         NEW n \in Nat, Meter(x, c, r, now), NEW y \in SessionRow,
         y.createdAt = x.createdAt, y.startedAt = now, y.status # "NONE",
         y.billedTokens = x.billedTokens, y.billedTicks = x.billedTicks
  PROVE  Meter(y, c, r, now)
<1>1. /\ x.createdAt \in Nat /\ x.startedAt \in Nat /\ x.startedAt =< now
      /\ x.createdAt =< x.startedAt /\ x.billedTicks \in Int /\ x.billedTokens \in Int
      /\ x.billedTicks = 2 * x.billedTokens /\ x.billedTokens >= 0
  BY DEF SessionRow, Meter
<1>2. PICK e \in Nat : e = now - x.startedAt
  BY <1>1
<1>3. 2 * (e \div 2) =< e /\ e \div 2 \in Nat
  BY Halves
<1>4. 2 * c =< (now - x.createdAt) + 2 * r
  <2>1. CASE x.billedTicks > e
    BY <1>1, <1>2, <1>3, <2>1 DEF Meter
  <2>2. CASE ~(x.billedTicks > e)
    BY <1>1, <1>2, <2>2 DEF Meter
  <2>3. QED BY <2>1, <2>2
<1>5. (now - y.startedAt) \div 2 = 0 /\ now - y.startedAt = 0
  BY <1>1
<1>6. QED BY <1>1, <1>4, <1>5 DEF Meter

LEMMA MeterNew ==
  ASSUME now \in Nat, NEW n \in Nat, NEW r \in Nat
  PROVE  Meter(NewRow(n), 0, r, now)
<1>1. /\ NewRow(n).createdAt = now /\ NewRow(n).startedAt = now
      /\ NewRow(n).billedTicks = 0 /\ NewRow(n).billedTokens = 0
  BY DEF NewRow, NoRow
<1>2. QED BY <1>1 DEF Meter

\* A billing cycle: n tokens, as many as the minutes not yet billed or as the
\* wallet has left; a negative n corrects the row and is not charged.
LEMMA MeterBilled ==
  ASSUME now \in Nat, NEW x \in SessionRow, NEW y \in SessionRow,
         NEW c \in Nat, NEW r \in Nat, NEW n \in Int, NEW e \in Nat,
         Meter(x, c, r, now), e = now - x.startedAt,
         n =< (e - x.billedTicks) \div 2,
         n >= 0 \/ n = (e - x.billedTicks) \div 2,
         y.createdAt = x.createdAt, y.startedAt = x.startedAt, y.status # "NONE",
         y.billedTokens = x.billedTokens + n, y.billedTicks = x.billedTicks + 2 * n
  PROVE  Meter(y, c + Greatest(0, n), r, now)
<1>1. /\ x.createdAt \in Nat /\ x.startedAt \in Nat /\ x.startedAt =< now
      /\ x.createdAt =< x.startedAt /\ x.billedTicks \in Int /\ x.billedTokens \in Nat
      /\ x.billedTicks = 2 * x.billedTokens
      /\ 2 * c =< (x.startedAt - x.createdAt) + x.billedTicks + 2 * r
      /\ x.billedTicks > e => 2 * c =< (x.startedAt - x.createdAt) + 2 * (e \div 2) + 2 * r
  BY DEF SessionRow, Meter
<1>2. (e - x.billedTicks) \div 2 = (e \div 2) - x.billedTokens
  BY <1>1
<1>3. 2 * (e \div 2) =< e /\ e \div 2 \in Nat
  BY Halves
<1>4. y.billedTicks =< e /\ y.billedTokens >= 0
  BY <1>1, <1>2, <1>3
<1>5. CASE n >= 0
  <2>1. Greatest(0, n) = n
    BY <1>5 DEF Greatest
  <2>2. QED BY <1>1, <1>4, <1>5, <2>1 DEF Meter
<1>6. CASE n < 0
  <2>1. Greatest(0, n) = 0
    BY <1>6 DEF Greatest
  <2>2. y.billedTicks = 2 * (e \div 2)
    BY <1>1, <1>2, <1>3, <1>6
  <2>3. x.billedTicks > e
    <3>1. e < 2 * (e \div 2) + 2
      BY Halves
    <3>2. QED BY <1>1, <1>2, <1>3, <1>6, <3>1
  <2>4. QED BY <1>1, <1>4, <2>1, <2>2, <2>3 DEF Meter
<1>7. QED BY <1>5, <1>6

\* The final charge, with a half minute rounded up.
LEMMA MeterFinal ==
  ASSUME now \in Nat, NEW x \in SessionRow, NEW y \in SessionRow,
         NEW c \in Nat, NEW r \in Nat, NEW n \in Nat, NEW e \in Nat,
         Meter(x, c, r, now), e = now - x.startedAt,
         n =< (e \div 2) + (e % 2) - x.billedTokens,
         y.createdAt = x.createdAt, y.startedAt = x.startedAt, y.status # "NONE",
         y.billedTokens = x.billedTokens + n, y.billedTicks = x.billedTicks + 2 * n
  PROVE  Meter(y, c + n, r + (e % 2), now)
<1>1. /\ x.createdAt \in Nat /\ x.startedAt \in Nat /\ x.startedAt =< now
      /\ x.createdAt =< x.startedAt /\ x.billedTicks \in Int /\ x.billedTokens \in Nat
      /\ x.billedTicks = 2 * x.billedTokens
      /\ 2 * c =< (x.startedAt - x.createdAt) + x.billedTicks + 2 * r
  BY DEF SessionRow, Meter
<1>2. e \div 2 \in Nat /\ e % 2 \in Nat
  BY Halves
<1>3. QED BY <1>1, <1>2 DEF Meter

-----------------------------------------------------------------------------
(* Steps that charge nothing *)

LEMMA RowKeeps ==
  ASSUME TypeOK, NEW s, NEW v, s \in Sessions => SameMeter(row[s], v),
         row' = [row EXCEPT ![s] = v]
  PROVE  \A t \in Sessions : SameMeter(row[t], row'[t])
BY DEF TypeOK, SameMeter

LEMMA StatusKeeps ==
  ASSUME TypeOK, NEW s, NEW st, st # "NONE", SetStatus(s, st)
  PROVE  \A t \in Sessions : SameMeter(row[t], row'[t])
<1>1. s \in Sessions => SameMeter(row[s], [row[s] EXCEPT !.status = st])
  BY DEF TypeOK, SessionRow, SameMeter
<1>2. QED BY <1>1, RowKeeps DEF SetStatus

LEMMA SameRow ==
  ASSUME row' = row
  PROVE  \A t \in Sessions : SameMeter(row[t], row'[t])
BY DEF SameMeter

LEMMA QuietStep ==
  ASSUME TypeOK, MoneyInv, NeverOverdrawn', UNCHANGED <<now, charged, rounded, booked>>,
         \A s \in Sessions : SameMeter(row[s], row'[s])
  PROVE  MoneyInv'
<1>1. \A s \in Sessions : Meter(row'[s], charged[s], rounded[s], now)
  BY MeterKept DEF MoneyInv, Metering
<1>2. QED BY <1>1 DEF MoneyInv, Metering, LedgerWithinWallet

LEMMA StartedStep ==
  ASSUME TypeOK, MoneyInv, UNCHANGED <<now, wallet, charged, rounded, booked>>,
         NEW s, NEW n, NEW v,
         s \in Sessions => n \in Nat /\ v \in {Started(row[s], n),
                                    [Started(row[s], n) EXCEPT !.status = "STOPPING"]},
         row' = [row EXCEPT ![s] = v]
  PROVE  MoneyInv'
<1>1. CASE s \in Sessions
  <2>1. row[s] \in SessionRow /\ now \in Nat /\ charged[s] \in Nat /\ rounded[s] \in Nat
    BY <1>1 DEF TypeOK
  <2>2. Started(row[s], n) \in SessionRow
    BY <1>1, <2>1, RowTypes
  <2>3. /\ v \in SessionRow /\ v.createdAt = row[s].createdAt /\ v.startedAt = now
        /\ v.status # "NONE" /\ v.billedTokens = row[s].billedTokens
        /\ v.billedTicks = row[s].billedTicks
    <3>1. CASE v = Started(row[s], n)
      BY <2>1, <2>2, <3>1 DEF Started, SessionRow
    <3>2. CASE v = [Started(row[s], n) EXCEPT !.status = "STOPPING"]
      <4>1. v \in SessionRow
        BY <2>1, <2>2, <3>2, RowTypes, StatusNames
      <4>2. QED BY <2>1, <3>2, <4>1 DEF Started, SessionRow
    <3>3. QED BY <1>1, <3>1, <3>2
  <2>4. Meter(v, charged[s], rounded[s], now)
    BY <1>1, <2>1, <2>3, MeterStarted DEF MoneyInv, Metering
  <2>5. \A t \in Sessions : Meter(row'[t], charged[t], rounded[t], now)
    BY <2>4 DEF MoneyInv, Metering, TypeOK
  <2>6. QED BY <2>5 DEF MoneyInv, Metering, LedgerWithinWallet, NeverOverdrawn
<1>2. CASE s \notin Sessions
  <2>1. row' = row
    BY <1>2 DEF TypeOK
  <2>2. QED BY <2>1 DEF MoneyInv, Metering, LedgerWithinWallet, NeverOverdrawn
<1>3. QED BY <1>1, <1>2

-----------------------------------------------------------------------------
(* Steps that charge *)

LEMMA BillMinutesStep ==
  ASSUME TypeOK, TypeOK', MoneyInv, NEW s \in Sessions, BillMinutes(s), now' = now
  PROVE  MoneyInv'
<1> DEFINE x == row[s]
           e == now - x.startedAt
           n == Payable(Unbilled(s))
<1>1. /\ x \in SessionRow /\ x.startedAt \in Nat /\ x.billedTicks \in Int
      /\ x.billedTokens \in Int /\ now \in Nat /\ charged[s] \in Nat
      /\ rounded[s] \in Nat /\ booked[s] \in Nat
  BY DEF TypeOK, SessionRow
<1>2. Meter(x, charged[s], rounded[s], now) /\ booked[s] =< charged[s]
  BY DEF MoneyInv, Metering, LedgerWithinWallet
<1>3. e \in Nat /\ Elapsed(s) = e
  BY <1>1, <1>2 DEF Meter, Elapsed, Greatest
<1>4. /\ n \in Int /\ n =< (e - x.billedTicks) \div 2
      /\ n >= 0 \/ n = (e - x.billedTicks) \div 2
      /\ n =< Remaining(wallet)
  BY <1>1, <1>3, ChargeType DEF Unbilled, Payable, Least
<1>5. /\ row'[s] \in SessionRow /\ row'[s].createdAt = x.createdAt
      /\ row'[s].startedAt = x.startedAt /\ row'[s].status # "NONE"
      /\ row'[s].billedTokens = x.billedTokens + n
      /\ row'[s].billedTicks = x.billedTicks + 2 * n
  <2>1. row'[s] \in SessionRow
    BY DEF TypeOK
  <2>2. PICK low, st : /\ row' = [row EXCEPT ![s] =
                              [Billed(x, n) EXCEPT !.warned = low, !.status = st]]
                       /\ st # "NONE"
    BY DEF BillMinutes, Metered
  <2>3. QED
    <3> HIDE DEF n
    <3> QED BY <1>1, <2>1, <2>2 DEF TypeOK, Billed, SessionRow
<1>6. \A t \in Sessions \ {s} : row'[t] = row[t]
  BY DEF BillMinutes, TypeOK
<1>7. Meter(row'[s], charged[s] + Greatest(0, n), rounded[s], now)
  <2> HIDE DEF n, e
  <2> QED BY <1>1, <1>2, <1>3, <1>4, <1>5, MeterBilled DEF e
<1>8. /\ charged' = [charged EXCEPT ![s] = @ + Greatest(0, n)]
      /\ rounded' = rounded /\ NeverOverdrawn'
      /\ booked'[s] =< charged'[s]
      /\ \A t \in Sessions \ {s} : booked'[t] = booked[t]
  <2>1. rounded' = rounded
    BY DEF BillMinutes
  <2>2. CASE n > 0
    <3>1. PICK seq : Consume(s, n, <<seq, "bill">>)
      BY <2>2 DEF BillMinutes
    <3>2. Greatest(0, n) = n
      BY <1>4, <2>2 DEF Greatest
    <3>3. NeverOverdrawn'
      <4> HIDE DEF n
      <4> QED BY <1>4, <2>2, <3>1
            DEF Consume, MoneyInv, NeverOverdrawn, Remaining, TypeOK
    <3>4. charged' = [charged EXCEPT ![s] = @ + Greatest(0, n)]
      BY <3>1, <3>2 DEF Consume
    <3>5. /\ booked'[s] =< charged'[s]
          /\ \A t \in Sessions \ {s} : booked'[t] = booked[t]
      <4>1. booked' = [booked EXCEPT ![s] = Booked(s, n, <<seq, "bill">>)]
        BY <3>1 DEF Consume
      <4>2. Booked(s, n, <<seq, "bill">>) =< charged[s] + n
        <5> HIDE DEF n
        <5> QED BY <1>1, <1>2, <1>4, <2>2 DEF Booked
      <4>3. charged'[s] = charged[s] + n
        BY <3>1 DEF Consume, TypeOK
      <4>4. QED BY <4>1, <4>2, <4>3 DEF TypeOK
    <3>6. QED BY <2>1, <3>3, <3>4, <3>5
  <2>3. CASE ~(n > 0)
    <3>1. NoCharge
      BY <2>3 DEF BillMinutes
    <3>2. Greatest(0, n) = 0
      BY <1>4, <2>3 DEF Greatest
    <3>3. QED
      <4> HIDE DEF n
      <4> QED BY <1>1, <1>2, <2>1, <3>1, <3>2 DEF NoCharge, MoneyInv, NeverOverdrawn, TypeOK
  <2>4. QED BY <2>2, <2>3
<1>9. QED
  <2> HIDE DEF n, e
  <2>1. Metering'
    BY <1>1, <1>4, <1>6, <1>7, <1>8 DEF MoneyInv, Metering, TypeOK
  <2>2. LedgerWithinWallet'
    BY <1>4, <1>8 DEF MoneyInv, LedgerWithinWallet, TypeOK
  <2>3. QED BY <1>8, <2>1, <2>2 DEF MoneyInv

LEMMA FinalizeStep ==
  ASSUME TypeOK, TypeOK', MoneyInv, NEW s \in Sessions, FinalizeBilling(s), now' = now
  PROVE  MoneyInv'
<1> DEFINE x == row[s]
           e == now - x.startedAt
           n == IF HasWallet THEN Payable(Outstanding(s)) ELSE 0
<1>1. /\ x \in SessionRow /\ x.startedAt \in Nat /\ x.billedTicks \in Int
      /\ x.billedTokens \in Int /\ now \in Nat /\ charged[s] \in Nat
      /\ rounded[s] \in Nat /\ booked[s] \in Nat
  BY DEF TypeOK, SessionRow
<1>2. Meter(x, charged[s], rounded[s], now) /\ booked[s] =< charged[s]
  BY DEF MoneyInv, Metering, LedgerWithinWallet
<1>3. e \in Nat /\ Elapsed(s) = e
  BY <1>1, <1>2 DEF Meter, Elapsed, Greatest
<1>4. CASE NoCharge /\ rounded' = rounded /\ (row' = row \/ SetStatus(s, "STOPPING"))
  <2>1. \A t \in Sessions : SameMeter(row[t], row'[t])
    BY <1>4, SameRow, StatusKeeps
  <2>2. NeverOverdrawn'
    BY <1>4 DEF MoneyInv, NeverOverdrawn, NoCharge
  <2>3. QED BY <1>4, <2>1, <2>2, QuietStep DEF NoCharge
<1>5. ASSUME n > 0, NEW seq, Consume(s, n, <<seq, "final">>),
             row' = [row EXCEPT ![s] = [Billed(x, n) EXCEPT !.status = "STOPPING"]],
             rounded' = [rounded EXCEPT ![s] = @ + (Elapsed(s) % 2)]
      PROVE MoneyInv'
  <2>1. /\ n \in Nat /\ n =< Remaining(wallet)
        /\ n =< (e \div 2) + (e % 2) - x.billedTokens
    <3>1. Payable(Outstanding(s)) > 0 /\ n = Payable(Outstanding(s))
      BY <1>5
    <3>2. n \in Int /\ n =< Outstanding(s) /\ n =< Remaining(wallet)
      BY <3>1, ChargeType DEF Payable, Least
    <3>3. Outstanding(s) = (e \div 2) + (e % 2) - x.billedTokens
      BY <1>1, <1>3, <1>5, <3>1, <3>2, Halves
         DEF Outstanding, RoundedMinutes, Greatest
    <3>4. QED BY <1>5, <3>2, <3>3
  <2>2. /\ row'[s] \in SessionRow /\ row'[s].createdAt = x.createdAt
        /\ row'[s].startedAt = x.startedAt /\ row'[s].status # "NONE"
        /\ row'[s].billedTokens = x.billedTokens + n
        /\ row'[s].billedTicks = x.billedTicks + 2 * n
    <3>1. row'[s] \in SessionRow
      BY DEF TypeOK
    <3>2. QED
      <4> HIDE DEF n
      <4> QED BY <1>1, <1>5, <2>1, <3>1 DEF TypeOK, Billed, SessionRow
  <2>3. Meter(row'[s], charged[s] + n, rounded[s] + (e % 2), now)
    <3> HIDE DEF n, e
    <3> QED BY <1>1, <1>2, <1>3, <2>1, <2>2, MeterFinal DEF e
  <2>4. charged'[s] = charged[s] + n /\ rounded'[s] = rounded[s] + (e % 2)
    BY <1>3, <1>5 DEF Consume, TypeOK
  <2>5. \A t \in Sessions \ {s} : /\ row'[t] = row[t] /\ charged'[t] = charged[t]
                                /\ rounded'[t] = rounded[t] /\ booked'[t] = booked[t]
    BY <1>5 DEF Consume, TypeOK
  <2>6. Metering'
    <3> HIDE DEF n, e
    <3> QED BY <2>3, <2>4, <2>5 DEF MoneyInv, Metering
  <2>7. NeverOverdrawn'
    <3> HIDE DEF n
    <3> QED BY <1>5, <2>1 DEF Consume, MoneyInv, NeverOverdrawn, Remaining, TypeOK
  <2>8. LedgerWithinWallet'
    <3>1. booked' = [booked EXCEPT ![s] = Booked(s, n, <<seq, "final">>)]
      BY <1>5 DEF Consume
    <3>2. Booked(s, n, <<seq, "final">>) =< charged[s] + n
      <4> HIDE DEF n
      <4> QED BY <1>1, <1>2, <2>1 DEF Booked
    <3>3. QED
      <4> HIDE DEF n
      <4> QED BY <2>4, <2>5, <3>1, <3>2 DEF MoneyInv, LedgerWithinWallet, TypeOK
  <2>9. QED BY <2>6, <2>7, <2>8 DEF MoneyInv
<1>6. QED BY <1>4, <1>5 DEF FinalizeBilling

LEMMA WorkerMoney ==
  ASSUME TypeOK, TypeOK', MoneyInv, Workers
  PROVE  MoneyInv'
<1>1. ASSUME NEW s \in Sessions, BillSession(s) PROVE MoneyInv'
  <2>1. now' = now
    BY <1>1 DEF BillSession
  <2>2. CASE Promote(s)
    <3>1. row[s].allocated \in Nat
      BY DEF TypeOK, SessionRow
    <3>2. UNCHANGED <<now, wallet, charged, rounded, booked>>
      BY <2>1, <2>2 DEF Promote, NoCharge
    <3>3. QED BY <2>2, <3>1, <3>2, StartedStep DEF Promote
  <2>3. CASE BillNothingLeft(s)
    <3>1. UNCHANGED <<now, wallet, charged, rounded, booked>>
      BY <2>1, <2>3 DEF BillNothingLeft, NoCharge
    <3>2. \A t \in Sessions : SameMeter(row[t], row'[t])
      BY <2>3, StatusKeeps DEF BillNothingLeft, Exhaust
    <3>3. QED BY <3>1, <3>2, QuietStep DEF MoneyInv, NeverOverdrawn
  <2>4. CASE BillMinutes(s)
    BY <2>1, <2>4, BillMinutesStep
  <2>5. QED BY <1>1, <2>2, <2>3, <2>4 DEF BillSession
<1>2. ASSUME UNCHANGED <<now, money>>, \A t \in Sessions : SameMeter(row[t], row'[t])
      PROVE MoneyInv'
  <2>1. NeverOverdrawn'
    BY <1>2 DEF MoneyInv, NeverOverdrawn
  <2>2. QED BY <1>2, <2>1, QuietStep
<1>3. ASSUME NEW s \in Sessions,
             \/ ProcessStopCall(s) \/ StopCycle(s) \/ LapseCall(s)
             \/ SyncList(s) \/ CleanupRecord(s)
      PROVE MoneyInv'
  BY <1>2, <1>3, SameRow
     DEF ProcessStopCall, StopCycle, LapseCall, SyncList, CleanupRecord
<1>4. ASSUME NEW s \in Sessions,
             ProcessStopWrite(s) \/ ExpiryStop(s) \/ LapseMark(s) \/ SyncMark(s)
      PROVE MoneyInv'
  <2>1. UNCHANGED <<now, money>>
    BY <1>4 DEF ProcessStopWrite, ExpiryStop, LapseMark, SyncMark
  <2>2. row' = row \/ SetStatus(s, "STOPPED") \/ SetStatus(s, "STOPPING")
          \/ SetStatus(s, "EXPIRED")
    BY <1>4 DEF ProcessStopWrite, ExpiryStop, Exhaust, LapseMark, SyncMark
  <2>3. QED BY <1>2, <2>1, <2>2, SameRow, StatusKeeps
<1>5. CASE ExpiryScan \/ LapseScan
  BY <1>2, <1>5, SameRow DEF ExpiryScan, LapseScan
<1>6. QED BY <1>1, <1>3, <1>4, <1>5 DEF Workers

LEMMA EnvironmentMoney ==
  ASSUME TypeOK, TypeOK', MoneyInv, Environment
  PROVE  MoneyInv'
<1>1. CASE Tick
  <2>1. now' = now + 1 /\ UNCHANGED <<row, money>>
    BY <1>1 DEF Tick
  <2>2. \A s \in Sessions : Meter(row[s], charged[s], rounded[s], now + 1)
    BY MeterTicks DEF TypeOK, MoneyInv, Metering
  <2>3. QED BY <2>1, <2>2 DEF MoneyInv, Metering, NeverOverdrawn, LedgerWithinWallet
<1>2. CASE ~Tick
  <2>1. UNCHANGED <<now, row, money>>
    BY <1>2 DEF Environment, Restart, TaskUp, TaskDies
  <2>2. QED BY <2>1 DEF MoneyInv, Metering, NeverOverdrawn, LedgerWithinWallet
<1>3. QED BY <1>1, <1>2

LEMMA StartCommitMoney ==
  ASSUME TypeOK, TypeOK', MoneyInv, NEW r \in Requests, StartCommit(r)
  PROVE  MoneyInv'
<1> DEFINE q == req[r]
<1>1. PICK n \in Nat, s \in Sessions :
        row[s].status = "NONE" /\ row' = [Reset(q, row) EXCEPT ![s] = NewRow(n)]
  BY StartForm
<1>2. UNCHANGED <<now, charged, rounded, booked>>
  BY DEF StartCommit
<1>3. NeverOverdrawn'
  <2>1. /\ wallet.purchased \in Nat /\ wallet.consumed \in Nat /\ wallet'.purchased \in Nat
        /\ wallet.consumed =< wallet.purchased
    BY DEF TypeOK, MoneyInv, NeverOverdrawn
  <2>2. wallet'.consumed = wallet.consumed /\ wallet'.purchased >= wallet.purchased
    BY StartWallet
  <2>3. QED BY <2>1, <2>2 DEF NeverOverdrawn
<1>4. \A t \in Sessions \ {s} : SameMeter(row[t], row'[t])
  <2>1. \A t \in Sessions : SameMeter(row[t], Reset(q, row)[t])
    BY DEF Reset, SameMeter, TypeOK, SessionRow
  <2>2. \A t \in Sessions \ {s} : row'[t] = Reset(q, row)[t]
    BY <1>1 DEF Reset, TypeOK
  <2>3. QED BY <2>1, <2>2
<1>5. Meter(row'[s], charged[s], rounded[s], now)
  <2>1. charged[s] = 0
    BY <1>1 DEF MoneyInv, Metering, Meter
  <2>2. row'[s] = NewRow(n)
    BY <1>1 DEF Reset, TypeOK
  <2>3. now \in Nat /\ rounded[s] \in Nat
    BY DEF TypeOK
  <2>4. QED BY <2>1, <2>2, <2>3, MeterNew
<1>6. Metering'
  BY <1>2, <1>4, <1>5, MeterKept DEF MoneyInv, Metering
<1>7. QED BY <1>2, <1>3, <1>6 DEF MoneyInv, LedgerWithinWallet

LEMMA HandlerMoney ==
  ASSUME TypeOK, TypeOK', MoneyInv, Handlers
  PROVE  MoneyInv'
<1>1. ASSUME UNCHANGED <<now, wallet, charged, rounded, booked>>,
             \A t \in Sessions : SameMeter(row[t], row'[t])
      PROVE MoneyInv'
  <2>1. NeverOverdrawn'
    BY <1>1 DEF MoneyInv, NeverOverdrawn
  <2>2. QED BY <1>1, <2>1, QuietStep
<1>2. ASSUME NEW r \in Requests,
             \/ StartCheck(r) \/ StartRefuse(r) \/ StartLaunch(r) \/ StopTask(r)
             \/ ListRead(r)
             \/ \E s \in Sessions : GetRead(r, s)
             \/ \E s \in Sessions, k \in ExtKeys : ExtendRead(r, s, k)
      PROVE MoneyInv'
  BY <1>1, <1>2, SameRow
     DEF StartCheck, StartRefuse, StartLaunch, StopTask, ListRead, GetRead, ExtendRead
<1>3. ASSUME NEW r \in Requests,
             \/ StartFails(r) \/ GetMark(r) \/ GetDead(r) \/ GetAnswer(r)
             \/ StopMark(r) \/ ListFinish(r)
      PROVE MoneyInv'
  <2>1. UNCHANGED <<now, money>>
    BY <1>3 DEF StartFails, GetMark, GetDead, GetAnswer, StopMark, ListFinish
  <2>2. row' = row \/ \E s, st : st # "NONE" /\ SetStatus(s, st)
    BY <1>3 DEF StartFails, GetMark, Mark, GetDead, GetAnswer, StopMark, ListFinish
  <2>3. QED BY <1>1, <2>1, <2>2, SameRow, StatusKeeps
<1>4. ASSUME NEW r \in Requests, StartLocal(r) \/ GetRunning(r) PROVE MoneyInv'
  <2> DEFINE q == req[r]
  <2>1. row' = [row EXCEPT ![q.sid] = Started(row[q.sid], q.allocated)]
    BY <1>4 DEF StartLocal, GetRunning
  <2>2. UNCHANGED <<now, wallet, charged, rounded, booked>>
    BY <1>4 DEF StartLocal, GetRunning
  <2>3. q.allocated \in Nat
    BY RequestFields
  <2>4. QED BY <2>1, <2>2, <2>3, StartedStep
<1>5. ASSUME NEW r \in Requests, StartSaveArn(r) PROVE MoneyInv'
  <2> DEFINE q == req[r]
             v == [row[q.sid] EXCEPT !.arn = TRUE]
  <2>1. q.sid \in Sessions => SameMeter(row[q.sid], v)
    BY DEF TypeOK, SessionRow, SameMeter
  <2>2. row' = [row EXCEPT ![q.sid] = v] /\ UNCHANGED <<now, money>>
    BY <1>5 DEF StartSaveArn
  <2>3. QED
    <3> HIDE DEF v, q
    <3> QED BY <1>1, <2>1, <2>2, RowKeeps
<1>6. ASSUME NEW r \in Requests, ExtendCommit(r) PROVE MoneyInv'
  <2> DEFINE q == req[r]
  <2>1. CASE UNCHANGED <<row, money>>
    BY <1>1, <1>6, <2>1, SameRow DEF ExtendCommit
  <2>2. CASE ~UNCHANGED <<row, money>>
    <3>1. PICK a, x : row' = [row EXCEPT ![q.sid] =
              [row[q.sid] EXCEPT !.status = "RUNNING", !.allocated = a, !.expiresAt = x]]
      BY <1>6, <2>2 DEF ExtendCommit
    <3>2. q.sid \in Sessions => SameMeter(row[q.sid],
              [row[q.sid] EXCEPT !.status = "RUNNING", !.allocated = a, !.expiresAt = x])
      BY DEF TypeOK, SessionRow, SameMeter
    <3>3. \A t \in Sessions : SameMeter(row[t], row'[t])
      BY <3>1, <3>2, RowKeeps
    <3>4. UNCHANGED <<now, wallet, charged, rounded, booked>>
      BY <1>6 DEF ExtendCommit
    <3>5. QED BY <1>1, <3>3, <3>4
  <2>3. QED BY <2>1, <2>2
<1>7. ASSUME NEW r \in Requests, NEW s \in Sessions, StopBilling(r, s) PROVE MoneyInv'
  <2>1. CASE FinalizeBilling(s)
    BY <1>7, <2>1, FinalizeStep DEF StopBilling
  <2>2. CASE UNCHANGED <<row, money>>
    BY <1>1, <1>7, <2>2, SameRow DEF StopBilling
  <2>3. QED BY <1>7, <2>1, <2>2 DEF StopBilling
<1>8. CASE BuyTokens
  <2>1. NeverOverdrawn'
    BY <1>8, AmountsAssumption DEF BuyTokens, MoneyInv, NeverOverdrawn, TypeOK
  <2>2. UNCHANGED <<now, row, charged, rounded, booked>>
    BY <1>8 DEF BuyTokens
  <2>3. QED BY <2>1, <2>2, SameRow, QuietStep
<1>9. ASSUME NEW r \in Requests, SaveArnFails(r) PROVE MoneyInv'
  <2>1. PICK arn, st :
          /\ st \in {row[req[r].sid].status, "FAILED"}
          /\ row' = [row EXCEPT ![req[r].sid] =
                       [row[req[r].sid] EXCEPT !.arn = arn, !.status = st]]
    BY <1>9 DEF SaveArnFails
  <2> DEFINE s == req[r].sid
             v == [row[s] EXCEPT !.arn = arn, !.status = st]
  <2>2. s \in Sessions => SameMeter(row[s], v)
    BY <2>1 DEF TypeOK, SessionRow, SameMeter
  <2>3. row' = [row EXCEPT ![s] = v] /\ UNCHANGED <<now, money>>
    BY <1>9, <2>1 DEF SaveArnFails
  <2>4. QED
    <3> HIDE DEF v, s
    <3> QED BY <1>1, <2>2, <2>3, RowKeeps
<1>10. QED
  BY <1>2, <1>3, <1>4, <1>5, <1>6, <1>7, <1>8, <1>9, StartCommitMoney DEF Handlers

-----------------------------------------------------------------------------
(* The theorems *)

LEMMA InitialMoney == Init => MoneyInv
BY AmountsAssumption
   DEF Init, NoRow, MoneyInv, NeverOverdrawn, LedgerWithinWallet, Metering, Meter

LEMMA MoneyStep == TypeOK /\ TypeOK' /\ MoneyInv /\ [Next]_vars => MoneyInv'
<1> SUFFICES ASSUME TypeOK, TypeOK', MoneyInv, [Next]_vars PROVE MoneyInv'
  OBVIOUS
<1>1. CASE UNCHANGED vars
  BY <1>1 DEF MoneyInv, NeverOverdrawn, LedgerWithinWallet, Metering
<1>2. QED
  BY <1>1, HandlerMoney, WorkerMoney, EnvironmentMoney DEF Next

THEOREM MoneyInvariant == Spec => []MoneyInv
BY TypeCorrect, InitialMoney, MoneyStep, PTL DEF Spec

LEMMA WithinTime == TypeOK /\ MoneyInv => ChargesBounded
<1> SUFFICES ASSUME TypeOK, MoneyInv, NEW s \in Sessions
             PROVE 2 * charged[s] =< (now - row[s].createdAt) + 2 * rounded[s]
  BY DEF ChargesBounded
<1>1. /\ row[s].createdAt \in Nat /\ row[s].startedAt \in Nat /\ now \in Nat
      /\ row[s].billedTicks \in Int /\ charged[s] \in Nat /\ rounded[s] \in Nat
  BY DEF TypeOK, SessionRow
<1>2. Meter(row[s], charged[s], rounded[s], now)
  BY DEF MoneyInv, Metering
<1>3. PICK e \in Nat : e = now - row[s].startedAt
  BY <1>1, <1>2 DEF Meter
<1>4. 2 * (e \div 2) =< e /\ e \div 2 \in Nat
  BY Halves
<1>5. CASE row[s].billedTicks > e
  BY <1>1, <1>2, <1>3, <1>4, <1>5 DEF Meter
<1>6. CASE ~(row[s].billedTicks > e)
  BY <1>1, <1>2, <1>3, <1>6 DEF Meter
<1>7. QED BY <1>5, <1>6

\* No interleaving of billing cycles, finalizations, grants and purchases
\* over the sessions of a wallet makes it give up more than was bought.
THEOREM WalletNeverOverdrawn == Spec => []NeverOverdrawn
BY MoneyInvariant, PTL DEF MoneyInv

\* What billSession and finalizeSessionBilling keep in BilledTokens and in
\* the unsigned BilledSeconds agrees, however often the meter is restarted.
THEOREM BilledColumnsAlwaysAgree == Spec => []BilledColumnsAgree
<1>1. MoneyInv => BilledColumnsAgree
  BY DEF MoneyInv, Metering, Meter, BilledColumnsAgree
<1>2. QED BY <1>1, MoneyInvariant, PTL

\* The ledger never shows usage the wallet did not pay for.
THEOREM LedgerNeverExceedsWallet == Spec => []LedgerWithinWallet
BY MoneyInvariant, PTL DEF MoneyInv

\* No minute of a session is charged twice, and none before it was created.
THEOREM ChargesNeverExceedTime == Spec => []ChargesBounded
BY TypeCorrect, MoneyInvariant, WithinTime, PTL

\* Only a session that was metered when a step began is charged by it: not
\* one whose container is STARTING and not one that is over.
THEOREM OnlyMeteredAreCharged == Spec => ChargedOnlyWhileMetered
<1> DEFINE Good == \A s \in Sessions : charged'[s] # charged[s] => row[s].status \in Metered
<1>1. TypeOK /\ [Next]_vars => Good
  <2> SUFFICES ASSUME TypeOK, [Next]_vars, charged' # charged PROVE Good
    OBVIOUS
  <2>1. \/ \E s \in Sessions : BillSession(s)
        \/ \E s \in Sessions : FinalizeBilling(s)
    BY DEF Next, Handlers, Workers, Environment, StartCheck, StartRefuse, StartCommit,
           StartLocal, StartLaunch, StartFails, StartSaveArn, SaveArnFails, GetRead, GetMark,
           GetDead, GetRunning, GetAnswer, ExtendRead, ExtendCommit, StopBilling, StopTask,
           StopMark, ListRead, ListFinish, BuyTokens, ProcessStopCall,
           ProcessStopWrite, StopCycle, ExpiryScan, ExpiryStop, LapseScan, LapseCall,
           LapseMark, SyncList, SyncMark, CleanupRecord, Tick, Restart, TaskUp, TaskDies
  <2>2. ASSUME NEW s \in Sessions, row[s].status \in Metered,
               \E n, key : Consume(s, n, key)
        PROVE  Good
    BY <2>2 DEF Consume, TypeOK
  <2>3. ASSUME NEW s \in Sessions, BillSession(s) PROVE Good
    BY <2>2, <2>3 DEF BillSession, Promote, BillNothingLeft, BillMinutes, NoCharge
  <2>4. ASSUME NEW s \in Sessions, FinalizeBilling(s) PROVE Good
    <3> DEFINE n == IF HasWallet THEN Payable(Outstanding(s)) ELSE 0
    <3>1. n > 0 /\ \E m, key : Consume(s, m, key)
      BY <2>4 DEF FinalizeBilling, NoCharge
    <3>2. Outstanding(s) > 0
      BY <3>1, ChargeType
    <3>3. row[s].status \in Metered
      BY <3>2 DEF Outstanding
    <3>4. QED BY <2>2, <3>1, <3>3
  <2>5. QED BY <2>1, <2>3, <2>4
<1>2. QED BY <1>1, TypeCorrect, PTL DEF Spec, ChargedOnlyWhileMetered

-----------------------------------------------------------------------------
(* Sums over finite sets *)

Below == {p \in Nat \X Nat : p[1] < p[2]}

\* Induction with a set of numbers in the place of a predicate.
LEMMA Counting ==
  ASSUME NEW P \in SUBSET Nat, 0 \in P, \A n \in P : n + 1 \in P
  PROVE  P = Nat
<1> SUFFICES ASSUME Nat \ P # {} PROVE FALSE
  OBVIOUS
<1>1. IsWellFoundedOn(Below, Nat)
  BY NatLessThanWellFounded DEF OpToRel, Below
<1>2. PICK n \in Nat \ P : \A m \in Nat \ P : ~(<<m, n>> \in Below)
  <2>1. Nat \ P \subseteq Nat
    OBVIOUS
  <2>2. QED BY <1>1, <2>1, WFMin
<1>3. n - 1 \in Nat /\ n - 1 < n
  OBVIOUS
<1>4. <<n - 1, n>> \in Below
  BY <1>3 DEF Below
<1>5. n - 1 \in P
  BY <1>2, <1>3, <1>4
<1>6. QED BY <1>5

\* The member a fold takes out of T first, and the fold's equation at T.
One(T) == CHOOSE x \in T : TRUE
Folds(g, f, T) == g[T] = IF T = {} THEN 0 ELSE f[One(T)] + g[T \ {One(T)}]

\* A fold over all subsets of S, as a recursive function defines it.
IsFold(g, f, S) ==
  g = [T \in SUBSET S |-> IF T = {} THEN 0 ELSE f[One(T)] + g[T \ {One(T)}]]

LEMMA OneOf ==
  ASSUME NEW S, IsFiniteSet(S), NEW T \in SUBSET S, T # {}
  PROVE  /\ One(T) \in T /\ T \ {One(T)} \in SUBSET S
         /\ Cardinality(T) \in Nat /\ Cardinality(T) > 0
         /\ Cardinality(T \ {One(T)}) = Cardinality(T) - 1
<1>1. One(T) \in T
  BY DEF One
<1>2. IsFiniteSet(T)
  BY FS_Subset
<1>3. QED BY <1>1, <1>2, FS_RemoveElement, FS_EmptySet, FS_CardinalityType

LEMMA NoneOf ==
  ASSUME NEW S, IsFiniteSet(S), NEW T \in SUBSET S, Cardinality(T) =< 0
  PROVE  T = {}
<1> SUFFICES ASSUME T # {} PROVE FALSE
  OBVIOUS
<1>1. Cardinality(T) \in Nat /\ Cardinality(T) > 0
  BY OneOf
<1>2. QED BY <1>1

\* Induction over the subsets of a finite set, one member at a time.
LEMMA OneByOne ==
  ASSUME NEW S, IsFiniteSet(S), NEW P \in SUBSET (SUBSET S), {} \in P,
         \A T \in SUBSET S : T # {} /\ T \ {One(T)} \in P => T \in P
  PROVE  P = SUBSET S
<1> DEFINE Q == {n \in Nat : \A T \in SUBSET S : Cardinality(T) =< n => T \in P}
<1>1. 0 \in Q
  <2>1. ASSUME NEW T \in SUBSET S, Cardinality(T) =< 0 PROVE T \in P
    <3>1. T = {}
      BY <2>1, NoneOf
    <3>2. QED BY <3>1
  <2>2. QED BY <2>1
<1>2. ASSUME NEW n \in Q PROVE n + 1 \in Q
  <2>1. ASSUME NEW T \in SUBSET S, Cardinality(T) =< n + 1 PROVE T \in P
    <3>1. CASE T # {}
      <4>1. T \ {One(T)} \in SUBSET S /\ Cardinality(T \ {One(T)}) =< n
        BY <2>1, <3>1, OneOf
      <4>2. QED BY <3>1, <4>1
    <3>2. QED BY <3>1
  <2>2. QED BY <2>1
<1>3. Q = Nat
  <2>1. Q \in SUBSET Nat
    OBVIOUS
  <2> HIDE DEF Q
  <2>2. QED BY <1>1, <1>2, <2>1, Counting
<1>4. ASSUME NEW T \in SUBSET S PROVE T \in P
  <2>1. Cardinality(T) \in Nat
    BY FS_Subset, FS_CardinalityType
  <2>2. QED BY <1>3, <2>1
<1>5. QED BY <1>4

\* A fold of integers is an integer, and there is one.
LEMMA FoldsType ==
  ASSUME NEW S, IsFiniteSet(S), NEW f \in [S -> Int], NEW g,
         \A T \in SUBSET S : Folds(g, f, T)
  PROVE  \A T \in SUBSET S : g[T] \in Int
<1> DEFINE P == {T \in SUBSET S : g[T] \in Int}
<1>1. {} \in P
  <2>1. Folds(g, f, {})
    OBVIOUS
  <2>2. QED BY <2>1 DEF Folds
<1>2. ASSUME NEW T \in SUBSET S, T # {}, T \ {One(T)} \in P PROVE T \in P
  <2>1. One(T) \in S
    BY <1>2, OneOf
  <2>2. g[T] = f[One(T)] + g[T \ {One(T)}]
    BY <1>2 DEF Folds
  <2>3. QED BY <1>2, <2>1, <2>2
<1>3. P = SUBSET S
  <2>1. P \in SUBSET (SUBSET S)
    OBVIOUS
  <2> HIDE DEF P
  <2>2. QED BY <1>1, <1>2, <2>1, OneByOne
<1>4. QED BY <1>3

LEMMA FoldExists ==
  ASSUME NEW S, IsFiniteSet(S), NEW f \in [S -> Int]
  PROVE  \E g : IsFold(g, f, S)
<1> DEFINE P == {n \in Nat : \E g : \A T \in SUBSET S : Cardinality(T) =< n => Folds(g, f, T)}
<1>1. 0 \in P
  <2> DEFINE z == [T \in SUBSET S |-> 0]
  <2>1. ASSUME NEW T \in SUBSET S, Cardinality(T) =< 0 PROVE Folds(z, f, T)
    <3>1. T = {}
      BY <2>1, NoneOf
    <3>2. QED BY <3>1 DEF Folds
  <2>2. QED
    <3> HIDE DEF z
    <3> QED BY <2>1
<1>2. ASSUME NEW n \in P PROVE n + 1 \in P
  <2>1. PICK g : \A T \in SUBSET S : Cardinality(T) =< n => Folds(g, f, T)
    BY <1>2
  <2> DEFINE h == [T \in SUBSET S |-> IF T = {} THEN 0 ELSE f[One(T)] + g[T \ {One(T)}]]
  <2>2. ASSUME NEW T \in SUBSET S, Cardinality(T) =< n + 1 PROVE Folds(h, f, T)
    <3>1. CASE T = {}
      BY <3>1 DEF Folds
    <3>2. CASE T # {}
      <4> DEFINE U == T \ {One(T)}
      <4>1. U \in SUBSET S /\ Cardinality(U) =< n
        BY <2>2, <3>2, OneOf
      <4>2. h[U] = g[U]
        BY <2>1, <4>1 DEF Folds
      <4>3. h[T] = f[One(T)] + g[U]
        BY <3>2
      <4>4. QED BY <3>2, <4>2, <4>3 DEF Folds
    <3>3. QED BY <3>1, <3>2
  <2>3. QED
    <3> HIDE DEF h
    <3> QED BY <2>2
<1>3. Cardinality(S) \in P
  <2>1. P \in SUBSET Nat
    OBVIOUS
  <2>2. P = Nat
    <3> HIDE DEF P
    <3> QED BY <1>1, <1>2, <2>1, Counting
  <2>3. QED BY <2>2, FS_CardinalityType
<1>4. PICK g : \A T \in SUBSET S : Cardinality(T) =< Cardinality(S) => Folds(g, f, T)
  BY <1>3
<1>5. \A T \in SUBSET S : Cardinality(T) =< Cardinality(S)
  BY FS_Subset
<1> DEFINE h == [T \in SUBSET S |-> g[T]]
<1>6. IsFold(h, f, S)
  BY <1>4, <1>5 DEF Folds, IsFold
<1>7. QED
  <2> HIDE DEF h
  <2> QED BY <1>6

\* The sum is what its equations say.
LEMMA TotalFolds ==
  ASSUME NEW S, IsFiniteSet(S), NEW f \in [S -> Int]
  PROVE  \E g : Total(f, S) = g[S] /\ \A T \in SUBSET S : Folds(g, f, T)
<1> DEFINE h == CHOOSE g : IsFold(g, f, S)
<1>1. Total(f, S) = h[S]
  BY DEF Total, IsFold, One, SumOf!FoldFunctionOnSet, SumOf!MapThenFoldSet
<1>2. IsFold(h, f, S)
  BY FoldExists
<1>3. \A T \in SUBSET S : Folds(h, f, T)
  <2> HIDE DEF h
  <2> QED BY <1>2 DEF Folds, IsFold
<1>4. QED
  <2> HIDE DEF h
  <2> QED BY <1>1, <1>3

\* A sum changes by what its terms change by, when one of them does.
LEMMA TotalChanges ==
  ASSUME NEW S, IsFiniteSet(S), NEW f \in [S -> Int], NEW h \in [S -> Int],
         NEW s \in S, \A t \in S \ {s} : h[t] = f[t]
  PROVE  /\ Total(f, S) \in Int /\ Total(h, S) \in Int
         /\ Total(h, S) = Total(f, S) + (h[s] - f[s])
<1>1. PICK F : Total(f, S) = F[S] /\ \A T \in SUBSET S : Folds(F, f, T)
  BY TotalFolds
<1>2. PICK H : Total(h, S) = H[S] /\ \A T \in SUBSET S : Folds(H, h, T)
  BY TotalFolds
<1>3. \A T \in SUBSET S : F[T] \in Int /\ H[T] \in Int
  BY <1>1, <1>2, FoldsType
<1> DEFINE P == {T \in SUBSET S : H[T] = F[T] + (IF s \in T THEN h[s] - f[s] ELSE 0)}
<1>4. {} \in P
  <2>1. Folds(F, f, {}) /\ Folds(H, h, {})
    BY <1>1, <1>2
  <2>2. QED BY <2>1 DEF Folds
<1>5. ASSUME NEW T \in SUBSET S, T # {}, T \ {One(T)} \in P PROVE T \in P
  <2> DEFINE x == One(T)
             U == T \ {x}
  <2>1. x \in T /\ x \in S /\ U \in SUBSET S
    BY <1>5, OneOf
  <2>2. F[T] = f[x] + F[U] /\ H[T] = h[x] + H[U]
    BY <1>1, <1>2, <1>5 DEF Folds
  <2>3. H[U] = F[U] + (IF s \in U THEN h[s] - f[s] ELSE 0)
    BY <1>5
  <2>4. CASE x = s
    BY <1>3, <2>1, <2>2, <2>3, <2>4
  <2>5. CASE x # s
    <3>1. h[x] = f[x] /\ (s \in U <=> s \in T)
      BY <2>1, <2>5
    <3> HIDE DEF x, U
    <3>2. QED BY <1>3, <2>1, <2>2, <2>3, <3>1
  <2>6. QED BY <2>4, <2>5
<1>6. P = SUBSET S
  <2>1. P \in SUBSET (SUBSET S)
    OBVIOUS
  <2> HIDE DEF P
  <2>2. QED BY <1>4, <1>5, <2>1, OneByOne
<1>7. QED BY <1>1, <1>2, <1>3, <1>6

LEMMA TotalZero ==
  ASSUME NEW S, IsFiniteSet(S), NEW f \in [S -> Int], \A s \in S : f[s] = 0
  PROVE  Total(f, S) = 0
<1>1. PICK F : Total(f, S) = F[S] /\ \A T \in SUBSET S : Folds(F, f, T)
  BY TotalFolds
<1> DEFINE P == {T \in SUBSET S : F[T] = 0}
<1>2. {} \in P
  <2>1. Folds(F, f, {})
    BY <1>1
  <2>2. QED BY <2>1 DEF Folds
<1>3. ASSUME NEW T \in SUBSET S, T # {}, T \ {One(T)} \in P PROVE T \in P
  <2>1. One(T) \in S
    BY <1>3, OneOf
  <2>2. F[T] = f[One(T)] + F[T \ {One(T)}]
    BY <1>1, <1>3 DEF Folds
  <2>3. QED BY <1>3, <2>1, <2>2
<1>4. P = SUBSET S
  <2>1. P \in SUBSET (SUBSET S)
    OBVIOUS
  <2> HIDE DEF P
  <2>2. QED BY <1>2, <1>3, <2>1, OneByOne
<1>5. QED BY <1>1, <1>4

-----------------------------------------------------------------------------
(* What the sessions of a wallet were billed together *)

BilledKept == \A t \in Sessions : row'[t].billedTokens = row[t].billedTokens

LEMMA BilledStatus ==
  ASSUME TypeOK, NEW s, NEW st, SetStatus(s, st)
  PROVE  BilledKept
BY DEF TypeOK, SetStatus, BilledKept, SessionRow

LEMMA BilledStarted ==
  ASSUME TypeOK, NEW s, NEW n, NEW v,
         v \in {Started(row[s], n), [Started(row[s], n) EXCEPT !.status = "STOPPING"]},
         row' = [row EXCEPT ![s] = v]
  PROVE  BilledKept
<1>1. s \in Sessions => v.billedTokens = row[s].billedTokens
  <2>1. CASE v = Started(row[s], n)
    BY <2>1 DEF Started, TypeOK, SessionRow
  <2>2. CASE v = [Started(row[s], n) EXCEPT !.status = "STOPPING"]
    BY <2>2 DEF Started, TypeOK, SessionRow
  <2>3. QED BY <2>1, <2>2
<1>2. QED BY <1>1 DEF TypeOK, BilledKept

\* Every step but these leaves what was billed and the purses alone.
LEMMA MoneySteps ==
  ASSUME TypeOK, [Next]_vars
  PROVE  \/ BilledKept /\ UNCHANGED <<wallet, credit, extUsed>>
         \/ \E s \in Sessions : BillMinutes(s) \/ FinalizeBilling(s)
         \/ \E r \in Requests : StartCommit(r) \/ ExtendCommit(r)
         \/ BuyTokens
<1> DEFINE Quiet == BilledKept /\ UNCHANGED <<wallet, credit, extUsed>>
<1>1. CASE Workers
  <2>1. ASSUME NEW s \in Sessions, Promote(s) PROVE Quiet
    BY <2>1, BilledStarted DEF Promote, NoCharge
  <2>2. ASSUME NEW s \in Sessions, BillNothingLeft(s) PROVE Quiet
    BY <2>2, BilledStatus DEF BillNothingLeft, Exhaust, NoCharge
  <2>3. ASSUME NEW s \in Sessions,
               \/ ProcessStopCall(s) \/ ProcessStopWrite(s) \/ StopCycle(s)
               \/ ExpiryStop(s) \/ LapseCall(s) \/ LapseMark(s) \/ SyncList(s)
               \/ SyncMark(s) \/ CleanupRecord(s)
        PROVE Quiet
    <3>1. row' = row \/ \E st : SetStatus(s, st)
      BY <2>3 DEF ProcessStopCall, ProcessStopWrite, StopCycle, ExpiryStop, Exhaust,
                  LapseCall, LapseMark, SyncList, SyncMark, CleanupRecord
    <3>2. UNCHANGED money
      BY <2>3 DEF ProcessStopCall, ProcessStopWrite, StopCycle, ExpiryStop,
                  LapseCall, LapseMark, SyncList, SyncMark, CleanupRecord
    <3>3. QED BY <3>1, <3>2, BilledStatus DEF BilledKept
  <2>4. CASE ExpiryScan \/ LapseScan
    BY <2>4 DEF ExpiryScan, LapseScan, BilledKept
  <2>5. QED BY <1>1, <2>1, <2>2, <2>3, <2>4 DEF Workers, BillSession
<1>2. CASE Handlers
  <2>1. ASSUME NEW r \in Requests,
               \/ StartCheck(r) \/ StartRefuse(r) \/ StartLaunch(r) \/ StopTask(r)
               \/ ListRead(r) \/ StartFails(r) \/ GetMark(r) \/ GetDead(r)
               \/ GetAnswer(r) \/ StopMark(r) \/ ListFinish(r)
               \/ \E s \in Sessions : GetRead(r, s)
               \/ \E s \in Sessions, k \in ExtKeys : ExtendRead(r, s, k)
        PROVE Quiet
    <3>1. row' = row \/ \E s, st : SetStatus(s, st)
      BY <2>1 DEF StartCheck, StartRefuse, StartLaunch, StopTask, ListRead, StartFails,
                  GetMark, GetDead, GetAnswer, StopMark, ListFinish, GetRead, ExtendRead
    <3>2. UNCHANGED money
      BY <2>1 DEF StartCheck, StartRefuse, StartLaunch, StopTask, ListRead, StartFails,
                  GetMark, GetDead, GetAnswer, StopMark, ListFinish, GetRead, ExtendRead
    <3>3. QED BY <3>1, <3>2, BilledStatus DEF BilledKept
  <2>2. ASSUME NEW r \in Requests, StartLocal(r) \/ GetRunning(r) PROVE Quiet
    BY <2>2, BilledStarted DEF StartLocal, GetRunning
  <2>3. ASSUME NEW r \in Requests, StartSaveArn(r) \/ SaveArnFails(r) PROVE Quiet
    <3>1. CASE StartSaveArn(r)
      BY <3>1 DEF StartSaveArn, TypeOK, SessionRow, BilledKept
    <3>2. CASE SaveArnFails(r)
      <4>1. PICK arn, st : row' = [row EXCEPT ![req[r].sid] =
                                    [row[req[r].sid] EXCEPT !.arn = arn, !.status = st]]
        BY <3>2 DEF SaveArnFails
      <4>2. \A t \in Sessions :
              [row[t] EXCEPT !.arn = arn, !.status = st].billedTokens = row[t].billedTokens
        BY DEF TypeOK, SessionRow
      <4>3. BilledKept
        BY <4>1, <4>2 DEF TypeOK, BilledKept
      <4>4. QED BY <3>2, <4>3 DEF SaveArnFails
    <3>3. QED BY <2>3, <3>1, <3>2
  <2>4. ASSUME NEW r \in Requests, NEW s \in Sessions, StopBilling(r, s)
        PROVE  Quiet \/ FinalizeBilling(s)
    BY <2>4 DEF StopBilling, BilledKept
  <2>5. QED BY <1>2, <2>1, <2>2, <2>3, <2>4 DEF Handlers
<1>3. CASE Environment \/ UNCHANGED vars
  BY <1>3 DEF Environment, Tick, Restart, TaskUp, TaskDies, BilledKept
<1>4. QED BY <1>1, <1>2, <1>3 DEF Next

\* A charge shows in one row what the wallet gives up, or less.
LEMMA OneIsBilled ==
  ASSUME TypeOK, NEW s \in Sessions, BillMinutes(s) \/ FinalizeBilling(s)
  PROVE  /\ \A t \in Sessions \ {s} : row'[t].billedTokens = row[t].billedTokens
         /\ \E n \in Int : /\ row'[s].billedTokens = row[s].billedTokens + n
                           /\ \/ n =< 0 /\ NoCharge
                              \/ n > 0 /\ \E key : Consume(s, n, key)
<1>1. row \in [Sessions -> SessionRow] /\ row[s] \in SessionRow /\ row[s].billedTokens \in Int
  BY DEF TypeOK, SessionRow
<1>2. CASE BillMinutes(s)
  <2> DEFINE n == Payable(Unbilled(s))
  <2>1. n \in Int
    BY ChargeType
  <2>2. PICK low, st : row' = [row EXCEPT ![s] =
                          [Billed(row[s], n) EXCEPT !.warned = low, !.status = st]]
    BY <1>2 DEF BillMinutes
  <2>3. IF n > 0 THEN \E key : Consume(s, n, key) ELSE NoCharge
    BY <1>2 DEF BillMinutes
  <2>4. /\ row'[s].billedTokens = row[s].billedTokens + n
        /\ \A t \in Sessions \ {s} : row'[t] = row[t]
    <3> HIDE DEF n
    <3> QED BY <1>1, <2>1, <2>2 DEF Billed, SessionRow
  <2>5. QED
    <3> HIDE DEF n
    <3> QED BY <2>1, <2>3, <2>4
<1>3. CASE FinalizeBilling(s)
  <2> DEFINE n == IF HasWallet THEN Payable(Outstanding(s)) ELSE 0
  <2>1. CASE NoCharge /\ (row' = row \/ SetStatus(s, "STOPPING"))
    <3>1. BilledKept
      BY <2>1, BilledStatus DEF BilledKept
    <3>2. QED BY <1>1, <2>1, <3>1 DEF BilledKept
  <2>2. ASSUME n > 0, NEW key, Consume(s, n, key),
               row' = [row EXCEPT ![s] = [Billed(row[s], n) EXCEPT !.status = "STOPPING"]]
        PROVE  /\ \A t \in Sessions \ {s} : row'[t].billedTokens = row[t].billedTokens
               /\ \E k \in Int : /\ row'[s].billedTokens = row[s].billedTokens + k
                                 /\ k > 0 /\ Consume(s, k, key)
    <3>1. n \in Int
      BY ChargeType
    <3>2. /\ row'[s].billedTokens = row[s].billedTokens + n
          /\ \A t \in Sessions \ {s} : row'[t] = row[t]
      <4> HIDE DEF n
      <4> QED BY <1>1, <2>2, <3>1 DEF Billed, SessionRow
    <3>3. QED
      <4> HIDE DEF n
      <4> QED BY <2>2, <3>1, <3>2
  <2>3. QED BY <1>3, <2>1, <2>2 DEF FinalizeBilling
<1>4. QED BY <1>2, <1>3

Tokens == [s \in Sessions |-> row[s].billedTokens]

LEMMA TokensType ==
  ASSUME TypeOK
  PROVE  Tokens \in [Sessions -> Int]
BY DEF TypeOK, SessionRow, Tokens

LEMMA TotalKept ==
  ASSUME TypeOK, TypeOK', BilledWithinWallet, NEW s \in Sessions,
         \A t \in Sessions \ {s} : row'[t].billedTokens = row[t].billedTokens,
         row'[s].billedTokens - row[s].billedTokens =< wallet'.consumed - wallet.consumed
  PROVE  BilledWithinWallet'
<1>1. Tokens \in [Sessions -> Int] /\ Tokens' \in [Sessions -> Int]
  <2>1. Tokens \in [Sessions -> Int]
    BY TokensType
  <2>2. Tokens' \in [Sessions -> Int]
    BY DEF TypeOK, SessionRow, Tokens
  <2>3. QED BY <2>1, <2>2
<1>2. /\ Total(Tokens, Sessions) \in Int /\ Total(Tokens', Sessions) \in Int
      /\ Total(Tokens', Sessions) = Total(Tokens, Sessions) + (Tokens'[s] - Tokens[s])
  <2>1. \A t \in Sessions \ {s} : Tokens'[t] = Tokens[t]
    BY DEF Tokens
  <2>2. QED BY <1>1, <2>1, SessionsAssumption, TotalChanges
<1>3. Tokens'[s] = row'[s].billedTokens /\ Tokens[s] = row[s].billedTokens
  BY DEF Tokens
<1>4. Total(Tokens, Sessions) =< wallet.consumed
  BY DEF BilledWithinWallet, Tokens
<1>5. Total(Tokens', Sessions) =< wallet'.consumed
  <2>1. /\ row'[s].billedTokens \in Int /\ row[s].billedTokens \in Int
        /\ wallet'.consumed \in Int /\ wallet.consumed \in Int
    BY <1>1, <1>3 DEF TypeOK
  <2>2. QED BY <1>2, <1>3, <1>4, <2>1
<1>6. QED BY <1>5 DEF BilledWithinWallet, Tokens

LEMMA BilledTogether ==
  TypeOK /\ TypeOK' /\ MoneyInv /\ BilledWithinWallet /\ [Next]_vars => BilledWithinWallet'
<1> SUFFICES ASSUME TypeOK, TypeOK', MoneyInv, BilledWithinWallet, [Next]_vars
             PROVE  BilledWithinWallet'
  OBVIOUS
<1>1. ASSUME BilledKept, wallet'.consumed = wallet.consumed PROVE BilledWithinWallet'
  <2>1. Tokens' = Tokens
    BY <1>1 DEF BilledKept, Tokens
  <2>2. QED BY <1>1, <2>1 DEF BilledWithinWallet, Tokens
<1>2. ASSUME NEW s \in Sessions, BillMinutes(s) \/ FinalizeBilling(s)
      PROVE BilledWithinWallet'
  <2>1. PICK n \in Int : /\ row'[s].billedTokens = row[s].billedTokens + n
                         /\ \/ n =< 0 /\ NoCharge
                            \/ n > 0 /\ \E key : Consume(s, n, key)
    BY <1>2, OneIsBilled
  <2>2. row[s].billedTokens \in Int /\ wallet.consumed \in Int
    BY DEF TypeOK, SessionRow
  <2>3. n =< wallet'.consumed - wallet.consumed
    BY <2>1, <2>2 DEF NoCharge, Consume, TypeOK
  <2>4. QED BY <1>2, <2>1, <2>2, <2>3, OneIsBilled, TotalKept
<1>3. ASSUME NEW r \in Requests, StartCommit(r) PROVE BilledWithinWallet'
  <2>1. PICK n \in Nat, s \in Sessions :
          row[s].status = "NONE" /\ row' = [Reset(req[r], row) EXCEPT ![s] = NewRow(n)]
    BY <1>3, StartForm
  <2>2. wallet'.consumed = wallet.consumed /\ wallet.consumed \in Int
    BY <1>3, StartWallet DEF TypeOK
  <2>3. Reset(req[r], row) \in [Sessions -> SessionRow]
          /\ \A t \in Sessions : Reset(req[r], row)[t].billedTokens = row[t].billedTokens
    <3>1. \A t \in Sessions : [row[t] EXCEPT !.status = "STOPPED"] \in SessionRow
      BY RowTypes, StatusNames DEF TypeOK
    <3>2. \A t \in Sessions :
            [row[t] EXCEPT !.status = "STOPPED"].billedTokens = row[t].billedTokens
      BY DEF TypeOK, SessionRow
    <3>3. QED BY <3>1, <3>2 DEF Reset, TypeOK
  <2>4. \A t \in Sessions \ {s} : row'[t].billedTokens = row[t].billedTokens
    BY <2>1, <2>3
  <2>5. row'[s].billedTokens = 0
    BY <2>1, <2>3 DEF NewRow, NoRow
  <2>6. row[s].billedTokens >= 0 /\ row[s].billedTokens \in Int
    BY DEF MoneyInv, Metering, Meter, TypeOK, SessionRow
  <2>7. QED BY <2>2, <2>4, <2>5, <2>6, TotalKept
<1>4. ASSUME NEW r \in Requests, ExtendCommit(r) PROVE BilledWithinWallet'
  <2>1. wallet' = wallet
    BY <1>4 DEF ExtendCommit
  <2>2. BilledKept
    <3>1. CASE row' = row
      BY <3>1 DEF BilledKept
    <3>2. CASE row' # row
      <4>1. PICK a, x : row' = [row EXCEPT ![req[r].sid] =
                [row[req[r].sid] EXCEPT !.status = "RUNNING", !.allocated = a, !.expiresAt = x]]
        BY <1>4, <3>2 DEF ExtendCommit
      <4>2. req[r].sid \in Sessions => SameMeter(row[req[r].sid],
                [row[req[r].sid] EXCEPT !.status = "RUNNING", !.allocated = a, !.expiresAt = x])
        BY DEF TypeOK, SessionRow, SameMeter
      <4>3. QED BY <4>1, <4>2, RowKeeps DEF SameMeter, BilledKept
    <3>3. QED BY <3>1, <3>2
  <2>3. QED BY <1>1, <2>1, <2>2
<1>5. CASE BuyTokens
  BY <1>1, <1>5 DEF BuyTokens, TypeOK, BilledKept
<1>6. QED BY <1>1, <1>2, <1>3, <1>4, <1>5, MoneySteps

\* The sessions of a wallet never show more billed tokens than it gave up,
\* however many share it and however their billing interleaves.
THEOREM BilledNeverExceedsWallet == Spec => []BilledWithinWallet
<1>1. Init => BilledWithinWallet
  <2> SUFFICES ASSUME Init PROVE BilledWithinWallet
    OBVIOUS
  <2>1. Tokens \in [Sessions -> Int] /\ \A s \in Sessions : Tokens[s] = 0
    BY DEF Init, NoRow, Tokens
  <2>2. Total(Tokens, Sessions) = 0
    BY <2>1, SessionsAssumption, TotalZero
  <2>3. QED BY <2>2 DEF Init, BilledWithinWallet, Tokens
<1>2. QED BY <1>1, BilledTogether, TypeCorrect, MoneyInvariant, PTL DEF Spec

-----------------------------------------------------------------------------
(* What extensions cost *)

\* What was paid for so far, with a finite set of keys.
ExtensionInv ==
  /\ IsFiniteSet(extUsed) /\ ExtensionPaidOncePerKey

LEMMA OneMoreKey ==
  ASSUME NEW n \in Nat
  PROVE  (n + 1) * ExtCost = n * ExtCost + ExtCost /\ n * ExtCost \in Nat
BY AmountsAssumption

LEMMA ExtensionStep ==
  ASSUME ~IsLms
  PROVE  TypeOK /\ ExtensionInv /\ [Next]_vars => ExtensionInv'
<1> SUFFICES ASSUME TypeOK, ExtensionInv, [Next]_vars PROVE ExtensionInv'
  OBVIOUS
<1> DEFINE paid == Cardinality(extUsed) * ExtCost
<1>1. /\ credit \in Nat /\ wallet.consumed \in Nat /\ wallet.purchased \in Nat
      /\ InitialCredits \in Nat /\ InitialTokens \in Nat /\ ExtCost \in Nat
      /\ Cardinality(extUsed) \in Nat /\ paid \in Nat
  BY AmountsAssumption, FS_CardinalityType, OneMoreKey DEF TypeOK, ExtensionInv
<1>2. credit + paid + wallet.consumed >= InitialCredits + 2 * (wallet.purchased - InitialTokens)
  BY DEF ExtensionInv, ExtensionPaidOncePerKey
<1>3. CASE UNCHANGED <<wallet, credit, extUsed>>
  BY <1>3 DEF ExtensionInv, ExtensionPaidOncePerKey
<1>4. ASSUME NEW s \in Sessions, NEW n \in Int, n > 0, NEW key, Consume(s, n, key)
      PROVE ExtensionInv'
  <2>1. /\ extUsed' = extUsed /\ wallet'.consumed = wallet.consumed + n
        /\ wallet'.purchased = wallet.purchased
        /\ credit' = Greatest(0, credit - n)
    BY <1>4 DEF Consume, TypeOK, CreditAfter
  <2>2. credit' >= credit - n /\ credit' \in Nat
    BY <1>1, <1>4, <2>1 DEF Greatest
  <2> HIDE DEF paid
  <2>3. credit' + paid + wallet'.consumed >= InitialCredits + 2 * (wallet'.purchased - InitialTokens)
    BY <1>1, <1>2, <1>4, <2>1, <2>2
  <2>4. QED BY <2>1, <2>3 DEF paid, ExtensionInv, ExtensionPaidOncePerKey
<1>5. ASSUME NEW s \in Sessions, BillMinutes(s) \/ FinalizeBilling(s) PROVE ExtensionInv'
  BY <1>3, <1>4, <1>5, OneIsBilled DEF NoCharge
<1>6. ASSUME NEW r \in Requests, StartCommit(r) PROVE ExtensionInv'
  BY <1>3, <1>6 DEF StartCommit, WalletAtStart, Granted
<1>7. ASSUME NEW r \in Requests, ExtendCommit(r) PROVE ExtensionInv'
  <2> DEFINE key == req[r].key
  <2>1. CASE UNCHANGED money
    BY <1>3, <2>1
  <2>2. CASE ~UNCHANGED money
    <3>1. /\ credit >= ExtCost /\ key \notin extUsed /\ wallet' = wallet
          /\ credit' = credit - ExtCost /\ extUsed' = extUsed \cup {key}
      BY <1>1, <1>7, <2>2 DEF ExtendCommit, AlreadyPaid
    <3>2. IsFiniteSet(extUsed') /\ Cardinality(extUsed') = Cardinality(extUsed) + 1
      BY <3>1, FS_AddElement DEF ExtensionInv
    <3>3. Cardinality(extUsed') * ExtCost = paid + ExtCost
      BY <1>1, <3>2, OneMoreKey
    <3> HIDE DEF paid
    <3>4. credit' + (paid + ExtCost) + wallet'.consumed
            >= InitialCredits + 2 * (wallet'.purchased - InitialTokens)
      BY <1>1, <1>2, <3>1
    <3>5. QED BY <3>2, <3>3, <3>4 DEF ExtensionInv, ExtensionPaidOncePerKey
  <2>3. QED BY <2>1, <2>2
<1>8. CASE BuyTokens
  <2>1. PICK n \in 1 .. MaxTokens : /\ wallet'.purchased = wallet.purchased + n
                                    /\ wallet'.consumed = wallet.consumed
                                    /\ credit' = credit + 2 * n /\ extUsed' = extUsed
    BY <1>8 DEF BuyTokens, TypeOK
  <2>2. n \in Nat
    BY AmountsAssumption
  <2> HIDE DEF paid
  <2>3. credit' + paid + wallet'.consumed >= InitialCredits + 2 * (wallet'.purchased - InitialTokens)
    BY <1>1, <1>2, <2>1, <2>2
  <2>4. QED BY <2>1, <2>3 DEF paid, ExtensionInv, ExtensionPaidOncePerKey
<1>9. QED BY <1>3, <1>5, <1>6, <1>7, <1>8, MoneySteps

\* However often an extension is sent again, and however many of the
\* requests run at once, its key takes its cost from the credit wallet once.
\* (A grant of an LMS course adds tokens that no credit stands behind.)
THEOREM ExtensionsPaidOnce ==
  ASSUME ~IsLms
  PROVE  Spec => []ExtensionPaidOncePerKey
<1>1. Init => ExtensionInv
  <2>1. 0 * ExtCost = 0
    BY AmountsAssumption
  <2>2. QED BY <2>1, AmountsAssumption, FS_EmptySet
           DEF Init, ExtensionInv, ExtensionPaidOncePerKey
<1>2. TypeOK /\ ExtensionInv /\ [Next]_vars => ExtensionInv'
  BY ExtensionStep
<1>3. ExtensionInv => ExtensionPaidOncePerKey
  BY DEF ExtensionInv
<1>4. QED BY <1>1, <1>2, <1>3, TypeCorrect, PTL DEF Spec

-----------------------------------------------------------------------------
(* How long billing leaves a session alone *)

\* Of a row x, when these keys have been used for extensions: the two ends of
\* its time are one until something is extended.
Ending(x, used) ==
  x.expiresAt >= IF used = {} THEN x.tokenExpiryAt
                 ELSE Least(x.tokenExpiryAt, x.startedAt + 2 * ExtMinutes)

EndingInv == \A s \in Sessions : Ending(row[s], extUsed)

\* A row that is written again with the times it had, or with both ends set
\* to one.
Timed(x, y) ==
  \/ /\ y.expiresAt = x.expiresAt /\ y.tokenExpiryAt = x.tokenExpiryAt
     /\ y.startedAt = x.startedAt
  \/ y.expiresAt = y.tokenExpiryAt

LEMMA EndingKept ==
  ASSUME NEW x \in SessionRow, NEW y \in SessionRow, NEW used, Timed(x, y), Ending(x, used)
  PROVE  Ending(y, used)
BY AmountsAssumption DEF Ending, Timed, Least, SessionRow

LEMMA RowTimed ==
  ASSUME TypeOK, NEW s, NEW v, s \in Sessions => Timed(row[s], v),
         row' = [row EXCEPT ![s] = v]
  PROVE  \A t \in Sessions : Timed(row[t], row'[t])
BY DEF TypeOK, Timed

LEMMA StatusTimed ==
  ASSUME TypeOK, NEW s, NEW st, SetStatus(s, st)
  PROVE  \A t \in Sessions : Timed(row[t], row'[t])
<1>1. s \in Sessions => Timed(row[s], [row[s] EXCEPT !.status = st])
  BY DEF TypeOK, SessionRow, Timed
<1>2. QED BY <1>1, RowTimed DEF SetStatus

LEMMA StartedTimed ==
  ASSUME TypeOK, NEW s, NEW n, NEW v, row' = [row EXCEPT ![s] = v],
         v \in {Started(row[s], n), [Started(row[s], n) EXCEPT !.status = "STOPPING"]}
  PROVE  \A t \in Sessions : Timed(row[t], row'[t])
<1>1. s \in Sessions => Timed(row[s], v)
  BY DEF TypeOK, SessionRow, Timed, Started
<1>2. QED BY <1>1, RowTimed

LEMMA BilledTimed ==
  ASSUME TypeOK, NEW s \in Sessions, NEW n, NEW low, NEW st,
         \/ row' = [row EXCEPT ![s] = [Billed(row[s], n) EXCEPT !.status = st]]
         \/ row' = [row EXCEPT ![s] = [Billed(row[s], n) EXCEPT !.warned = low, !.status = st]]
  PROVE  \A t \in Sessions : Timed(row[t], row'[t])
<1>1. /\ Timed(row[s], [Billed(row[s], n) EXCEPT !.status = st])
      /\ Timed(row[s], [Billed(row[s], n) EXCEPT !.warned = low, !.status = st])
  BY DEF TypeOK, SessionRow, Timed, Billed
<1>2. QED BY <1>1, RowTimed

LEMMA BillingTimed ==
  ASSUME TypeOK, NEW s \in Sessions, BillSession(s) \/ FinalizeBilling(s)
  PROVE  \A t \in Sessions : Timed(row[t], row'[t])
<1>1. CASE Promote(s)
  BY <1>1, StartedTimed DEF Promote
<1>2. CASE BillNothingLeft(s)
  BY <1>2, StatusTimed DEF BillNothingLeft, Exhaust
<1>3. CASE BillMinutes(s)
  BY <1>3, BilledTimed DEF BillMinutes
<1>4. CASE FinalizeBilling(s)
  <2>1. CASE row' = row
    BY <2>1 DEF Timed
  <2>2. CASE SetStatus(s, "STOPPING")
    BY <2>2, StatusTimed
  <2>3. ASSUME NEW n, row' = [row EXCEPT ![s] = [Billed(row[s], n) EXCEPT !.status = "STOPPING"]]
        PROVE \A t \in Sessions : Timed(row[t], row'[t])
    BY <2>3, BilledTimed
  <2>4. QED BY <1>4, <2>1, <2>2, <2>3 DEF FinalizeBilling
<1>5. QED BY <1>1, <1>2, <1>3, <1>4 DEF BillSession

LEMMA RowTimes ==
  ASSUME TypeOK, [Next]_vars
  PROVE  \/ \A t \in Sessions : Timed(row[t], row'[t])
         \/ \E r \in Requests : ExtendCommit(r)
<1> DEFINE Kept == \A t \in Sessions : Timed(row[t], row'[t])
<1>1. ASSUME row' = row PROVE Kept
  BY <1>1 DEF Timed
<1>2. ASSUME NEW s, NEW st, SetStatus(s, st) PROVE Kept
  BY <1>2, StatusTimed
<1>3. CASE Workers
  <2>1. ASSUME NEW s \in Sessions, BillSession(s) PROVE Kept
    BY <2>1, BillingTimed
  <2>2. CASE \A s \in Sessions : ~BillSession(s)
    BY <1>1, <1>2, <1>3, <2>2
       DEF Workers, ProcessStopCall, ProcessStopWrite, StopCycle, ExpiryStop, Exhaust,
           LapseCall, LapseMark, SyncList, SyncMark, CleanupRecord, ExpiryScan, LapseScan
  <2>3. QED BY <2>1, <2>2
<1>4. ASSUME NEW r \in Requests,
             \/ StartCheck(r) \/ StartRefuse(r) \/ StartLaunch(r) \/ StopTask(r)
             \/ ListRead(r) \/ StartFails(r) \/ GetMark(r) \/ GetDead(r) \/ GetAnswer(r)
             \/ StopMark(r) \/ ListFinish(r) \/ \E s \in Sessions : GetRead(r, s)
             \/ \E s \in Sessions, k \in ExtKeys : ExtendRead(r, s, k)
      PROVE Kept
  <2>1. row' = row \/ \E s, st : SetStatus(s, st)
    BY <1>4 DEF StartCheck, StartRefuse, StartLaunch, StopTask, ListRead, StartFails,
                GetMark, GetDead, GetAnswer, StopMark, ListFinish, GetRead, ExtendRead
  <2>2. QED BY <1>1, <1>2, <2>1
<1>5. ASSUME NEW r \in Requests, StartLocal(r) \/ GetRunning(r) PROVE Kept
  BY <1>5, StartedTimed DEF StartLocal, GetRunning
<1>6. ASSUME NEW r \in Requests, StartSaveArn(r) PROVE Kept
  <2>1. req[r].sid \in Sessions => Timed(row[req[r].sid], [row[req[r].sid] EXCEPT !.arn = TRUE])
    BY DEF TypeOK, SessionRow, Timed
  <2>2. QED BY <1>6, <2>1, RowTimed DEF StartSaveArn
<1>7. ASSUME NEW r \in Requests, StartCommit(r) PROVE Kept
  <2>1. PICK n \in Nat, s \in Sessions :
          row' = [Reset(req[r], row) EXCEPT ![s] = NewRow(n)]
    BY <1>7, StartForm
  <2>2. \A t \in Sessions : Timed(row[t], Reset(req[r], row)[t])
    BY DEF Reset, Timed, TypeOK, SessionRow
  <2>3. \A t \in Sessions \ {s} : row'[t] = Reset(req[r], row)[t]
    BY <2>1 DEF Reset, TypeOK
  <2>4. row'[s] = NewRow(n)
    BY <2>1 DEF Reset, TypeOK
  <2>5. Timed(row[s], row'[s])
    BY <2>4 DEF Timed, NewRow, NoRow
  <2>6. QED BY <2>2, <2>3, <2>5
<1>8. ASSUME NEW r \in Requests, NEW s \in Sessions, StopBilling(r, s) PROVE Kept
  <2>1. row' = row \/ FinalizeBilling(s)
    BY <1>8 DEF StopBilling
  <2>2. QED BY <1>1, <2>1, BillingTimed
<1>9. CASE BuyTokens \/ Environment \/ UNCHANGED vars
  BY <1>1, <1>9 DEF BuyTokens, Environment, Tick, Restart, TaskUp, TaskDies
<1>10. ASSUME NEW r \in Requests, SaveArnFails(r) PROVE Kept
  <2>1. PICK arn, st : row' = [row EXCEPT ![req[r].sid] =
                                [row[req[r].sid] EXCEPT !.arn = arn, !.status = st]]
    BY <1>10 DEF SaveArnFails
  <2>2. req[r].sid \in Sessions
          => Timed(row[req[r].sid], [row[req[r].sid] EXCEPT !.arn = arn, !.status = st])
    BY DEF TypeOK, SessionRow, Timed
  <2>3. QED BY <2>1, <2>2, RowTimed
<1>11. QED BY <1>3, <1>4, <1>5, <1>6, <1>7, <1>8, <1>9, <1>10 DEF Next, Handlers

LEMMA KeysKept ==
  ASSUME TypeOK, [Next]_vars, \A r \in Requests : ~ExtendCommit(r)
  PROVE  extUsed' = extUsed
<1>1. ASSUME NEW s \in Sessions, BillMinutes(s) \/ FinalizeBilling(s) PROVE extUsed' = extUsed
  BY <1>1, OneIsBilled DEF NoCharge, Consume
<1>2. QED BY <1>1, MoneySteps DEF StartCommit, BuyTokens

LEMMA ExtendEnds ==
  ASSUME TypeOK, TypeOK', MoneyInv, EndingInv, NEW r \in Requests, ExtendCommit(r)
  PROVE  EndingInv'
<1> DEFINE q == req[r]
<1>1. CASE UNCHANGED <<row, money>>
  BY <1>1 DEF EndingInv
<1>2. CASE ~UNCHANGED <<row, money>>
  <2>1. PICK a : /\ extUsed' = extUsed \cup {q.key}
                 /\ row' = [row EXCEPT ![q.sid] =
                       [row[q.sid] EXCEPT !.status = "RUNNING", !.allocated = a,
                          !.expiresAt = Greatest(now, q.expiresAt) + 2 * ExtMinutes]]
    BY <1>2 DEF ExtendCommit
  <2>2. q.sid \in Sessions /\ q.expiresAt \in Nat /\ now \in Nat
    BY RequestFields DEF ExtendCommit, At, TypeOK
  <2>3. /\ row'[q.sid].expiresAt = Greatest(now, q.expiresAt) + 2 * ExtMinutes
        /\ row'[q.sid].startedAt = row[q.sid].startedAt
        /\ row'[q.sid].tokenExpiryAt = row[q.sid].tokenExpiryAt
        /\ \A t \in Sessions \ {q.sid} : row'[t] = row[t]
    <3> HIDE DEF q
    <3> QED BY <2>1, <2>2 DEF TypeOK, SessionRow
  <2>4. row[q.sid].startedAt =< now /\ row[q.sid].startedAt \in Nat /\ row[q.sid].tokenExpiryAt \in Nat
    BY <2>2 DEF MoneyInv, Metering, Meter, TypeOK, SessionRow
  <2>5. Greatest(now, q.expiresAt) + 2 * ExtMinutes >= row[q.sid].startedAt + 2 * ExtMinutes
    BY <2>2, <2>4, AmountsAssumption DEF Greatest
  <2>6. Ending(row'[q.sid], extUsed')
    <3>1. extUsed' # {}
      BY <2>1
    <3> HIDE DEF q
    <3>2. row'[q.sid].expiresAt \in Nat
      BY <2>2 DEF TypeOK, SessionRow
    <3>3. QED BY <2>3, <2>4, <2>5, <3>1, <3>2, AmountsAssumption DEF Ending, Least
  <2>7. \A t \in Sessions \ {q.sid} : Ending(row'[t], extUsed')
    <3>1. ASSUME NEW x \in SessionRow, Ending(x, extUsed) PROVE Ending(x, extUsed')
      BY <2>1, <3>1, AmountsAssumption DEF Ending, Least, SessionRow
    <3>2. QED BY <2>3, <3>1 DEF EndingInv, TypeOK
  <2>8. QED BY <2>6, <2>7 DEF EndingInv
<1>3. QED BY <1>1, <1>2

LEMMA EndingStep ==
  TypeOK /\ TypeOK' /\ MoneyInv /\ EndingInv /\ [Next]_vars => EndingInv'
<1> SUFFICES ASSUME TypeOK, TypeOK', MoneyInv, EndingInv, [Next]_vars PROVE EndingInv'
  OBVIOUS
<1>1. CASE \A r \in Requests : ~ExtendCommit(r)
  <2>1. \A t \in Sessions : Timed(row[t], row'[t])
    BY <1>1, RowTimes
  <2>2. extUsed' = extUsed
    BY <1>1, KeysKept
  <2>3. QED BY <2>1, <2>2, EndingKept DEF EndingInv, TypeOK
<1>2. QED BY <1>1, ExtendEnds

\* Billing moves a session to STOPPING only when its time is over.
LEMMA BillingStops ==
  ASSUME TypeOK, NEW s \in Sessions, NEW t \in Sessions, BillSession(t),
         row[s].status \in Metered, row'[s].status = "STOPPING"
  PROVE  row[s].expiresAt =< now
<1>1. CASE s # t
  <2>1. row'[s] = row[s]
    BY <1>1 DEF BillSession, Promote, BillNothingLeft, Exhaust, SetStatus, BillMinutes, TypeOK
  <2>2. QED BY <2>1 DEF Metered
<1>2. CASE s = t
  <2>1. ~Promote(s)
    BY DEF Promote, Metered
  <2>2. CASE BillNothingLeft(s)
    BY <2>2 DEF BillNothingLeft, WithinAllocated, TypeOK, SessionRow
  <2>3. CASE BillMinutes(s)
    <3> DEFINE n == Payable(Unbilled(s))
               stop == Greatest(0, Remaining(wallet) - n) = 0 /\ ~WithinAllocated(s)
               st == IF stop THEN "STOPPING" ELSE row[s].status
    <3>1. PICK low : row' = [row EXCEPT ![s] =
                        [Billed(row[s], n) EXCEPT !.warned = low, !.status = st]]
      <4>1. row' = [row EXCEPT ![s] = [Billed(row[s], n) EXCEPT
                  !.warned = Greatest(0, Remaining(wallet) - n) =< LowBalance, !.status = st]]
        BY <2>3 DEF BillMinutes
      <4> HIDE DEF n, st
      <4>2. QED BY <4>1
    <3>2. row'[s].status = st
      <4> HIDE DEF n, st
      <4> QED BY <3>1 DEF TypeOK, SessionRow, Billed
    <3>3. ~WithinAllocated(s)
      BY <3>2 DEF Metered
    <3>4. QED BY <3>3 DEF WithinAllocated, TypeOK, SessionRow
  <2>4. QED BY <1>2, <2>1, <2>2, <2>3 DEF BillSession
<1>3. QED BY <1>1, <1>2

\* A step of a handler moves its request.
LEMMA HandlersMove ==
  ASSUME TypeOK, Handlers, ~BuyTokens
  PROVE  req' # req
<1>1. ASSUME NEW r \in Requests, NEW q, Goto(r, q), q.at # req[r].at PROVE req' # req
  BY <1>1 DEF Goto, TypeOK
<1>2. ASSUME NEW r \in Requests, Finish(r), ~At(r, "idle") PROVE req' # req
  BY <1>1, <1>2 DEF Finish, Idle, At
<1>3. ASSUME NEW r \in Requests,
             \/ StartCheck(r) \/ StartCommit(r) \/ ListRead(r)
             \/ \E s \in Sessions : GetRead(r, s) \/ StopBilling(r, s)
             \/ \E s \in Sessions, k \in ExtKeys : ExtendRead(r, s, k)
      PROVE req' # req
  <2>1. CASE StartCheck(r) \/ ListRead(r)
    BY <1>1, <2>1 DEF StartCheck, ListRead, Arrives, At, Idle
  <2>2. CASE StartCommit(r)
    BY <1>1, <2>2 DEF StartCommit, At, Idle
  <2>3. ASSUME NEW s \in Sessions, GetRead(r, s) \/ StopBilling(r, s) PROVE req' # req
    BY <1>1, <2>3 DEF GetRead, StopBilling, Arrives, At, Idle
  <2>4. ASSUME NEW s \in Sessions, NEW k \in ExtKeys, ExtendRead(r, s, k) PROVE req' # req
    BY <1>1, <2>4 DEF ExtendRead, Arrives, At, Idle
  <2>5. QED BY <1>3, <2>1, <2>2, <2>3, <2>4
<1>4. ASSUME NEW r \in Requests, StartLaunch(r) \/ GetMark(r) \/ StopTask(r) PROVE req' # req
  <2>1. req[r] \in RequestRecord
    BY RequestFields DEF Request
  <2>2. CASE StartLaunch(r)
    BY <1>1, <2>1, <2>2 DEF StartLaunch, At, RequestRecord
  <2>3. CASE GetMark(r)
    BY <1>1, <2>1, <2>3 DEF GetMark, At, RequestRecord
  <2>4. CASE StopTask(r)
    BY <1>1, <2>1, <2>4 DEF StopTask, At, RequestRecord
  <2>5. QED BY <1>4, <2>2, <2>3, <2>4
<1>5. ASSUME NEW r \in Requests,
             \/ StartRefuse(r) \/ StartLocal(r) \/ StartFails(r) \/ StartSaveArn(r)
             \/ SaveArnFails(r) \/ GetDead(r) \/ GetRunning(r) \/ GetAnswer(r) \/ ExtendCommit(r)
             \/ StopMark(r) \/ ListFinish(r)
      PROVE req' # req
  BY <1>2, <1>5 DEF StartRefuse, StartLocal, StartFails, StartSaveArn, SaveArnFails,
                    GetDead, GetRunning, GetAnswer, ExtendCommit, StopMark, ListFinish, At
<1>6. QED BY <1>3, <1>4, <1>5 DEF Handlers

\* However sessions drain the wallet they share, billing alone ends none of
\* them within the time its tokens were to last; where extensions and a new
\* start of the meter race, not within the minutes an extension buys.
THEOREM BillingAlwaysKeepsTime == Spec => BillingKeepsAllocatedTime
<1> DEFINE Good == \A s \in Sessions :
       (row[s].status \in Metered /\ row'[s].status = "STOPPING" /\ now < PaidUntil(s)
          /\ req' = req) => s \in expiring
<1>1. Init => EndingInv
  BY AmountsAssumption DEF Init, NoRow, EndingInv, Ending, Least
<1>2. TypeOK /\ EndingInv /\ [Next]_vars => Good
  <2> SUFFICES ASSUME TypeOK, EndingInv, [Next]_vars, NEW s \in Sessions,
                      row[s].status \in Metered, row'[s].status = "STOPPING",
                      now < PaidUntil(s), req' = req
               PROVE  s \in expiring
    OBVIOUS
  <2>1. ~(row[s].expiresAt =< now)
    BY AmountsAssumption DEF EndingInv, Ending, PaidUntil, Least, TypeOK, SessionRow
  <2>2. \A t \in Sessions : ~BillSession(t)
    BY <2>1, BillingStops
  <2>3. row' # row
    BY DEF Metered
  <2>4. ~BuyTokens /\ ~Environment /\ ~UNCHANGED vars
    BY <2>3 DEF BuyTokens, Environment, Tick, Restart, TaskUp, TaskDies
  <2>5. CASE Workers
    <3>1. PICK t \in Sessions : ProcessStopWrite(t) \/ ExpiryStop(t) \/ LapseMark(t) \/ SyncMark(t)
      BY <2>2, <2>3, <2>5 DEF Workers, ProcessStopCall, StopCycle, LapseCall, SyncList,
                              CleanupRecord, ExpiryScan, LapseScan
    <3>2. ASSUME NEW st, SetStatus(t, st) PROVE s = t /\ st = "STOPPING"
      BY <3>2 DEF SetStatus, TypeOK, SessionRow, Metered
    <3>3. ExpiryStop(t) /\ s = t
      BY <2>3, <3>1, <3>2 DEF ProcessStopWrite, ExpiryStop, Exhaust, LapseMark, SyncMark
    <3>4. QED BY <3>3 DEF ExpiryStop
  <2>6. CASE Handlers
    BY <2>4, <2>6, HandlersMove
  <2>7. QED BY <2>4, <2>5, <2>6 DEF Next
<1>3. QED
  BY <1>1, <1>2, EndingStep, TypeCorrect, MoneyInvariant, PTL DEF Spec, BillingKeepsAllocatedTime
=============================================================================
