----------------------------- MODULE UartProofs -----------------------------
(***************************************************************************)
(* What uart.cpp and cbuffer.h keep for rings of any (even) size: the type *)
(* invariant, that both rings stay aligned however the interrupts fall and *)
(* whatever value a torn index has, and that a torn index loses no byte    *)
(* while a ring holds less than half its cells.                            *)
(***************************************************************************)
EXTENDS Uart, TLAPS

USE UartAssumption

(* The cell j places after t, without a remainder.                         *)
At(t, j) == IF t + j >= Size THEN t + j - Size ELSE t + j

(* The ring (h, t, a) holds the n bytes after byte b in order; the cell of *)
(* byte hole is not yet stored.                                            *)
Ring(h, t, a, b, n, hole) ==
  /\ n \in 0 .. Size - 1
  /\ h = At(t, n)
  /\ \A j \in 1 .. n : b + j # hole => a[At(t, j)] = b + j

-----------------------------------------------------------------------------
(* Rings.                                                                  *)

LEMMA SizeIsEven == Size \in Nat /\ Size >= 2
  OBVIOUS

LEMMA NextOfIndex ==
  ASSUME NEW i \in Index
  PROVE  NextOf(i) = At(i, 1) /\ NextOf(i) \in Index
<1>1. Size \in Nat /\ Size >= 2
  BY SizeIsEven
<1>2. CASE i = Size - 1
  BY <1>1, <1>2 DEF NextOf, Index, At
<1>3. CASE i # Size - 1
  <2>1. i + 1 \in 0 .. Size - 1
    BY <1>1, <1>3 DEF Index
  <2>2. NextOf(i) = i + 1
    BY <2>1, <1>1 DEF NextOf
  <2>. QED BY <2>1, <2>2, <1>1, <1>3 DEF Index, At
<1>. QED BY <1>2, <1>3

LEMMA RingEnds ==
  ASSUME NEW h \in Index, NEW t \in Index, NEW a, NEW b \in Nat, NEW n,
         NEW hole, Ring(h, t, a, b, n, hole)
  PROVE  /\ n \in 0 .. Size - 1
         /\ IsEmpty(h, t) <=> n = 0
         /\ IsFull(h, t) <=> n = Size - 1
<1>1. Size \in Nat /\ Size >= 2
  BY SizeIsEven
<1>2. NextOf(h) = At(h, 1)
  BY NextOfIndex
<1>3. n \in 0 .. Size - 1 /\ h = At(t, n)
  BY DEF Ring
<1>. QED BY <1>1, <1>2, <1>3 DEF IsEmpty, IsFull, At, Index

LEMMA RingTake ==
  ASSUME NEW h \in Index, NEW t \in Index, NEW a, NEW b \in Nat, NEW n,
         NEW hole, Ring(h, t, a, b, n, hole), n # 0
  PROVE  /\ Ring(h, NextOf(t), a, b + 1, n - 1, hole)
         /\ b + 1 # hole => a[NextOf(t)] = b + 1
<1>1. Size \in Nat /\ Size >= 2
  BY SizeIsEven
<1>2. NextOf(t) = At(t, 1)
  BY NextOfIndex
<1>3. n \in 1 .. Size - 1 /\ h = At(t, n)
  BY <1>1 DEF Ring
<1>4. \A j \in 1 .. n : b + j # hole => a[At(t, j)] = b + j
  BY DEF Ring
<1>5. h = At(At(t, 1), n - 1)
  BY <1>1, <1>3 DEF At, Index
<1>6. ASSUME NEW j \in 1 .. n - 1, b + 1 + j # hole
      PROVE  a[At(At(t, 1), j)] = b + 1 + j
  <2>1. At(At(t, 1), j) = At(t, j + 1)
    BY <1>1, <1>3 DEF At, Index
  <2>2. j + 1 \in 1 .. n /\ b + (j + 1) = b + 1 + j
    BY <1>3
  <2>. QED BY <2>1, <2>2, <1>4, <1>6
<1>7. b + 1 # hole => a[At(t, 1)] = b + 1
  BY <1>3, <1>4
<1>8. n - 1 \in 0 .. Size - 1
  BY <1>1, <1>3
<1>. QED BY <1>2, <1>5, <1>6, <1>7, <1>8 DEF Ring

LEMMA RingGrow ==
  ASSUME NEW h \in Index, NEW t \in Index, NEW a, NEW b \in Nat, NEW n,
         Ring(h, t, a, b, n, 0), n # Size - 1
  PROVE  Ring(NextOf(h), t, a, b, n + 1, b + n + 1)
<1>1. Size \in Nat /\ Size >= 2
  BY SizeIsEven
<1>2. NextOf(h) = At(h, 1)
  BY NextOfIndex
<1>3. n \in 0 .. Size - 2 /\ h = At(t, n)
  BY <1>1 DEF Ring
<1>4. \A j \in 1 .. n : b + j # 0 => a[At(t, j)] = b + j
  BY DEF Ring
<1>5. At(h, 1) = At(t, n + 1)
  BY <1>1, <1>3 DEF At, Index
<1>6. ASSUME NEW j \in 1 .. n + 1, b + j # b + n + 1
      PROVE  a[At(t, j)] = b + j
  <2>1. j \in 1 .. n /\ b + j # 0
    BY <1>3, <1>6
  <2>. QED BY <2>1, <1>4
<1>7. n + 1 \in 0 .. Size - 1
  BY <1>1, <1>3
<1>. QED BY <1>2, <1>5, <1>6, <1>7 DEF Ring

LEMMA RingStore ==
  ASSUME NEW h \in Index, NEW t \in Index, NEW a \in [Index -> Nat],
         NEW b \in Nat, NEW n, Ring(h, t, a, b, n, b + n)
  PROVE  Ring(h, t, [a EXCEPT ![h] = b + n], b, n, 0)
<1>1. Size \in Nat /\ Size >= 2
  BY SizeIsEven
<1>2. n \in 0 .. Size - 1 /\ h = At(t, n)
  BY DEF Ring
<1>3. \A j \in 1 .. n : b + j # b + n => a[At(t, j)] = b + j
  BY DEF Ring
<1>4. ASSUME NEW j \in 1 .. n
      PROVE  [a EXCEPT ![h] = b + n][At(t, j)] = b + j
  <2>1. At(t, j) \in Index
    BY <1>1, <1>2 DEF At, Index
  <2>2. CASE j = n
    BY <2>1, <2>2, <1>2
  <2>3. CASE j # n
    <3>1. At(t, j) # h
      BY <2>3, <1>1, <1>2 DEF At, Index
    <3>2. a[At(t, j)] = b + j
      BY <2>3, <1>2, <1>3
    <3>. QED BY <3>1, <3>2, <2>1
  <2>. QED BY <2>2, <2>3
<1>. QED BY <1>2, <1>4 DEF Ring

-----------------------------------------------------------------------------
(* Types.  A call of write() was within the bound when it was made.        *)

Writing == {"full", "flag", "empty", "direct", "put", "advance"}
TypeInv == UartTypeOK /\ (pc \in Writing => put < MaxOut)

LEMMA TypeInitial == UartInit => TypeInv
<1>1. 0 \in Index
  BY SizeIsEven DEF Index
<1>. SUFFICES ASSUME UartInit PROVE TypeInv
  OBVIOUS
<1>2. udrie \in BOOLEAN /\ early \in BOOLEAN /\ exact \in BOOLEAN
  BY Zenon DEF UartInit
<1>3. txArray \in [Index -> Nat] /\ rxArray \in [Index -> Nat]
  BY DEF UartInit
<1>4. /\ pc = "idle" /\ udr = Empty /\ put = 0 /\ sent = 0
      /\ txHead = 0 /\ txTail = 0 /\ rxHead = 0 /\ rxTail = 0
      /\ kept = 0 /\ got = 0 /\ last = MadeUp
  BY DEF UartInit
<1>. QED BY <1>1, <1>2, <1>3, <1>4 DEF TypeInv, UartTypeOK, Writing

(* The interrupts keep the types of what they change.                      *)
LEMMA TransmitTypes ==
  ASSUME UartTypeOK, NEW head, TransmitNext(head)
  PROVE  /\ txTail' \in Index /\ udr' \in Nat \cup {Empty}
         /\ udrie' \in BOOLEAN /\ early' \in BOOLEAN
<1>1. txTail \in Index /\ txArray \in [Index -> Nat]
      /\ udrie \in BOOLEAN /\ early \in BOOLEAN
  BY DEF UartTypeOK
<1>2. NextOf(txTail) \in Index
  BY <1>1, NextOfIndex
<1>3. CASE IsEmpty(head, txTail)
  BY <1>1, <1>3, Zenon DEF TransmitNext
<1>4. CASE ~IsEmpty(head, txTail)
  <2>1. /\ txTail' = NextOf(txTail) /\ udr' = txArray[txTail']
        /\ early' = Claimed(txTail') /\ udrie' = udrie
    BY <1>4, Zenon DEF TransmitNext, Loaded
  <2>2. early' \in BOOLEAN
    BY <2>1, Zenon DEF Claimed
  <2>. QED BY <2>1, <2>2, <1>1, <1>2
<1>. QED BY <1>3, <1>4

LEMMA InsideTypes ==
  ASSUME UartTypeOK, NEW torn \in BOOLEAN, NEW head, TransmitInside(torn, head)
  PROVE  /\ txTail' \in Index /\ udr' \in Nat \cup {Empty}
         /\ udrie' \in BOOLEAN /\ early' \in BOOLEAN /\ sent' \in Nat
<1>1. CASE torn
  <2>1. TransmitNext(head) /\ sent' = sent + 1
    BY <1>1 DEF TransmitInside
  <2>2. sent' \in Nat
    BY <2>1 DEF UartTypeOK
  <2>. QED BY <2>1, <2>2, TransmitTypes
<1>2. CASE ~torn
  BY <1>2 DEF TransmitInside, UartTypeOK
<1>. QED BY <1>1, <1>2

LEMMA KeepTypes ==
  ASSUME UartTypeOK, NEW tail, Keep(tail)
  PROVE  rxHead' \in Index /\ rxArray' \in [Index -> Nat] /\ kept' \in 0 .. MaxIn
<1>1. rxHead \in Index /\ rxArray \in [Index -> Nat] /\ kept \in 0 .. MaxIn
  BY DEF UartTypeOK
<1>2. NextOf(rxHead) \in Index
  BY <1>1, NextOfIndex
<1>3. CASE IsFull(rxHead, tail)
  BY <1>1, <1>3 DEF Keep
<1>4. CASE ~IsFull(rxHead, tail)
  BY <1>1, <1>2, <1>4 DEF Keep
<1>. QED BY <1>3, <1>4

LEMMA ReceiveTypes ==
  ASSUME UartTypeOK, NEW torn \in BOOLEAN, NEW tail, ReceiveInside(torn, tail)
  PROVE  rxHead' \in Index /\ rxArray' \in [Index -> Nat] /\ kept' \in 0 .. MaxIn
<1>1. CASE torn
  BY <1>1, KeepTypes DEF ReceiveInside
<1>2. CASE ~torn
  BY <1>2 DEF ReceiveInside, UartTypeOK
<1>. QED BY <1>1, <1>2

-----------------------------------------------------------------------------
(* What each half of the driver leaves to the other.                       *)

LEMMA ReadLeavesTx ==
  ASSUME ReadStep \/ ReceiveInterrupt
  PROVE  UNCHANGED txVars
  BY Zenon DEF ReadStep, ReceiveInterrupt, LoadByte, Available, CheckData, AdvanceTail

LEMMA WriteLeavesRx ==
  ASSUME WriteCall \/ WriteStep \/ TransmitInterrupt \/ Shift
  PROVE  UNCHANGED rxVars
  BY Zenon DEF WriteCall, WriteStep, TransmitInterrupt, Shift, ReadFlag,
               WriteStraight, StoreByte, TurnTxOn, CheckFull, CheckEmpty,
               CheckFullAgain, AdvanceHead, Refuse, Proceed

-----------------------------------------------------------------------------
LEMMA TypeStep == TypeInv /\ [UartNext]_uartVars => TypeInv'
<1>. SUFFICES ASSUME TypeInv, [UartNext]_uartVars PROVE TypeInv'
  OBVIOUS
<1>0. /\ UartTypeOK /\ (pc \in Writing => put < MaxOut)
      /\ NextOf(txHead) \in Index /\ NextOf(rxTail) \in Index
  BY NextOfIndex DEF TypeInv, UartTypeOK
<1>1. CASE WriteCall
  BY <1>0, <1>1 DEF WriteCall, MainAt, TypeInv, UartTypeOK, Writing, txVars, rxVars
<1>2. ASSUME NEW torn \in BOOLEAN, CheckFull(torn) PROVE TypeInv'
  <2>1. TransmitInside(torn, txHead)
    BY <1>2 DEF CheckFull
  <2>2. /\ txTail' \in Index /\ udr' \in Nat \cup {Empty}
        /\ udrie' \in BOOLEAN /\ early' \in BOOLEAN /\ sent' \in Nat
    BY <1>0, <2>1, InsideTypes
  <2>3. /\ pc = "full" /\ pc' \in {"idle", "flag"} /\ exact' \in {exact, FALSE}
        /\ UNCHANGED <<txHead, txArray, put, rxVars>>
    BY <1>2 DEF CheckFull, MainAt, Refuse, Proceed
  <2>. QED BY <1>0, <2>2, <2>3 DEF TypeInv, UartTypeOK, Writing, rxVars
<1>3. CASE ReadFlag
  BY <1>0, <1>3 DEF ReadFlag, TypeInv, UartTypeOK, Writing, txVars, rxVars
<1>4. ASSUME NEW torn \in BOOLEAN, CheckEmpty(torn) PROVE TypeInv'
  <2>1. TransmitInside(torn, txHead)
    BY <1>4 DEF CheckEmpty
  <2>2. /\ txTail' \in Index /\ udr' \in Nat \cup {Empty}
        /\ udrie' \in BOOLEAN /\ early' \in BOOLEAN /\ sent' \in Nat
    BY <1>0, <2>1, InsideTypes
  <2>3. /\ pc = "empty" /\ pc' \in {"direct", "put"}
        /\ UNCHANGED <<txHead, txArray, put, rxVars, exact>>
    BY <1>4 DEF CheckEmpty, MainAt, Proceed
  <2>. QED BY <1>0, <2>2, <2>3 DEF TypeInv, UartTypeOK, Writing, rxVars
<1>5. CASE WriteStraight
  <2>1. /\ pc = "direct" /\ pc' = "idle"
        /\ UNCHANGED <<txHead, txTail, txArray, udrie, sent, rxVars>>
    BY <1>5 DEF WriteStraight, MainAt
  <2>2. /\ put' \in 0 .. MaxOut /\ udr' \in Nat \cup {Empty}
    BY <1>0, <1>5, <2>1 DEF WriteStraight, UartTypeOK, Writing
  <2>3. early' \in BOOLEAN /\ exact' \in BOOLEAN
    BY <1>0, <1>5, Zenon DEF WriteStraight, UartTypeOK
  <2>. QED BY <1>0, <2>1, <2>2, <2>3 DEF TypeInv, UartTypeOK, Writing, rxVars
<1>6. ASSUME NEW torn \in BOOLEAN, CheckFullAgain(torn) PROVE TypeInv'
  <2>1. TransmitInside(torn, txHead)
    BY <1>6 DEF CheckFullAgain
  <2>2. /\ txTail' \in Index /\ udr' \in Nat \cup {Empty}
        /\ udrie' \in BOOLEAN /\ early' \in BOOLEAN /\ sent' \in Nat
    BY <1>0, <2>1, InsideTypes
  <2>3. /\ pc = "put" /\ pc' \in {"enable", "advance"} /\ exact' \in {exact, FALSE}
        /\ UNCHANGED <<txHead, txArray, put, rxVars>>
    BY <1>6 DEF CheckFullAgain, MainAt, Refuse, Proceed
  <2>. QED BY <1>0, <2>2, <2>3 DEF TypeInv, UartTypeOK, Writing, rxVars
<1>7. ASSUME NEW torn \in BOOLEAN, AdvanceHead(torn) PROVE TypeInv'
  <2>1. PICK head : TransmitInside(torn, head)
    BY <1>7 DEF AdvanceHead
  <2>2. /\ txTail' \in Index /\ udr' \in Nat \cup {Empty}
        /\ udrie' \in BOOLEAN /\ early' \in BOOLEAN /\ sent' \in Nat
    BY <1>0, <2>1, InsideTypes
  <2>3. /\ pc = "advance" /\ pc' = "store" /\ put' = put + 1 /\ txHead' = NextOf(txHead)
        /\ UNCHANGED <<txArray, rxVars, exact>>
    BY <1>7 DEF AdvanceHead, MainAt
  <2>. QED BY <1>0, <2>2, <2>3 DEF TypeInv, UartTypeOK, Writing, rxVars
<1>8. CASE StoreByte
  <2>1. txArray' \in [Index -> Nat]
    BY <1>0, <1>8 DEF StoreByte, UartTypeOK
  <2>. QED BY <1>0, <1>8, <2>1 DEF StoreByte, TypeInv, UartTypeOK, Writing, rxVars
<1>9. CASE TurnTxOn
  <2>1. udrie' \in BOOLEAN
    BY <1>9, Zenon DEF TurnTxOn, EnabledAfter
  <2>. QED BY <1>0, <1>9, <2>1 DEF TurnTxOn, TypeInv, UartTypeOK, Writing, rxVars
<1>10. CASE TransmitInterrupt
  <2>1. /\ txTail' \in Index /\ udr' \in Nat \cup {Empty}
        /\ udrie' \in BOOLEAN /\ early' \in BOOLEAN
    BY <1>0, <1>10, TransmitTypes DEF TransmitInterrupt
  <2>. QED BY <1>0, <1>10, <2>1 DEF TransmitInterrupt, TypeInv, UartTypeOK, Writing, rxVars
<1>11. CASE Shift
  BY <1>0, <1>11 DEF Shift, TypeInv, UartTypeOK, Writing, rxVars
<1>12. CASE ReceiveInterrupt
  <2>1. rxHead' \in Index /\ rxArray' \in [Index -> Nat] /\ kept' \in 0 .. MaxIn
    BY <1>0, <1>12, KeepTypes DEF ReceiveInterrupt
  <2>2. exact' \in BOOLEAN
    BY <1>12, Zenon DEF ReceiveInterrupt
  <2>. QED BY <1>0, <1>12, <2>1, <2>2
           DEF ReceiveInterrupt, TypeInv, UartTypeOK, Writing, txVars
<1>13. ASSUME NEW torn \in BOOLEAN, Available(torn) PROVE TypeInv'
  <2>1. rxHead' \in Index /\ rxArray' \in [Index -> Nat] /\ kept' \in 0 .. MaxIn
    BY <1>0, <1>13, ReceiveTypes DEF Available
  <2>2. exact' \in BOOLEAN
    BY <1>13, Zenon DEF Available
  <2>3. pc' \in {"idle", "check"} /\ UNCHANGED <<txVars, rxTail, got, last>>
    BY <1>13 DEF Available
  <2>. QED BY <1>0, <2>1, <2>2, <2>3 DEF TypeInv, UartTypeOK, Writing, txVars
<1>14. ASSUME NEW torn \in BOOLEAN, CheckData(torn) PROVE TypeInv'
  <2>1. rxHead' \in Index /\ rxArray' \in [Index -> Nat] /\ kept' \in 0 .. MaxIn
    BY <1>0, <1>14, ReceiveTypes DEF CheckData
  <2>2. exact' \in BOOLEAN
    BY <1>14, Zenon DEF CheckData
  <2>3. /\ pc' \in {"idle", "take"} /\ last' \in {MadeUp, last}
        /\ UNCHANGED <<txVars, rxTail, got>>
    BY <1>14 DEF CheckData
  <2>. QED BY <1>0, <2>1, <2>2, <2>3 DEF TypeInv, UartTypeOK, Writing, txVars
<1>15. ASSUME NEW torn \in BOOLEAN, AdvanceTail(torn) PROVE TypeInv'
  <2>1. PICK tail : ReceiveInside(torn, tail) /\ exact' = (exact /\ ~Drops(torn, tail))
    BY <1>15, Zenon DEF AdvanceTail
  <2>2. rxHead' \in Index /\ rxArray' \in [Index -> Nat] /\ kept' \in 0 .. MaxIn
    BY <1>0, <2>1, ReceiveTypes
  <2>3. exact' \in BOOLEAN
    BY <2>1, Zenon
  <2>4. pc' = "load" /\ rxTail' = NextOf(rxTail) /\ UNCHANGED <<txVars, got, last>>
    BY <1>15 DEF AdvanceTail
  <2>. QED BY <1>0, <2>2, <2>3, <2>4 DEF TypeInv, UartTypeOK, Writing, txVars
<1>16. CASE LoadByte
  <2>1. last' \in Nat /\ got' \in Nat /\ pc' = "idle"
        /\ UNCHANGED <<txVars, rxHead, rxTail, rxArray, kept, exact>>
    BY <1>0, <1>16 DEF LoadByte, Loaded, UartTypeOK
  <2>. QED BY <1>0, <2>1 DEF TypeInv, UartTypeOK, Writing, txVars
<1>17. CASE UNCHANGED uartVars
  BY <1>0, <1>17 DEF TypeInv, UartTypeOK, Writing, uartVars, txVars, rxVars
<1>. QED
  BY <1>1, <1>2, <1>3, <1>4, <1>5, <1>6, <1>7, <1>8, <1>9, <1>10, <1>11, <1>12,
     <1>13, <1>14, <1>15, <1>16, <1>17 DEF UartNext, WriteStep, ReadStep

(* The type invariant: above all, indices never leave the rings and write()*)
(* never accepts more than was asked.  (cbuffer.h:24-48)                   *)
THEOREM UartTypeCorrect == UartSpec => []UartTypeOK
<1>1. TypeInv => UartTypeOK
  BY DEF TypeInv
<1>. QED BY <1>1, TypeInitial, TypeStep, PTL DEF UartSpec

-----------------------------------------------------------------------------
(* The way in.  Taken counts the bytes tail has passed: one more than got  *)
(* while the main loop is between the two statements of CBuffer::read().   *)

Read == got + (IF pc = "load" THEN 1 ELSE 0)

RxInv ==
  /\ Read <= kept
  /\ Ring(rxHead, rxTail, rxArray, Read, kept - Read, 0)
  /\ pc = "take" => kept # Read
  /\ pc = "load" => rxArray[rxTail] = Read
  /\ last \in {got, MadeUp}

LEMMA RxInitial == UartInit => RxInv
  BY SizeIsEven DEF UartInit, RxInv, Read, Ring, At

(* The interrupt keeps a ring of read .. kept, if there is room for a byte *)
(* or the index it reads says there is none.                               *)
LEMMA Keeps ==
  ASSUME UartTypeOK, NEW t \in Index, NEW tail, NEW b \in Nat, b <= kept,
         Ring(rxHead, t, rxArray, b, kept - b, 0),
         kept - b # Size - 1 \/ IsFull(rxHead, tail),
         Keep(tail)
  PROVE  /\ Ring(rxHead', t, rxArray', b, kept' - b, 0)
         /\ kept <= kept'
         /\ \A i \in Index : i # NextOf(rxHead) => rxArray'[i] = rxArray[i]
         /\ kept' = kept => rxHead' = rxHead /\ rxArray' = rxArray
<1>1. rxHead \in Index /\ rxArray \in [Index -> Nat] /\ kept \in Nat
  BY DEF UartTypeOK
<1>2. CASE IsFull(rxHead, tail)
  BY <1>1, <1>2 DEF Keep
<1>3. CASE ~IsFull(rxHead, tail)
  <2>1. /\ kept' = kept + 1 /\ rxHead' = NextOf(rxHead)
        /\ rxArray' = [rxArray EXCEPT ![NextOf(rxHead)] = kept + 1]
    BY <1>3 DEF Keep
  <2>2. NextOf(rxHead) \in Index
    BY <1>1, NextOfIndex
  <2>3. Ring(rxHead', t, rxArray, b, kept - b + 1, b + (kept - b) + 1)
    BY <1>1, <1>3, <2>1, RingGrow
  <2>4. b + (kept - b) + 1 = b + (kept - b + 1) /\ kept - b + 1 = kept' - b
        /\ b + (kept - b + 1) = kept + 1
    BY <1>1, <2>1
  <2>5. Ring(rxHead', t, [rxArray EXCEPT ![rxHead'] = kept + 1], b, kept' - b, 0)
    BY <1>1, <2>1, <2>2, <2>3, <2>4, RingStore
  <2>6. \A i \in Index : i # NextOf(rxHead) => rxArray'[i] = rxArray[i]
    BY <1>1, <2>1
  <2>. QED BY <1>1, <2>1, <2>5, <2>6
<1>. QED BY <1>2, <1>3

(* The same when the interrupt sees tail itself.                           *)
LEMMA Receives ==
  ASSUME UartTypeOK, NEW torn \in BOOLEAN, NEW b \in Nat, b <= kept,
         Ring(rxHead, rxTail, rxArray, b, kept - b, 0),
         ReceiveInside(torn, rxTail)
  PROVE  /\ Ring(rxHead', rxTail, rxArray', b, kept' - b, 0)
         /\ kept <= kept'
         /\ rxArray'[rxTail] = rxArray[rxTail]
         /\ kept' = kept => rxHead' = rxHead
<1>1. rxHead \in Index /\ rxTail \in Index /\ kept \in Nat
  BY DEF UartTypeOK
<1>2. CASE torn
  <2>1. Keep(rxTail)
    BY <1>2 DEF ReceiveInside
  <2>2. kept - b # Size - 1 \/ IsFull(rxHead, rxTail)
    BY <1>1, RingEnds
  <2>3. /\ Ring(rxHead', rxTail, rxArray', b, kept' - b, 0)
        /\ kept <= kept'
        /\ \A i \in Index : i # NextOf(rxHead) => rxArray'[i] = rxArray[i]
        /\ kept' = kept => rxHead' = rxHead /\ rxArray' = rxArray
    BY <1>1, <2>1, <2>2, Keeps
  <2>4. rxArray'[rxTail] = rxArray[rxTail]
    <3>1. CASE IsFull(rxHead, rxTail)
      BY <3>1, <2>1 DEF Keep
    <3>2. CASE ~IsFull(rxHead, rxTail)
      BY <3>2, <1>1, <2>3 DEF IsFull
    <3>. QED BY <3>1, <3>2
  <2>. QED BY <2>3, <2>4
<1>3. CASE ~torn
  <2>1. UNCHANGED <<rxHead, rxArray, kept>>
    BY <1>3 DEF ReceiveInside
  <2>. QED BY <1>1, <2>1
<1>. QED BY <1>2, <1>3

LEMMA RxStep == TypeInv /\ RxInv /\ [UartNext]_uartVars => RxInv'
<1>. SUFFICES ASSUME TypeInv, RxInv, [UartNext]_uartVars PROVE RxInv'
  OBVIOUS
<1>0. /\ UartTypeOK /\ rxHead \in Index /\ rxTail \in Index /\ NextOf(rxTail) \in Index
      /\ kept \in Nat /\ got \in Nat /\ Read \in Nat
  BY NextOfIndex DEF TypeInv, UartTypeOK, Read
<1>1. /\ Read <= kept
      /\ Ring(rxHead, rxTail, rxArray, Read, kept - Read, 0)
      /\ pc = "take" => kept # Read
      /\ pc = "load" => rxArray[rxTail] = Read
      /\ last \in {got, MadeUp}
  BY DEF RxInv
<1>2. CASE WriteCall \/ WriteStep
  <2>1. UNCHANGED rxVars
    BY <1>2, WriteLeavesRx
  <2>2. pc \notin {"take", "load"} /\ pc' \notin {"take", "load"}
    BY <1>2 DEF WriteCall, WriteStep, MainAt, ReadFlag, WriteStraight, StoreByte,
       TurnTxOn, CheckFull, CheckEmpty, CheckFullAgain, AdvanceHead
  <2>. QED BY <2>1, <2>2, <1>1 DEF RxInv, Read, rxVars
<1>3. CASE TransmitInterrupt \/ Shift \/ UNCHANGED uartVars
  <2>1. UNCHANGED rxVars /\ pc' = pc
    BY <1>3, Zenon, WriteLeavesRx DEF TransmitInterrupt, Shift, uartVars
  <2>. QED BY <2>1, <1>1 DEF RxInv, Read, rxVars
<1>4. CASE ReceiveInterrupt
  <2>1. Keep(rxTail) /\ UNCHANGED <<pc, rxTail, got, last>> /\ ReceiveInside(TRUE, rxTail)
    BY <1>4 DEF ReceiveInterrupt, ReceiveInside
  <2>2. /\ Ring(rxHead', rxTail, rxArray', Read, kept' - Read, 0)
        /\ kept <= kept' /\ rxArray'[rxTail] = rxArray[rxTail]
    BY <1>0, <1>1, <2>1, Receives
  <2>3. kept' \in Nat
    BY <1>0, <2>1, KeepTypes
  <2>4. Read' = Read /\ Read <= kept' /\ (pc' = "take" => kept' # Read)
    BY <1>0, <1>1, <2>1, <2>2, <2>3 DEF Read
  <2>. QED BY <1>1, <2>1, <2>2, <2>4 DEF RxInv
<1>5. ASSUME NEW torn \in BOOLEAN, Available(torn) \/ CheckData(torn) PROVE RxInv'
  <2>1. /\ ReceiveInside(torn, rxTail) /\ UNCHANGED <<rxTail, got>>
        /\ pc \in {"idle", "check"} /\ pc' \in {"idle", "check", "take"}
        /\ last' \in {last, MadeUp}
        /\ pc' = "take" => ~IsEmpty(HeadSeen(torn), rxTail)
    BY <1>5 DEF Available, CheckData, MainAt
  <2>2. /\ Ring(rxHead', rxTail, rxArray', Read, kept' - Read, 0)
        /\ kept <= kept' /\ (kept' = kept => rxHead' = rxHead)
    BY <1>0, <1>1, <2>1, Receives
  <2>3. kept' \in Nat
    BY <1>0, <2>1, ReceiveTypes
  <2>4. Read' = Read /\ Read = got
    BY <1>0, <2>1 DEF Read
  <2>5. ASSUME pc' = "take", kept' = Read PROVE FALSE
    <3>1. kept = Read /\ kept' = kept /\ rxHead' = rxHead
      BY <1>0, <1>1, <2>2, <2>3, <2>5
    <3>2. IsEmpty(rxHead, rxTail) /\ ~IsFull(rxHead, rxTail)
      BY <1>0, <1>1, <3>1, RingEnds, SizeIsEven
    <3>3. ~torn
      BY <3>1, <3>2, <2>1, <1>0 DEF ReceiveInside, Keep
    <3>. QED BY <2>1, <2>5, <3>2, <3>3 DEF HeadSeen
  <2>. QED BY <1>0, <1>1, <2>1, <2>2, <2>3, <2>4, <2>5 DEF RxInv
<1>6. ASSUME NEW torn \in BOOLEAN, AdvanceTail(torn) PROVE RxInv'
  <2>1. PICK tail : ReceiveInside(torn, tail)
    BY <1>6 DEF AdvanceTail
  <2>2. pc = "take" /\ pc' = "load" /\ rxTail' = NextOf(rxTail) /\ UNCHANGED <<got, last>>
    BY <1>6 DEF AdvanceTail, MainAt
  <2>3. Read' = Read + 1 /\ kept # Read /\ Read + 1 \in Nat /\ Read + 1 <= kept
    BY <1>0, <1>1, <2>2 DEF Read
  <2>4. /\ Ring(rxHead, rxTail', rxArray, Read + 1, kept - Read - 1, 0)
        /\ rxArray[rxTail'] = Read + 1
    BY <1>0, <1>1, <2>2, <2>3, RingTake
  <2>5. kept - Read - 1 = kept - (Read + 1) /\ kept - Read - 1 # Size - 1
    BY <1>0, <1>1, <2>3, RingEnds, SizeIsEven
  <2>6. NextOf(rxHead) # rxTail' /\ rxTail' \in Index
    <3>1. kept - Read \in 1 .. Size - 1 /\ rxHead = At(rxTail, kept - Read)
      BY <1>0, <1>1, <2>3 DEF Ring
    <3>2. NextOf(rxHead) = At(rxHead, 1) /\ rxTail' = At(rxTail, 1)
      BY <1>0, <2>2, NextOfIndex
    <3>. QED BY <1>0, <2>2, <3>1, <3>2, SizeIsEven DEF At, Index
  <2>7. /\ Ring(rxHead', rxTail', rxArray', Read + 1, kept' - (Read + 1), 0)
        /\ kept <= kept' /\ rxArray'[rxTail'] = rxArray[rxTail']
    <3>1. CASE torn
      <4>1. Keep(tail)
        BY <2>1, <3>1 DEF ReceiveInside
      <4>. QED BY <1>0, <2>3, <2>4, <2>5, <2>6, <4>1, Keeps
    <3>2. CASE ~torn
      <4>1. UNCHANGED <<rxHead, rxArray, kept>>
        BY <2>1, <3>2 DEF ReceiveInside
      <4>. QED BY <1>0, <2>4, <2>5, <4>1
    <3>. QED BY <3>1, <3>2
  <2>8. kept' \in Nat
    BY <1>0, <2>1, ReceiveTypes
  <2>. QED BY <1>0, <1>1, <2>2, <2>3, <2>4, <2>7, <2>8 DEF RxInv
<1>7. CASE LoadByte
  <2>1. pc = "load" /\ pc' = "idle" /\ last' = rxArray[rxTail] /\ got' = got + 1
        /\ UNCHANGED <<rxHead, rxTail, rxArray, kept>>
    BY <1>7 DEF LoadByte, Loaded, MainAt
  <2>2. Read' = Read /\ Read = got'
    BY <1>0, <2>1 DEF Read
  <2>. QED BY <1>0, <1>1, <2>1, <2>2 DEF RxInv
<1>. QED
  BY <1>2, <1>3, <1>4, <1>5, <1>6, <1>7 DEF UartNext, ReadStep

(* The main loop reads what the interrupt kept, in order and each byte     *)
(* once, whatever the interrupt sees of tail.  (cbuffer.h:36-48, 24-33)    *)
THEOREM InputStaysAligned == UartSpec => []InputAligned
<1>1. UartInit => TypeInv /\ RxInv
  BY TypeInitial, RxInitial
<1>2. TypeInv /\ RxInv /\ [UartNext]_uartVars => (TypeInv /\ RxInv)'
  BY TypeStep, RxStep
<1>3. RxInv => InputAligned
  BY DEF RxInv, InputAligned
<1>. QED BY <1>1, <1>2, <1>3, PTL DEF UartSpec

-----------------------------------------------------------------------------
(* The way out.  Taken counts the bytes that have reached udr; between the *)
(* two statements of CBuffer::write() the last cell is not stored yet; and *)
(* unless the main loop is about to enable the interrupt, it is disabled   *)
(* only when tx_buffer is empty.                                           *)

Taken == sent + (IF udr = Empty THEN 0 ELSE 1)
Unstored == IF pc = "store" THEN put ELSE 0

TxInv ==
  /\ Taken <= put
  /\ Ring(txHead, txTail, txArray, Taken, put - Taken, Unstored)
  /\ pc = "advance" => put - Taken # Size - 1
  /\ pc \notin {"store", "enable"} => udrie \/ put = Taken
  /\ OutputAligned

LEMMA TxInitial == UartInit => TxInv
  BY SizeIsEven DEF UartInit, TxInv, Taken, Unstored, Ring, At, Empty, OutputAligned

(* The interrupt, when b bytes have been taken of the n + b accepted by    *)
(* then: it takes the next byte, or finds no more (or a torn head says so).*)
LEMMA Transmits ==
  ASSUME UartTypeOK, NEW h \in Index, NEW head, NEW b \in Nat, NEW n, NEW hole,
         Ring(h, txTail, txArray, b, n, hole),
         n = 0 => IsEmpty(head, txTail),
         b + 1 = hole => Claimed(NextOf(txTail)),
         TransmitNext(head)
  PROVE  \/ /\ udr' = b + 1 \/ (udr' \in Nat /\ early')
            /\ n # 0 /\ Ring(h, txTail', txArray, b + 1, n - 1, hole)
            /\ udrie' = udrie
         \/ /\ udr' = Empty /\ txTail' = txTail /\ IsEmpty(head, txTail)
<1>1. txTail \in Index /\ txArray \in [Index -> Nat] /\ NextOf(txTail) \in Index
  BY NextOfIndex DEF UartTypeOK
<1>2. CASE IsEmpty(head, txTail)
  BY <1>2 DEF TransmitNext
<1>3. CASE ~IsEmpty(head, txTail)
  <2>1. /\ txTail' = NextOf(txTail) /\ udr' = txArray[txTail'] /\ udrie' = udrie
    BY <1>3, Zenon DEF TransmitNext, Loaded
  <2>2. early' = Claimed(NextOf(txTail))
    BY <1>3, <2>1, Zenon DEF TransmitNext
  <2>3. /\ Ring(h, txTail', txArray, b + 1, n - 1, hole)
        /\ b + 1 # hole => udr' = b + 1
    BY <1>1, <1>3, <2>1, RingTake
  <2>4. b + 1 = hole => udr' \in Nat /\ early'
    BY <1>1, <2>1, <2>2
  <2>. QED BY <1>3, <2>1, <2>3, <2>4
<1>. QED BY <1>2, <1>3

(* An access of the main loop that leaves head alone, with the interrupt   *)
(* in its middle or not.                                                   *)
LEMMA TakenInside ==
  ASSUME UartTypeOK, TxInv, NEW torn \in BOOLEAN, pc \notin {"store", "enable"},
         TransmitInside(torn, txHead), UNCHANGED <<txHead, txArray, put>>
  PROVE  /\ Taken' \in Nat /\ Taken <= Taken' /\ Taken' <= put
         /\ Ring(txHead, txTail', txArray, Taken', put - Taken', 0)
         /\ udrie' \/ put = Taken'
         /\ OutputAligned'
         /\ torn => put = Taken' \/ Taken' = Taken + 1
         /\ ~torn => Taken' = Taken /\ txTail' = txTail /\ udr' = udr
<1>1. /\ Taken <= put
      /\ udrie \/ put = Taken
      /\ Ring(txHead, txTail, txArray, Taken, put - Taken, 0)
      /\ OutputAligned
  BY DEF TxInv, Unstored
<1>2. /\ Taken \in Nat /\ put \in Nat /\ sent \in Nat
      /\ txHead \in Index /\ txTail \in Index
  BY DEF UartTypeOK, Taken
<1>3. CASE torn
  <2>1. udrie /\ udr # Empty /\ sent' = sent + 1 /\ TransmitNext(txHead)
    BY <1>3 DEF TransmitInside
  <2>2. Taken = sent'
    BY <2>1 DEF Taken
  <2>3. put - Taken = 0 <=> IsEmpty(txHead, txTail)
    BY <1>1, <1>2, RingEnds
  <2>4. CASE /\ udr' = Taken + 1 \/ (udr' \in Nat /\ early')
             /\ put - Taken # 0
             /\ Ring(txHead, txTail', txArray, Taken + 1, put - Taken - 1, 0)
             /\ udrie' = udrie
    <3>1. udr' # Empty /\ Taken' = Taken + 1 /\ Taken + 1 <= put
      BY <1>1, <1>2, <2>2, <2>4 DEF Taken, Empty
    <3>2. put - Taken' = put - Taken - 1
      BY <3>1, <1>2
    <3>3. udrie'
      BY <2>1, <2>4, Zenon
    <3>4. OutputAligned'
      BY <2>2, <2>4 DEF OutputAligned
    <3>. QED BY <1>1, <1>2, <1>3, <2>4, <3>1, <3>2, <3>3, <3>4
  <2>5. CASE udr' = Empty /\ txTail' = txTail /\ IsEmpty(txHead, txTail)
    <3>1. Taken' = Taken /\ put = Taken /\ OutputAligned'
      BY <1>1, <1>2, <2>2, <2>3, <2>5 DEF Taken, OutputAligned
    <3>. QED BY <1>1, <1>2, <1>3, <2>5, <3>1
  <2>6. Taken + 1 # 0
    BY <1>2
  <2>7. \/ /\ udr' = Taken + 1 \/ (udr' \in Nat /\ early')
           /\ put - Taken # 0
           /\ Ring(txHead, txTail', txArray, Taken + 1, put - Taken - 1, 0)
           /\ udrie' = udrie
        \/ udr' = Empty /\ txTail' = txTail /\ IsEmpty(txHead, txTail)
    BY <1>1, <1>2, <2>1, <2>3, <2>6, Transmits
  <2>. QED BY <2>4, <2>5, <2>7
<1>4. CASE ~torn
  <2>1. UNCHANGED <<udr, sent, txTail>>
    BY <1>4 DEF TransmitInside
  <2>2. udrie' = udrie /\ early' = early
    BY <1>4, Zenon DEF TransmitInside
  <2>3. Taken' = Taken /\ OutputAligned'
    BY <1>1, <2>1, <2>2 DEF Taken, OutputAligned
  <2>4. udrie' \/ put = Taken'
    BY <1>1, <2>2, <2>3
  <2>. QED BY <1>1, <1>2, <1>4, <2>1, <2>3, <2>4
<1>. QED BY <1>3, <1>4

LEMMA TxStep == TypeInv /\ TxInv /\ [UartNext]_uartVars => TxInv'
<1>. SUFFICES ASSUME TypeInv, TxInv, [UartNext]_uartVars PROVE TxInv'
  OBVIOUS
<1>0. /\ UartTypeOK /\ txHead \in Index /\ txTail \in Index /\ NextOf(txHead) \in Index
      /\ put \in Nat /\ sent \in Nat /\ Taken \in Nat
      /\ txArray \in [Index -> Nat] /\ udr \in Nat \cup {Empty}
  BY NextOfIndex DEF TypeInv, UartTypeOK, Taken
<1>1. /\ Taken <= put
      /\ Ring(txHead, txTail, txArray, Taken, put - Taken, Unstored)
      /\ pc = "advance" => put - Taken # Size - 1
      /\ pc \notin {"store", "enable"} => udrie \/ put = Taken
      /\ OutputAligned
  BY DEF TxInv
<1>2. ASSUME UNCHANGED txVars, pc' \notin {"store", "advance"}, pc \notin {"store", "enable"}
      PROVE  TxInv'
  <2>1. /\ UNCHANGED <<txHead, txTail, txArray, udr, put, sent>>
        /\ Taken' = Taken /\ Unstored' = 0 /\ Unstored = 0
    BY <1>2 DEF txVars, Taken, Unstored
  <2>2. OutputAligned' /\ (udrie' \/ put' = Taken')
    BY <1>1, <1>2, <2>1, Zenon DEF OutputAligned, txVars
  <2>. QED BY <1>1, <1>2, <2>1, <2>2 DEF TxInv
<1>3. CASE WriteCall \/ ReadFlag
  BY <1>2, <1>3 DEF WriteCall, ReadFlag, MainAt
<1>4. CASE ReadStep
  <2>1. UNCHANGED txVars
    BY <1>4, ReadLeavesTx
  <2>2. /\ pc \in {"idle", "check", "take", "load"}
        /\ pc' \in {"idle", "check", "take", "load"}
    BY <1>4 DEF ReadStep, LoadByte, Available, CheckData, AdvanceTail, MainAt
  <2>. QED BY <1>2, <2>1, <2>2
<1>5. CASE ReceiveInterrupt \/ UNCHANGED uartVars
  <2>1. UNCHANGED txVars /\ pc' = pc
    BY <1>5, Zenon, ReadLeavesTx DEF ReceiveInterrupt, uartVars
  <2>2. /\ UNCHANGED <<txHead, txTail, txArray, udr, put, sent>>
        /\ Taken' = Taken /\ Unstored' = Unstored
    BY <2>1 DEF txVars, Taken, Unstored
  <2>3. udrie' = udrie /\ early' = early
    BY <2>1, Zenon DEF txVars
  <2>4. OutputAligned' /\ (pc' \notin {"store", "enable"} => udrie' \/ put' = Taken')
    BY <1>1, <2>1, <2>2, <2>3, Zenon DEF OutputAligned
  <2>. QED BY <1>1, <2>1, <2>2, <2>4 DEF TxInv
<1>6. ASSUME NEW torn \in BOOLEAN, CheckFull(torn) \/ CheckEmpty(torn) PROVE TxInv'
  <2>1. /\ pc \notin {"store", "enable"} /\ pc' \notin {"store", "enable", "advance"}
        /\ TransmitInside(torn, txHead) /\ UNCHANGED <<txHead, txArray, put>>
    BY <1>6 DEF CheckFull, CheckEmpty, MainAt, Refuse, Proceed
  <2>2. /\ Taken' <= put /\ OutputAligned'
        /\ Ring(txHead, txTail', txArray, Taken', put - Taken', 0)
        /\ udrie' \/ put = Taken'
    BY <1>0, <2>1, TakenInside
  <2>. QED BY <2>1, <2>2 DEF TxInv, Unstored
<1>7. CASE WriteStraight
  <2>1. /\ pc = "direct" /\ ~Pending /\ pc' = "idle"
        /\ UNCHANGED <<txHead, txTail, txArray, sent>>
    BY <1>7 DEF WriteStraight, MainAt
  <2>2. udrie' = udrie
    BY <1>7, Zenon DEF WriteStraight
  <2>3. CASE udr = Empty
    <3>1. udr' = put + 1 /\ put' = put + 1
      BY <1>7, <2>3 DEF WriteStraight
    <3>2. put = Taken /\ Taken = sent
      BY <1>0, <1>1, <2>1, <2>3 DEF Pending, Taken
    <3>3. Taken' = Taken + 1 /\ put' = Taken' /\ OutputAligned'
      BY <1>0, <2>1, <3>1, <3>2 DEF Taken, Empty, OutputAligned
    <3>4. txHead = txTail /\ Ring(txHead, txTail, txArray, Taken + 1, 0, 0)
      BY <1>0, <1>1, <3>2, SizeIsEven DEF Ring, At, Index
    <3>5. put' - Taken' = 0 /\ Taken' <= put'
      BY <1>0, <3>1, <3>3
    <3>. QED BY <2>1, <3>3, <3>4, <3>5 DEF TxInv, Unstored
  <2>4. CASE udr # Empty
    <3>1. udr' = udr /\ put' = put /\ early' = early
      BY <1>7, <2>4, Zenon DEF WriteStraight
    <3>2. UNCHANGED txVars
      BY <2>1, <2>2, <3>1 DEF txVars
    <3>. QED BY <1>2, <2>1, <3>2
  <2>. QED BY <2>3, <2>4
<1>8. ASSUME NEW torn \in BOOLEAN, CheckFullAgain(torn) PROVE TxInv'
  <2>1. /\ pc = "put" /\ pc' \in {"enable", "advance"}
        /\ pc' = "advance" => ~IsFull(txHead, TailSeen(torn))
        /\ TransmitInside(torn, txHead) /\ UNCHANGED <<txHead, txArray, put>>
    BY <1>8 DEF CheckFullAgain, MainAt, Refuse, Proceed
  <2>2. /\ Taken' \in Nat /\ Taken' <= put /\ OutputAligned'
        /\ Ring(txHead, txTail', txArray, Taken', put - Taken', 0)
        /\ udrie' \/ put = Taken'
        /\ torn => put = Taken' \/ Taken' = Taken + 1
        /\ ~torn => Taken' = Taken /\ txTail' = txTail /\ udr' = udr
    BY <1>0, <2>1, TakenInside
  <2>3. ASSUME pc' = "advance" PROVE put - Taken' # Size - 1
    <3>1. put - Taken \in 0 .. Size - 1
      BY <1>1 DEF Ring
    <3>2. CASE torn
      <4>1. put = Taken' \/ Taken' = Taken + 1
        BY <3>2, <2>2
      <4>. QED BY <3>1, <4>1, <1>0, SizeIsEven
    <3>3. CASE ~torn
      <4>1. ~IsFull(txHead, txTail)
        BY <2>1, <2>3, <3>3 DEF TailSeen
      <4>. QED BY <1>0, <1>1, <2>2, <3>3, <4>1, RingEnds
    <3>. QED BY <3>2, <3>3
  <2>. QED BY <2>1, <2>2, <2>3 DEF TxInv, Unstored
<1>9. ASSUME NEW torn \in BOOLEAN, AdvanceHead(torn) PROVE TxInv'
  <2>1. /\ pc = "advance" /\ pc' = "store" /\ put' = put + 1
        /\ txHead' = NextOf(txHead) /\ UNCHANGED txArray
    BY <1>9 DEF AdvanceHead, MainAt
  <2>2. PICK head : TransmitInside(torn, head)
    BY <1>9 DEF AdvanceHead
  <2>3. /\ Ring(txHead, txTail, txArray, Taken, put - Taken, 0)
        /\ put - Taken # Size - 1
    BY <1>1, <2>1 DEF Unstored
  <2>4. Ring(txHead', txTail, txArray, Taken, put - Taken + 1, Taken + (put - Taken) + 1)
    BY <1>0, <2>1, <2>3, RingGrow
  <2>5. /\ Taken + (put - Taken) + 1 = put' /\ put - Taken + 1 = put' - Taken
        /\ Taken <= put' /\ put' \in Nat
    BY <1>0, <1>1, <2>1
  <2>6. Ring(txHead', txTail, txArray, Taken, put' - Taken, put')
    BY <2>4, <2>5
  <2>7. Unstored' = put'
    BY <2>1 DEF Unstored
  <2>8. CASE torn
    <3>1. udr # Empty /\ sent' = sent + 1 /\ TransmitNext(head)
      BY <2>2, <2>8 DEF TransmitInside
    <3>2. Taken = sent'
      BY <3>1 DEF Taken
    <3>3. ASSUME Taken + 1 = put' PROVE Claimed(NextOf(txTail))
      <4>1. put - Taken = 0
        BY <3>3, <1>0, <2>1
      <4>2. txHead = txTail
        BY <4>1, <1>0, <2>3, RingEnds DEF IsEmpty
      <4>. QED BY <4>2, <2>1 DEF Claimed
    <3>4. put' - Taken # 0
      BY <1>0, <1>1, <2>1
    <3>5. \/ /\ udr' = Taken + 1 \/ (udr' \in Nat /\ early')
             /\ Ring(txHead', txTail', txArray, Taken + 1, put' - Taken - 1, put')
          \/ udr' = Empty /\ txTail' = txTail
      <4>1. txHead' \in Index
        BY <1>0, <2>1
      <4>. QED BY <4>1, <1>0, <2>6, <3>1, <3>3, <3>4, Transmits
    <3>6. CASE /\ udr' = Taken + 1 \/ (udr' \in Nat /\ early')
               /\ Ring(txHead', txTail', txArray, Taken + 1, put' - Taken - 1, put')
      <4>1. Taken' = Taken + 1 /\ Taken + 1 <= put'
        BY <1>0, <1>1, <2>1, <3>2, <3>6 DEF Taken, Empty
      <4>2. put' - Taken' = put' - Taken - 1
        BY <4>1, <1>0, <2>5
      <4>3. OutputAligned'
        BY <3>2, <3>6 DEF OutputAligned
      <4>. QED BY <2>1, <2>7, <3>6, <4>1, <4>2, <4>3 DEF TxInv
    <3>7. CASE udr' = Empty /\ txTail' = txTail
      <4>1. Taken' = Taken /\ OutputAligned'
        BY <1>0, <3>2, <3>7 DEF Taken, OutputAligned
      <4>. QED BY <2>1, <2>5, <2>6, <2>7, <3>7, <4>1 DEF TxInv
    <3>. QED BY <3>5, <3>6, <3>7
  <2>9. CASE ~torn
    <3>1. UNCHANGED <<udr, sent, txTail>>
      BY <2>2, <2>9 DEF TransmitInside
    <3>2. early' = early
      BY <2>2, <2>9, Zenon DEF TransmitInside
    <3>3. Taken' = Taken /\ OutputAligned'
      BY <1>1, <3>1, <3>2 DEF Taken, OutputAligned
    <3>. QED BY <2>1, <2>5, <2>6, <2>7, <3>1, <3>3 DEF TxInv
  <2>. QED BY <2>8, <2>9
<1>10. CASE StoreByte
  <2>1. /\ pc = "store" /\ pc' = "enable" /\ txArray' = [txArray EXCEPT ![txHead] = put]
        /\ UNCHANGED <<txHead, txTail, udr, put, sent>>
    BY <1>10 DEF StoreByte, MainAt
  <2>2. early' = early
    BY <1>10, Zenon DEF StoreByte
  <2>3. /\ Taken' = Taken /\ OutputAligned' /\ Unstored = put /\ Unstored' = 0
    BY <1>1, <2>1, <2>2 DEF Taken, Unstored, OutputAligned
  <2>4. Taken + (put - Taken) = put
    BY <1>0
  <2>5. Ring(txHead, txTail, txArray', Taken, put - Taken, 0)
    BY <1>0, <1>1, <2>1, <2>3, <2>4, RingStore
  <2>. QED BY <1>1, <2>1, <2>3, <2>5 DEF TxInv
<1>11. CASE TurnTxOn
  <2>1. /\ pc = "enable" /\ pc' = "idle"
        /\ UNCHANGED <<txHead, txTail, txArray, udr, put, sent>>
    BY <1>11 DEF TurnTxOn, MainAt
  <2>2. early' = early /\ udrie'
    BY <1>11, Zenon DEF TurnTxOn, EnabledAfter
  <2>3. Taken' = Taken /\ OutputAligned' /\ Unstored' = Unstored
    BY <1>1, <2>1, <2>2 DEF Taken, Unstored, OutputAligned
  <2>. QED BY <1>1, <2>1, <2>2, <2>3 DEF TxInv
<1>12. CASE TransmitInterrupt
  <2>1. /\ udr = Empty /\ TransmitNext(txHead)
        /\ UNCHANGED <<pc, txHead, txArray, put, sent>>
    BY <1>12 DEF TransmitInterrupt, Pending
  <2>2. udrie
    BY <1>12, Zenon DEF TransmitInterrupt, Pending
  <2>3. Taken = sent /\ Unstored' = Unstored
    BY <1>0, <2>1 DEF Taken, Unstored
  <2>4. put - Taken = 0 <=> IsEmpty(txHead, txTail)
    BY <1>0, <1>1, RingEnds
  <2>5. ASSUME Taken + 1 = Unstored PROVE Claimed(NextOf(txTail))
    <3>1. pc = "store" /\ put - Taken = 1
      BY <2>5, <1>0 DEF Unstored
    <3>2. txHead = At(txTail, 1)
      BY <3>1, <1>1 DEF Ring
    <3>. QED BY <3>1, <3>2, <1>0, NextOfIndex DEF Claimed
  <2>6. \/ /\ udr' = Taken + 1 \/ (udr' \in Nat /\ early')
           /\ put - Taken # 0
           /\ Ring(txHead, txTail', txArray, Taken + 1, put - Taken - 1, Unstored)
           /\ udrie' = udrie
        \/ udr' = Empty /\ txTail' = txTail /\ IsEmpty(txHead, txTail)
    BY <1>0, <1>1, <2>1, <2>4, <2>5, Transmits
  <2>7. CASE /\ udr' = Taken + 1 \/ (udr' \in Nat /\ early')
             /\ put - Taken # 0
             /\ Ring(txHead, txTail', txArray, Taken + 1, put - Taken - 1, Unstored)
             /\ udrie' = udrie
    <3>1. Taken' = Taken + 1 /\ Taken + 1 <= put
      BY <1>0, <1>1, <2>1, <2>3, <2>7 DEF Taken, Empty
    <3>2. put - Taken' = put - Taken - 1
      BY <3>1, <1>0
    <3>3. udrie'
      BY <2>2, <2>7, Zenon
    <3>4. OutputAligned'
      BY <2>1, <2>3, <2>7 DEF OutputAligned
    <3>5. pc' = "advance" => put - Taken' # Size - 1
      <4>1. put - Taken \in 0 .. Size - 1
        BY <1>1 DEF Ring
      <4>. QED BY <4>1, <3>2, <1>0, SizeIsEven
    <3>. QED BY <2>1, <2>3, <2>7, <3>1, <3>2, <3>3, <3>4, <3>5 DEF TxInv
  <2>8. CASE udr' = Empty /\ txTail' = txTail /\ IsEmpty(txHead, txTail)
    <3>1. Taken' = Taken /\ OutputAligned' /\ put = Taken
      BY <1>0, <2>1, <2>3, <2>4, <2>8 DEF Taken, OutputAligned
    <3>. QED BY <1>1, <2>1, <2>3, <2>8, <3>1 DEF TxInv
  <2>. QED BY <2>6, <2>7, <2>8
<1>13. CASE Shift
  <2>1. /\ udr # Empty /\ udr' = Empty /\ sent' = sent + 1
        /\ UNCHANGED <<pc, txHead, txTail, txArray, put>>
    BY <1>13 DEF Shift
  <2>2. udrie' = udrie
    BY <1>13, Zenon DEF Shift
  <2>3. Taken' = Taken /\ OutputAligned' /\ Unstored' = Unstored
    BY <1>0, <2>1 DEF Taken, Unstored, OutputAligned
  <2>. QED BY <1>1, <2>1, <2>2, <2>3 DEF TxInv
<1>. QED
  BY <1>3, <1>4, <1>5, <1>6, <1>7, <1>8, <1>9, <1>10, <1>11, <1>12, <1>13
     DEF UartNext, WriteStep

(* Bytes leave in the order they were put, none left out and none twice,   *)
(* although head is advanced before the cell is stored and read in halves. *)
(* (uart.cpp:34-52, 89-101; cbuffer.h:24-48)                               *)
THEOREM OutputStaysAligned == UartSpec => []OutputAligned
<1>1. UartInit => TypeInv /\ TxInv
  BY TypeInitial, TxInitial
<1>2. TypeInv /\ TxInv /\ [UartNext]_uartVars => (TypeInv /\ TxInv)'
  BY TypeStep, TxStep
<1>3. TxInv => OutputAligned
  BY DEF TxInv
<1>. QED BY <1>1, <1>2, <1>3, PTL DEF UartSpec

-----------------------------------------------------------------------------
(* Below half a ring.  An index that is read or written in halves is the   *)
(* old one, the new one, or half a ring away from it.                      *)

LEMMA Halves ==
  ASSUME NEW i \in Index
  PROVE  /\ i < ByteBase => i \div ByteBase = 0 /\ i % ByteBase = i
         /\ i >= ByteBase => i \div ByteBase = 1 /\ i % ByteBase = i - ByteBase
<1>1. ByteBase \in Nat /\ ByteBase >= 1 /\ Size = 2 * ByteBase
  OBVIOUS
<1>2. i \in Nat /\ i < 2 * ByteBase
  BY <1>1 DEF Index
<1>3. CASE i < ByteBase
  BY <1>1, <1>2, <1>3
<1>4. CASE i >= ByteBase
  BY <1>1, <1>2, <1>4
<1>. QED BY <1>3, <1>4

LEMMA MixedHalves ==
  ASSUME NEW i \in Index, NEW j \in Index
  PROVE  Mixed(i, j) = IF i < ByteBase THEN IF j < ByteBase THEN i ELSE i + ByteBase
                       ELSE IF j < ByteBase THEN i - ByteBase ELSE i
<1>1. ByteBase \in Nat /\ i \in Nat
  BY SizeIsEven DEF Index
<1>2. /\ j < ByteBase => ByteBase * (j \div ByteBase) = 0
      /\ j >= ByteBase => ByteBase * (j \div ByteBase) = ByteBase
  BY <1>1, Halves
<1>3. i % ByteBase = IF i < ByteBase THEN i ELSE i - ByteBase
  BY <1>1, Halves DEF Index
<1>. QED BY <1>1, <1>2, <1>3 DEF Mixed, Index

LEMMA TornIndex ==
  ASSUME NEW i \in Index
  PROVE  /\ Mixed(i, i) = i
         /\ Mixed(i, NextOf(i)) \in {i, At(i, ByteBase)}
         /\ Mixed(NextOf(i), i) \in {NextOf(i), At(NextOf(i), ByteBase)}
<1>1. ByteBase \in Nat /\ ByteBase >= 1 /\ Size = 2 * ByteBase
  OBVIOUS
<1>2. NextOf(i) \in Index /\ NextOf(i) = IF i + 1 = Size THEN 0 ELSE i + 1
  BY <1>1, NextOfIndex DEF At, Index
<1>3. i \in Nat /\ i < Size
  BY <1>1 DEF Index
<1>4. Mixed(i, i) = i
  BY <1>1, <1>3, MixedHalves
<1>5. Mixed(i, NextOf(i)) \in {i, At(i, ByteBase)}
  <2>1. Mixed(i, NextOf(i)) =
          IF i < ByteBase THEN IF NextOf(i) < ByteBase THEN i ELSE i + ByteBase
          ELSE IF NextOf(i) < ByteBase THEN i - ByteBase ELSE i
    BY <1>2, MixedHalves
  <2>. QED BY <1>1, <1>2, <1>3, <2>1 DEF At
<1>6. Mixed(NextOf(i), i) \in {NextOf(i), At(NextOf(i), ByteBase)}
  <2>1. Mixed(NextOf(i), i) =
          IF NextOf(i) < ByteBase THEN IF i < ByteBase THEN NextOf(i) ELSE NextOf(i) + ByteBase
          ELSE IF i < ByteBase THEN NextOf(i) - ByteBase ELSE NextOf(i)
    BY <1>2, MixedHalves
  <2>. QED BY <1>1, <1>2, <1>3, <2>1 DEF At
<1>. QED BY <1>4, <1>5, <1>6

LEMMA HeldOfIndices ==
  ASSUME NEW h \in Index, NEW t \in Index
  PROVE  Held(h, t) = IF h >= t THEN h - t ELSE h - t + Size
<1>1. Size \in Nat /\ Size >= 2 /\ h \in Nat /\ t \in Nat /\ h < Size /\ t < Size
  BY SizeIsEven DEF Index
<1>2. CASE h >= t
  <2>1. h - t \in 0 .. Size - 1 /\ h - t + Size = (h - t) + 1 * Size
    BY <1>1, <1>2
  <2>2. ((h - t) + 1 * Size) % Size = (h - t) % Size /\ (h - t) % Size = h - t
    BY <1>1, <2>1
  <2>. QED BY <1>2, <2>1, <2>2 DEF Held
<1>3. CASE h < t
  <2>1. h - t + Size \in 0 .. Size - 1
    BY <1>1, <1>3
  <2>. QED BY <1>1, <1>3, <2>1 DEF Held
<1>. QED BY <1>1, <1>2, <1>3

(* What an index seen in halves may claim of a ring that holds less.       *)
LEMMA TornTail ==
  ASSUME NEW h \in Index, NEW t \in Index
  PROVE  /\ IsFull(h, t) => Held(h, t) >= ByteBase - 1
         /\ IsFull(h, Mixed(t, NextOf(t))) => Held(h, t) >= ByteBase - 1
         /\ IsFull(h, Mixed(NextOf(t), t)) /\ h # t => Held(h, t) >= ByteBase - 1
         /\ IsEmpty(Mixed(h, NextOf(h)), t) /\ h # t => Held(h, t) >= ByteBase - 1
<1>1. ByteBase \in Nat /\ ByteBase >= 1 /\ Size = 2 * ByteBase
  OBVIOUS
<1>2. h \in Nat /\ t \in Nat /\ h < Size /\ t < Size
  BY <1>1 DEF Index
<1>3. /\ NextOf(h) = IF h + 1 = Size THEN 0 ELSE h + 1
      /\ NextOf(t) = IF t + 1 = Size THEN 0 ELSE t + 1
  BY <1>1, <1>2, NextOfIndex DEF At
<1>4. Held(h, t) = IF h >= t THEN h - t ELSE h - t + Size
  BY HeldOfIndices
<1>5. IsFull(h, t) => Held(h, t) >= ByteBase - 1
  BY <1>1, <1>2, <1>3, <1>4 DEF IsFull
<1>6. ASSUME IsFull(h, Mixed(t, NextOf(t))) PROVE Held(h, t) >= ByteBase - 1
  <2>1. NextOf(h) \in {t, At(t, ByteBase)}
    BY <1>6, TornIndex DEF IsFull
  <2>. QED BY <1>1, <1>2, <1>3, <1>4, <2>1 DEF At
<1>7. ASSUME IsFull(h, Mixed(NextOf(t), t)), h # t PROVE Held(h, t) >= ByteBase - 1
  <2>1. NextOf(h) \in {NextOf(t), At(NextOf(t), ByteBase)}
    BY <1>7, TornIndex DEF IsFull
  <2>. QED BY <1>1, <1>2, <1>3, <1>4, <1>7, <2>1 DEF At
<1>8. ASSUME IsEmpty(Mixed(h, NextOf(h)), t), h # t PROVE Held(h, t) >= ByteBase - 1
  <2>1. t \in {h, At(h, ByteBase)}
    BY <1>8, TornIndex DEF IsEmpty
  <2>. QED BY <1>1, <1>2, <1>4, <1>8, <2>1 DEF At
<1>. QED BY <1>5, <1>6, <1>7, <1>8

(* Between available() and the byte it promised the ring is not empty.     *)
PromiseInv == pc \in {"check", "take"} => rxHead # rxTail

LEMMA KeepsPromise ==
  ASSUME UartTypeOK, Keep(rxTail)
  PROVE  /\ rxHead # rxTail => rxHead' # rxTail
         /\ rxHead' # rxTail
<1>1. rxHead \in Index /\ Size \in Nat /\ Size >= 2
  BY SizeIsEven DEF UartTypeOK
<1>2. NextOf(rxHead) # rxHead
  BY <1>1, NextOfIndex DEF At, Index
<1>. QED BY <1>2 DEF Keep, IsFull

LEMMA PromiseStep == TypeInv /\ PromiseInv /\ [UartNext]_uartVars => PromiseInv'
<1>. SUFFICES ASSUME TypeInv, PromiseInv, [UartNext]_uartVars PROVE PromiseInv'
  OBVIOUS
<1>0. UartTypeOK
  BY DEF TypeInv
<1>1. CASE WriteCall \/ WriteStep
  BY <1>1 DEF WriteCall, WriteStep, ReadFlag, WriteStraight, StoreByte, TurnTxOn,
              CheckFull, CheckEmpty, CheckFullAgain, AdvanceHead, PromiseInv
<1>2. CASE TransmitInterrupt \/ Shift \/ UNCHANGED uartVars
  <2>1. UNCHANGED rxVars /\ pc' = pc
    BY <1>2, Zenon, WriteLeavesRx DEF TransmitInterrupt, Shift, uartVars
  <2>. QED BY <2>1 DEF PromiseInv, rxVars
<1>3. CASE ReceiveInterrupt
  <2>1. Keep(rxTail) /\ pc' = pc /\ rxTail' = rxTail
    BY <1>3 DEF ReceiveInterrupt
  <2>. QED BY <1>0, <2>1, KeepsPromise DEF PromiseInv
<1>4. ASSUME NEW torn \in BOOLEAN, Available(torn) \/ CheckData(torn) PROVE PromiseInv'
  <2>1. /\ ReceiveInside(torn, rxTail) /\ rxTail' = rxTail
        /\ pc' \in {"check", "take"} => ~IsEmpty(HeadSeen(torn), rxTail)
    BY <1>4 DEF Available, CheckData
  <2>2. CASE torn
    BY <1>0, <2>1, <2>2, KeepsPromise DEF ReceiveInside, PromiseInv
  <2>3. CASE ~torn
    BY <2>1, <2>3 DEF ReceiveInside, HeadSeen, IsEmpty, PromiseInv
  <2>. QED BY <2>2, <2>3
<1>5. ASSUME NEW torn \in BOOLEAN, AdvanceTail(torn) PROVE PromiseInv'
  BY <1>5 DEF AdvanceTail, PromiseInv
<1>6. CASE LoadByte
  BY <1>6 DEF LoadByte, PromiseInv
<1>. QED BY <1>1, <1>2, <1>3, <1>4, <1>5, <1>6 DEF UartNext, ReadStep

(* is_full() of write(), with the transmit interrupt in it or not.         *)
LEMMA RefusalMeansHalf ==
  ASSUME UartTypeOK, NEW torn \in BOOLEAN, TransmitInside(torn, txHead),
         IsFull(txHead, TailSeen(torn))
  PROVE  Held(txHead, txTail) >= ByteBase - 1
<1>1. txHead \in Index /\ txTail \in Index
  BY DEF UartTypeOK
<1>2. CASE torn /\ ~IsEmpty(txHead, txTail)
  <2>1. txTail' = NextOf(txTail)
    BY <1>2 DEF TransmitInside, TransmitNext
  <2>. QED BY <1>1, <1>2, <2>1, TornTail DEF TailSeen
<1>3. CASE torn /\ IsEmpty(txHead, txTail)
  <2>1. TailSeen(torn) = txTail
    BY <1>1, <1>3, TornIndex DEF TransmitInside, TransmitNext, TailSeen
  <2>. QED BY <1>1, <2>1, TornTail
<1>4. CASE ~torn
  BY <1>1, <1>4, TornTail DEF TailSeen
<1>. QED BY <1>2, <1>3, <1>4

(* The same of a byte that read() makes up.                                *)
LEMMA MadeUpMeansHalf ==
  ASSUME UartTypeOK, NEW torn \in BOOLEAN, ReceiveInside(torn, rxTail),
         rxHead # rxTail, IsEmpty(HeadSeen(torn), rxTail) \/ Drops(torn, rxTail)
  PROVE  Held(rxHead, rxTail) >= ByteBase - 1
<1>1. rxHead \in Index /\ rxTail \in Index
  BY DEF UartTypeOK
<1>2. CASE IsFull(rxHead, rxTail)
  BY <1>1, <1>2, TornTail
<1>3. CASE ~IsFull(rxHead, rxTail)
  <2>1. IsEmpty(HeadSeen(torn), rxTail)
    BY <1>3 DEF Drops
  <2>2. torn
    BY <2>1 DEF HeadSeen, IsEmpty
  <2>3. rxHead' = NextOf(rxHead)
    BY <1>3, <2>2 DEF ReceiveInside, Keep
  <2>. QED BY <1>1, <2>1, <2>2, <2>3, TornTail DEF HeadSeen
<1>. QED BY <1>2, <1>3

(* Nothing is refused, dropped or made up before half a ring is held, for  *)
(* a ring of any even size.  (uart.cpp:58-76; cbuffer.h:24-70)             *)
THEOREM NothingLostBelowHalf == UartSpec => ExactBelowHalf
<1>. DEFINE Lost == exact /\ ~exact' =>
                      \/ Held(txHead, txTail) >= ByteBase - 1
                      \/ Held(rxHead, rxTail) >= ByteBase - 1
                      \/ pc = "direct"
<1>1. UartInit => TypeInv /\ PromiseInv
  BY TypeInitial DEF UartInit, PromiseInv
<1>2. TypeInv /\ PromiseInv /\ [UartNext]_uartVars => (TypeInv /\ PromiseInv)'
  BY TypeStep, PromiseStep
<1>3. TypeInv /\ PromiseInv /\ [UartNext]_uartVars => [Lost]_uartVars
  <2>. SUFFICES ASSUME TypeInv, PromiseInv, UartNext, exact, ~exact', pc # "direct"
                PROVE  \/ Held(txHead, txTail) >= ByteBase - 1
                       \/ Held(rxHead, rxTail) >= ByteBase - 1
    OBVIOUS
  <2>1. UartTypeOK /\ rxHead \in Index /\ rxTail \in Index /\ NextOf(rxTail) \in Index
    BY NextOfIndex DEF TypeInv, UartTypeOK
  <2>2. ASSUME NEW torn \in BOOLEAN, CheckFull(torn) \/ CheckFullAgain(torn)
        PROVE  Held(txHead, txTail) >= ByteBase - 1
    <3>1. TransmitInside(torn, txHead) /\ IsFull(txHead, TailSeen(torn))
      BY <2>2 DEF CheckFull, CheckFullAgain, Proceed
    <3>. QED BY <2>1, <3>1, RefusalMeansHalf
  <2>3. ASSUME NEW torn \in BOOLEAN, CheckEmpty(torn) \/ AdvanceHead(torn) PROVE FALSE
    BY <2>3 DEF CheckEmpty, AdvanceHead, Proceed
  <2>4. CASE \/ WriteCall \/ ReadFlag \/ StoreByte \/ TurnTxOn \/ LoadByte
             \/ TransmitInterrupt \/ Shift \/ WriteStraight
    BY <2>4 DEF WriteCall, ReadFlag, StoreByte, TurnTxOn, LoadByte, TransmitInterrupt,
                Shift, WriteStraight, MainAt
  <2>5. CASE ReceiveInterrupt
    <3>1. IsFull(rxHead, rxTail)
      <4>1. exact' = (exact /\ ~IsFull(rxHead, rxTail))
        BY <2>5 DEF ReceiveInterrupt
      <4>. QED BY <4>1, Zenon
    <3>. QED BY <2>1, <3>1, TornTail
  <2>6. ASSUME NEW torn \in BOOLEAN, Available(torn)
        PROVE  Held(rxHead, rxTail) >= ByteBase - 1
    <3>1. Drops(torn, rxTail)
      <4>1. exact' = (exact /\ ~Drops(torn, rxTail))
        BY <2>6 DEF Available
      <4>. QED BY <4>1, Zenon
    <3>. QED BY <2>1, <3>1, TornTail DEF Drops
  <2>7. ASSUME NEW torn \in BOOLEAN, CheckData(torn)
        PROVE  Held(rxHead, rxTail) >= ByteBase - 1
    <3>1. pc = "check" /\ ReceiveInside(torn, rxTail)
      BY <2>7 DEF CheckData, MainAt
    <3>2. IsEmpty(HeadSeen(torn), rxTail) \/ Drops(torn, rxTail)
      <4>1. ~IsEmpty(HeadSeen(torn), rxTail) => exact' = (exact /\ ~Drops(torn, rxTail))
        BY <2>7 DEF CheckData
      <4>. QED BY <4>1, Zenon
    <3>. QED BY <2>1, <3>1, <3>2, MadeUpMeansHalf DEF PromiseInv
  <2>8. ASSUME NEW torn \in BOOLEAN, AdvanceTail(torn)
        PROVE  Held(rxHead, rxTail) >= ByteBase - 1
    <3>1. pc = "take" /\ rxTail' = NextOf(rxTail)
      BY <2>8 DEF AdvanceTail, MainAt
    <3>2. PICK tail \in {Mixed(rxTail, rxTail'), Mixed(rxTail', rxTail)} :
               exact' = (exact /\ ~Drops(torn, tail))
      BY <2>8 DEF AdvanceTail
    <3>3. Drops(torn, tail)
      BY <3>2, Zenon
    <3>4. IsFull(rxHead, tail) /\ rxHead # rxTail
      BY <3>1, <3>3 DEF Drops, PromiseInv
    <3>. QED BY <2>1, <3>1, <3>2, <3>4, TornTail
  <2>. QED BY <2>2, <2>3, <2>4, <2>5, <2>6, <2>7, <2>8 DEF UartNext, WriteStep, ReadStep
<1>. QED BY <1>1, <1>2, <1>3, PTL DEF UartSpec, ExactBelowHalf

=============================================================================
