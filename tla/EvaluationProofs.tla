--------------------------- MODULE EvaluationProofs ---------------------------
(***************************************************************************)
(* What holds of evaluations for every value of the constants.  On the     *)
(* command line the judge's opinion stays apart from the scores and is     *)
(* charged with its own calls; in the API each case counts once and the    *)
(* dashboards of both repositories agree at every moment.                  *)
(***************************************************************************)
EXTENDS ApiParts, Integers, Sequences, FiniteSets, FiniteSetTheorems,
        WellFoundedInduction, TLAPS

------------------------------------------------------------------------------
(* Judging on the command line.                                             *)

Named == {Harness!ToSet(a) : a \in Answers} \cup {{}}
OnTrack == {Harness!TrackAt(i) : i \in Nat}
InCase == {Harness!CaseAt(i) : i \in Nat}
Opinion == [status : {"none", "error", "scored"}, names : Named, tokens : Nat]
Row == [track : OnTrack, case : InCase, passed : BOOLEAN, output : Harness!Outputs,
        judge : Opinion, paid : Nat]

HarnessTypes ==
  /\ rows \in Seq(Row) /\ file \in Seq(Row)
  /\ at \in [stage : {"run", "ask", "next", "off"}, row : Nat]
  /\ usage \in Nat /\ rejudges \in Nat

\* Nothing is left to say about the row, after r files judged again.
Settled(x, r) ==
  /\ x.judge.tokens = x.paid
  /\ x.judge.status = "scored" =>
       /\ x.judge.names = Criteria[x.case] /\ Criteria[x.case] # {}
       /\ x.output = "text" \/ r > 0
  /\ Judged /\ x.output = "text" => x.judge.status # "none"

InPlace(x, i) == x.track = Harness!TrackAt(i) /\ x.case = Harness!CaseAt(i)

\* The judge is toJudge about one row at a time, which has paid for what was used since the
\* last verdict; every other row is settled.
OneAtATime ==
  /\ \A i \in DOMAIN rows : InPlace(rows[i], i)
  /\ \A i \in DOMAIN rows : (at.stage = "ask" /\ i = at.row) \/ Settled(rows[i], rejudges)
  /\ at.stage = "ask" =>
       /\ at.row \in DOMAIN rows /\ rows[at.row].paid = usage
       /\ Criteria[rows[at.row].case] # {}
       /\ rows[at.row].output = "text" \/ rejudges > 0
  /\ at.stage # "ask" => usage = 0
  /\ at.stage = "next" => rejudges > 0

FileSettled == \A i \in DOMAIN file : InPlace(file[i], i) /\ Settled(file[i], rejudges)

HarnessInv == HarnessTypes /\ OneAtATime /\ FileSettled

LEMMA HarnessInit == Harness!Init => HarnessInv
<1> SUFFICES ASSUME Harness!Init PROVE HarnessInv
  OBVIOUS
<1>1. /\ rows = <<>> /\ file = <<>> /\ at = [stage |-> "run", row |-> 0] /\ usage = 0
      /\ rejudges = 0
  BY DEF Harness!Init
<1>2. <<>> \in Seq(Row) /\ DOMAIN <<>> = {}
  OBVIOUS
<1>3. HarnessTypes
  BY <1>1, <1>2 DEF HarnessTypes
<1>4. OneAtATime /\ FileSettled
  BY <1>1, <1>2 DEF OneAtATime, FileSettled
<1> QED BY <1>3, <1>4 DEF HarnessInv

\* What a verdict, and what a payment, change of a row.
LEMMA RowJudged ==
  ASSUME NEW x \in Row, NEW o \in Opinion
  PROVE  LET y == [x EXCEPT !.judge = o]
         IN  /\ y \in Row /\ y.judge = o /\ y.paid = x.paid
             /\ y.track = x.track /\ y.case = x.case /\ y.output = x.output
BY DEF Row

LEMMA RowPaid ==
  ASSUME NEW x \in Row, NEW n \in Nat
  PROVE  LET y == [x EXCEPT !.paid = n]
         IN  /\ y \in Row /\ y.judge = x.judge /\ y.paid = n
             /\ y.track = x.track /\ y.case = x.case /\ y.output = x.output
BY DEF Row

\* What the harness writes itself is a verdict.
LEMMA OwnVerdicts ==
  ASSUME NEW n \in Nat
  PROVE  /\ Harness!Errored(n) \in Opinion /\ Harness!Errored(n).tokens = n
         /\ Harness!Errored(n).status = "error"
         /\ Harness!Unjudged \in Opinion /\ Harness!Unjudged.tokens = 0
         /\ Harness!Unjudged.status = "none"
<1>1. {} \in Named
  BY DEF Named
<1> QED BY <1>1 DEF Harness!Errored, Harness!Unjudged, Opinion

\* The row under the judge is replaced by one in its place.
LEMMA RowReplaced ==
  ASSUME HarnessTypes, OneAtATime, NEW i \in DOMAIN rows, NEW y \in Row,
         y.track = rows[i].track, y.case = rows[i].case, rows' = [rows EXCEPT ![i] = y]
  PROVE  /\ rows' \in Seq(Row) /\ DOMAIN rows' = DOMAIN rows
         /\ rows'[i] = y
         /\ \A j \in DOMAIN rows : j # i => rows'[j] = rows[j]
         /\ \A j \in DOMAIN rows : InPlace(rows'[j], j)
<1>1. rows \in Seq(Row)
  BY DEF HarnessTypes
<1>2. rows' \in Seq(Row) /\ DOMAIN rows' = DOMAIN rows
  BY <1>1
<1>3. rows'[i] = y /\ \A j \in DOMAIN rows : j # i => rows'[j] = rows[j]
  BY <1>1
<1> QED BY <1>2, <1>3 DEF OneAtATime, InPlace

\* What is settled stays so while files are judged more often.
LEMMA SettledStays ==
  ASSUME NEW x, NEW r \in Nat, NEW s \in Nat, s >= r, Settled(x, r)
  PROVE  Settled(x, s)
BY DEF Settled

\* A verdict ends the question: it is charged with all that was paid for it.
LEMMA VerdictSettles ==
  ASSUME HarnessInv, at.stage = "ask", NEW tokens \in {0, 1}, NEW o \in Opinion,
         o.tokens = usage + tokens, o.status # "none",
         o.status = "scored" => o.names = Criteria[rows[at.row].case],
         rows' = [rows EXCEPT ![at.row] =
           [[rows[at.row] EXCEPT !.paid = rows[at.row].paid + tokens] EXCEPT !.judge = o]],
         usage' = 0, at' = Harness!After, UNCHANGED <<file, rejudges>>
  PROVE  HarnessInv'
<1> DEFINE i == at.row
           x == [rows[i] EXCEPT !.paid = rows[i].paid + tokens]
           y == [x EXCEPT !.judge = o]
<1>0. HarnessTypes /\ OneAtATime /\ FileSettled
  BY DEF HarnessInv
<1>1. /\ i \in DOMAIN rows /\ rows[i].paid = usage /\ Criteria[rows[i].case] # {}
      /\ rows[i].output = "text" \/ rejudges > 0
      /\ rows \in Seq(Row) /\ rows[i] \in Row /\ usage \in Nat /\ rejudges \in Nat
  BY <1>0 DEF OneAtATime, HarnessTypes
<1>2. rows[i].paid + tokens \in Nat
  BY <1>1
<1>3. /\ y \in Row /\ y.judge = o /\ y.paid = usage + tokens
      /\ y.track = rows[i].track /\ y.case = rows[i].case /\ y.output = rows[i].output
  <2>1. /\ x \in Row /\ x.paid = rows[i].paid + tokens
        /\ x.track = rows[i].track /\ x.case = rows[i].case /\ x.output = rows[i].output
    BY <1>1, <1>2, RowPaid
  <2> HIDE DEF x
  <2>2. /\ y \in Row /\ y.judge = o /\ y.paid = x.paid
        /\ y.track = x.track /\ y.case = x.case /\ y.output = x.output
    BY <2>1, RowJudged
  <2> QED BY <1>1, <2>1, <2>2
<1>4. rows' = [rows EXCEPT ![i] = y]
  OBVIOUS
<1> HIDE DEF x, y, i
<1>5. /\ rows' \in Seq(Row) /\ DOMAIN rows' = DOMAIN rows /\ rows'[i] = y
      /\ \A j \in DOMAIN rows : j # i => rows'[j] = rows[j]
      /\ \A j \in DOMAIN rows : InPlace(rows'[j], j)
  BY <1>0, <1>1, <1>3, <1>4, RowReplaced
<1>6. Settled(y, rejudges')
  BY <1>1, <1>3 DEF Settled, i
<1>7. ASSUME NEW j \in DOMAIN rows' PROVE Settled(rows'[j], rejudges')
  <2>1. CASE j = i
    BY <1>5, <1>6, <2>1
  <2>2. CASE j # i
    <3>1. Settled(rows[j], rejudges) /\ rows'[j] = rows[j]
      BY <1>0, <1>5, <1>7, <2>2 DEF OneAtATime, i
    <3> QED BY <1>1, <3>1, SettledStays
  <2> QED BY <2>1, <2>2
<1>8. /\ at' \in [stage : {"run", "ask", "next", "off"}, row : Nat]
      /\ at'.stage \in {"run", "next"} /\ (at'.stage = "next" => rejudges > 0)
  BY <1>0, <1>1 DEF Harness!After, HarnessTypes
<1>9. HarnessTypes'
  BY <1>0, <1>5, <1>8 DEF HarnessTypes
<1>10. OneAtATime'
  BY <1>5, <1>7, <1>8 DEF OneAtATime, InPlace
<1>11. FileSettled'
  BY <1>0 DEF FileSettled, InPlace, Settled
<1> QED BY <1>9, <1>10, <1>11 DEF HarnessInv

LEMMA HarnessStep == Harness!Setting /\ HarnessInv /\ [Harness!Next]_Harness!vars => HarnessInv'
<1> SUFFICES ASSUME Harness!Setting, HarnessInv, [Harness!Next]_Harness!vars PROVE HarnessInv'
  OBVIOUS
<1>0. /\ HarnessTypes /\ OneAtATime /\ FileSettled
      /\ rows \in Seq(Row) /\ file \in Seq(Row) /\ rejudges \in Nat /\ usage \in Nat
  BY DEF HarnessInv, HarnessTypes
<1>a. ASSUME UNCHANGED <<file, rejudges>> PROVE FileSettled'
  BY <1>0, <1>a DEF FileSettled, InPlace, Settled
<1>1. ASSUME NEW output \in Harness!Outputs, NEW holds \in BOOLEAN, Harness!RunCase(output, holds)
      PROVE  HarnessInv'
  <2> DEFINE i == Len(rows) + 1
             toJudge == Judged /\ output = "text"
             verdict == IF toJudge /\ Criteria[Harness!CaseAt(i)] = {} THEN Harness!Errored(0)
                        ELSE Harness!Unjudged
             passed == output = "text" /\ holds
             x == [track |-> Harness!TrackAt(i), case |-> Harness!CaseAt(i), passed |-> passed,
                   output |-> output, judge |-> verdict, paid |-> 0]
  <2>1. /\ at.stage = "run" /\ rows' = Append(rows, x)
        /\ at' = IF toJudge /\ Criteria[Harness!CaseAt(i)] # {} THEN [stage |-> "ask", row |-> i]
                 ELSE at
        /\ UNCHANGED <<usage, file, rejudges>>
    BY <1>1 DEF Harness!RunCase
  <2>2. /\ verdict \in Opinion /\ verdict.tokens = 0 /\ verdict.status \in {"none", "error"}
        /\ toJudge /\ Criteria[Harness!CaseAt(i)] = {} => verdict.status = "error"
    BY OwnVerdicts
  <2>3. i \in Nat
    BY <1>0
  <2> HIDE DEF verdict
  <2>4. passed \in BOOLEAN
    OBVIOUS
  <2> HIDE DEF passed
  <2>5. x \in Row
    <3>1. Harness!TrackAt(i) \in OnTrack /\ Harness!CaseAt(i) \in InCase
      BY <2>3 DEF OnTrack, InCase
    <3> QED BY <2>2, <2>4, <3>1 DEF Row
  <2>6. /\ InPlace(x, i) /\ x.paid = 0 /\ x.case = Harness!CaseAt(i) /\ x.output = output
        /\ x.judge = verdict
    BY DEF InPlace
  <2> HIDE DEF x
  <2>7. /\ rows' \in Seq(Row) /\ DOMAIN rows' = DOMAIN rows \cup {i} /\ rows'[i] = x
        /\ \A j \in DOMAIN rows : rows'[j] = rows[j] /\ j # i
    BY <1>0, <2>1, <2>5
  <2> HIDE DEF i
  <2>8. Settled(x, rejudges') \/ (toJudge /\ Criteria[x.case] # {})
    BY <2>2, <2>6 DEF Settled
  <2>9. /\ at' \in [stage : {"run", "ask", "next", "off"}, row : Nat]
        /\ at'.stage = "ask" => at'.row = i /\ toJudge /\ Criteria[x.case] # {}
        /\ at'.stage # "ask" => Settled(x, rejudges')
        /\ at'.stage \in {"ask", "run"}
    BY <1>0, <2>1, <2>3, <2>6, <2>8 DEF HarnessTypes
  <2>10. HarnessTypes'
    BY <1>0, <2>1, <2>7, <2>9 DEF HarnessTypes
  <2>11. ASSUME NEW j \in DOMAIN rows'
         PROVE  /\ InPlace(rows'[j], j)
                /\ (at'.stage = "ask" /\ j = at'.row) \/ Settled(rows'[j], rejudges')
    <3>1. CASE j = i
      BY <2>6, <2>7, <2>9, <3>1
    <3>2. CASE j # i
      <4>1. j \in DOMAIN rows /\ rows'[j] = rows[j]
        BY <2>7, <2>11, <3>2
      <4>2. InPlace(rows[j], j) /\ Settled(rows[j], rejudges)
        BY <1>0, <2>1, <4>1 DEF OneAtATime
      <4> QED BY <1>0, <2>1, <4>1, <4>2, SettledStays
    <3> QED BY <3>1, <3>2
  <2>12. usage = 0
    BY <1>0, <2>1 DEF OneAtATime
  <2>13. OneAtATime'
    BY <2>1, <2>6, <2>7, <2>9, <2>11, <2>12 DEF OneAtATime, InPlace
  <2> QED BY <1>a, <2>1, <2>10, <2>13 DEF HarnessInv
<1>2. ASSUME at.stage = "ask"
      PROVE  /\ at.row \in DOMAIN rows /\ rows[at.row].paid = usage
             /\ rows[at.row] \in Row /\ rows[at.row].judge \in Opinion
             /\ rows[at.row].paid \in Nat
  <2>1. at.row \in DOMAIN rows /\ rows[at.row].paid = usage
    BY <1>0, <1>2 DEF OneAtATime
  <2>2. rows[at.row] \in Row
    BY <1>0, <2>1
  <2> QED BY <2>1, <2>2 DEF Row
<1>3. ASSUME NEW tokens \in {0, 1}, NEW temporary \in BOOLEAN, Harness!Fails(tokens, temporary)
      PROVE  HarnessInv'
  <2>1. at.stage = "ask" /\ UNCHANGED <<file, rejudges>>
    BY <1>3 DEF Harness!Fails, Harness!Call
  <2> DEFINE x == rows[at.row]
             n == x.paid + tokens
  <2>2. x \in Row /\ n \in Nat /\ x.paid = usage
    BY <1>2, <2>1
  <2>3. CASE temporary /\ attempt < MaxRetries
    <3> DEFINE y == [x EXCEPT !.paid = n]
    <3>1. /\ rows' = [rows EXCEPT ![at.row] = y] /\ usage' = usage + tokens /\ UNCHANGED at
      BY <1>3, <2>3 DEF Harness!Fails, Harness!Paid, Harness!Current
    <3>2. /\ y \in Row /\ y.track = x.track /\ y.case = x.case /\ y.output = x.output
          /\ y.paid = n
      BY <2>2 DEF Row
    <3> HIDE DEF y
    <3>3. /\ rows' \in Seq(Row) /\ DOMAIN rows' = DOMAIN rows /\ rows'[at.row] = y
          /\ \A j \in DOMAIN rows : j # at.row => rows'[j] = rows[j]
          /\ \A j \in DOMAIN rows : InPlace(rows'[j], j)
      BY <1>0, <1>2, <2>1, <3>1, <3>2, RowReplaced
    <3>4. HarnessTypes'
      BY <1>0, <2>1, <2>2, <3>1, <3>3 DEF HarnessTypes
    <3>5. ASSUME NEW j \in DOMAIN rows, j # at.row PROVE Settled(rows'[j], rejudges')
      BY <1>0, <2>1, <3>3, <3>5, SettledStays DEF OneAtATime
    <3>6. OneAtATime'
      BY <1>0, <1>2, <2>1, <2>2, <3>1, <3>2, <3>3, <3>5 DEF OneAtATime, InPlace
    <3> QED BY <1>a, <2>1, <3>4, <3>6 DEF HarnessInv
  <2>4. CASE ~(temporary /\ attempt < MaxRetries)
    <3> DEFINE o == Harness!Errored(usage + tokens)
    <3>1. o \in Opinion /\ o.tokens = usage + tokens /\ o.status = "error"
      BY <1>0, OwnVerdicts
    <3>2. /\ rows' = [rows EXCEPT ![at.row] = [[x EXCEPT !.paid = n] EXCEPT !.judge = o]]
          /\ usage' = 0 /\ at' = Harness!After
      BY <1>3, <2>4 DEF Harness!Fails, Harness!Paid, Harness!Current
    <3> HIDE DEF o
    <3> QED BY <2>1, <3>1, <3>2, VerdictSettles
  <2> QED BY <2>3, <2>4
<1>4. ASSUME NEW tokens \in {0, 1}, NEW answer \in Answers, Harness!Answered(answer, tokens)
      PROVE  HarnessInv'
  <2> DEFINE x == rows[at.row]
             n == x.paid + tokens
             o == Harness!Verdict(answer, usage + tokens)
  <2>1. /\ at.stage = "ask" /\ UNCHANGED <<file, rejudges>>
        /\ rows' = [rows EXCEPT ![at.row] = [[x EXCEPT !.paid = n] EXCEPT !.judge = o]]
        /\ usage' = 0 /\ at' = Harness!After
    BY <1>4 DEF Harness!Answered, Harness!Call, Harness!Paid, Harness!Current
  <2>2. x \in Row /\ n \in Nat
    BY <1>2, <2>1
  <2>3. /\ o \in Opinion /\ o.tokens = usage + tokens /\ o.status \in {"error", "scored"}
        /\ o.status = "scored" => o.names = Criteria[x.case]
    <3> DEFINE names == Harness!ToSet(answer)
    <3>1. names \in Named
      BY DEF Named
    <3>2. usage + tokens \in Nat
      BY <1>0
    <3>3. \/ o = Harness!Errored(usage + tokens)
          \/ /\ o = [status |-> "scored", names |-> names, tokens |-> usage + tokens]
             /\ names = Criteria[x.case]
      BY DEF Harness!Verdict, Harness!Goal, Harness!Current
    <3> HIDE DEF names, o, x
    <3>4. CASE o = Harness!Errored(usage + tokens)
      BY <3>2, <3>4, OwnVerdicts
    <3>5. CASE /\ o = [status |-> "scored", names |-> names, tokens |-> usage + tokens]
               /\ names = Criteria[x.case]
      BY <3>1, <3>2, <3>5 DEF Opinion
    <3> QED BY <3>3, <3>4, <3>5
  <2> HIDE DEF o
  <2> QED BY <2>1, <2>3, VerdictSettles
<1>5. CASE Harness!Interrupt
  <2>1. /\ rows' = <<>> /\ at' = [stage |-> "off", row |-> 0] /\ usage' = 0
        /\ UNCHANGED <<file, rejudges>>
    BY <1>5 DEF Harness!Interrupt
  <2> QED BY <1>0, <1>a, <2>1 DEF HarnessInv, HarnessTypes, OneAtATime
<1>6. CASE Harness!Write \/ Harness!WriteJudged
  <2>1. /\ at.stage \in {"run", "next"} /\ file' = rows /\ rows' = <<>>
        /\ at' = [stage |-> "off", row |-> 0] /\ UNCHANGED <<usage, rejudges>>
    BY <1>6 DEF Harness!Write, Harness!WriteJudged
  <2>2. FileSettled'
    BY <1>0, <2>1 DEF OneAtATime, FileSettled, InPlace, Settled
  <2>3. usage = 0
    BY <1>0, <2>1 DEF OneAtATime
  <2> QED BY <1>0, <2>1, <2>2, <2>3 DEF HarnessInv, HarnessTypes, OneAtATime
<1>7. CASE Harness!Rejudge
  <2>1. /\ at.stage = "off" /\ rejudges' = rejudges + 1 /\ rows' = file
        /\ at' = [stage |-> "next", row |-> 0] /\ UNCHANGED <<usage, file>>
    BY <1>7 DEF Harness!Rejudge
  <2>2. \A i \in DOMAIN file : InPlace(file[i], i) /\ Settled(file[i], rejudges')
    BY <1>0, <2>1, SettledStays DEF FileSettled
  <2>3. usage = 0
    BY <1>0, <2>1 DEF OneAtATime
  <2>4. HarnessTypes'
    BY <1>0, <2>1 DEF HarnessTypes
  <2>5. OneAtATime'
    BY <1>0, <2>1, <2>2, <2>3 DEF OneAtATime, InPlace, Settled
  <2>6. FileSettled'
    BY <2>1, <2>2 DEF FileSettled, InPlace, Settled
  <2> QED BY <2>4, <2>5, <2>6 DEF HarnessInv
<1>8. CASE Harness!NextRow
  <2> DEFINE i == at.row + 1
             known == SuiteKnown /\ Criteria[rows[i].case] # {}
             o == IF known THEN rows[i].judge ELSE Harness!Errored(0)
             y == [rows[i] EXCEPT !.judge = o, !.paid = 0]
  <2>1. /\ at.stage = "next" /\ i <= Len(rows)
        /\ rows' = [rows EXCEPT ![i].judge = IF known THEN @ ELSE Harness!Errored(0),
                                ![i].paid = 0]
        /\ at' = [stage |-> IF known THEN "ask" ELSE "next", row |-> i]
        /\ UNCHANGED <<usage, file, rejudges>>
    BY <1>8 DEF Harness!NextRow
  <2>2. i \in DOMAIN rows /\ i \in Nat /\ rows[i] \in Row
    BY <1>0, <2>1 DEF HarnessTypes
  <2>3. rows' = [rows EXCEPT ![i] = y]
    BY <1>0, <2>1, <2>2 DEF Row
  <2>4. o \in Opinion /\ (~known => o.tokens = 0 /\ o.status = "error")
    <3>1. rows[i].judge \in Opinion
      BY <2>2 DEF Row
    <3> QED BY <3>1, OwnVerdicts
  <2> HIDE DEF o
  <2>5. /\ y \in Row /\ y.judge = o /\ y.paid = 0
        /\ y.track = rows[i].track /\ y.case = rows[i].case /\ y.output = rows[i].output
    <3> DEFINE z == [rows[i] EXCEPT !.judge = o]
    <3>1. /\ z \in Row /\ z.judge = o
          /\ z.track = rows[i].track /\ z.case = rows[i].case /\ z.output = rows[i].output
      BY <2>2, <2>4, RowJudged
    <3>2. y = [z EXCEPT !.paid = 0]
      OBVIOUS
    <3> HIDE DEF z, y
    <3> QED BY <3>1, <3>2, RowPaid
  <2> HIDE DEF y
  <2>6. /\ rows' \in Seq(Row) /\ DOMAIN rows' = DOMAIN rows /\ rows'[i] = y
        /\ \A j \in DOMAIN rows : j # i => rows'[j] = rows[j]
        /\ \A j \in DOMAIN rows : InPlace(rows'[j], j)
    BY <1>0, <2>2, <2>3, <2>5, RowReplaced
  <2>7. rejudges > 0 /\ usage = 0 /\ \A j \in DOMAIN rows : Settled(rows[j], rejudges)
    BY <1>0, <2>1 DEF OneAtATime
  <2>8. ~known => Settled(y, rejudges')
    BY <2>4, <2>5 DEF Settled
  <2>9. ASSUME NEW j \in DOMAIN rows, j # i PROVE Settled(rows'[j], rejudges')
    BY <1>0, <2>1, <2>6, <2>7, <2>9, SettledStays
  <2>10. HarnessTypes'
    BY <1>0, <2>1, <2>2, <2>6 DEF HarnessTypes
  <2>11. OneAtATime'
    <3>1. CASE known
      BY <2>1, <2>2, <2>5, <2>6, <2>7, <2>9, <3>1 DEF OneAtATime, InPlace
    <3>2. CASE ~known
      BY <2>1, <2>2, <2>5, <2>6, <2>7, <2>8, <2>9, <3>2 DEF OneAtATime, InPlace
    <3> QED BY <3>1, <3>2
  <2> QED BY <1>a, <2>1, <2>10, <2>11 DEF HarnessInv
<1>9. CASE UNCHANGED Harness!vars
  BY <1>0, <1>9 DEF Harness!vars, HarnessInv, HarnessTypes, OneAtATime, FileSettled, InPlace,
     Settled
<1> QED BY <1>1, <1>3, <1>4, <1>5, <1>6, <1>7, <1>8, <1>9 DEF Harness!Next

\* In every file each verdict is charged with its own calls and no others, each score is
\* over the criteria toJudge for, and the rows are those of the tracks and cases in order:
\* for any suite, judge, number of retries and of judgings.
THEOREM JudgingAlwaysStaysApart ==
  ASSUME Harness!Setting
  PROVE  Harness!Spec => []JudgingStaysApart
<1>1. HarnessInv => JudgingStaysApart
  BY DEF HarnessInv, OneAtATime, FileSettled, InPlace, Settled, JudgingStaysApart,
         Harness!JudgingStaysApart
<1>2. Harness!Init => HarnessInv
  BY HarnessInit
<1>3. HarnessInv /\ [Harness!Next]_Harness!vars => HarnessInv'
  BY HarnessStep
<1> QED BY <1>1, <1>2, <1>3, PTL DEF Harness!Spec

------------------------------------------------------------------------------
(* Numbers.                                                                 *)

\* A set of numbers has a first one, and a last one when it is bounded.
LEMMA LeastOf ==
  ASSUME NEW M, M \subseteq Nat, M # {} PROVE \E i \in M : \A j \in M : i <= j
<1> DEFINE R == OpToRel(<, Nat)
<1>1. \A i, j \in Nat : <<j, i>> \in R <=> j < i
  BY DEF OpToRel
<1>2. IsWellFoundedOn(R, Nat)
  BY NatLessThanWellFounded
<1> HIDE DEF R
<1>3. PICK i \in M : \A j \in M : <<j, i>> \notin R
  BY <1>2, WFMin
<1>4. ASSUME NEW j \in M PROVE i <= j
  <2>1. i \in Nat /\ j \in Nat /\ ~ (j < i)
    BY <1>1, <1>3
  <2> QED BY <2>1
<1> QED BY <1>4

LEMMA GreatestOf ==
  ASSUME NEW n \in Nat, NEW M, M \subseteq 0 .. n, M # {}
  PROVE  \E i \in M : \A j \in M : j <= i
<1> DEFINE D == {n - i : i \in M}
<1>1. \A i \in M : i \in Nat /\ n - i \in Nat
  OBVIOUS
<1>2. D \subseteq Nat /\ D # {}
  BY <1>1
<1>3. PICK d \in D : \A e \in D : d <= e
  BY <1>2, LeastOf
<1>4. PICK i \in M : d = n - i
  OBVIOUS
<1>5. ASSUME NEW j \in M PROVE j <= i
  <2>1. n - i <= n - j
    BY <1>3, <1>4
  <2> QED BY <1>1, <2>1
<1> QED BY <1>5

------------------------------------------------------------------------------
(* Evaluations.  A job works on the cases of an evaluation in order and on  *)
(* its evaluations in order: what is behind it is done, what is ahead of it *)
(* has neither attempts nor results, and no two jobs share an evaluation.   *)

Excluding == Evals!Excluding
Kinds == {"none", "completed", "failed"} \cup Excluding
Metrics == {"correctness", "judge.overall", "judge.error"} \cup Excluding
EvalRow == [suite : Suite, track : Track, finished : BOOLEAN]
TryRow == [eval : Nat, case : Nat, kind : Kinds,
           status : {"running", "completed", "failed", "interrupted"}]
ResultRow == [eval : Nat, case : Nat, run : Nat, success : BOOLEAN, scores : SUBSET Metrics]
JobRow == [eval : Nat, last : Nat, case : Nat, left : Nat, kind : Kinds,
           stage : {"try", "running", "result", "score", "judge", "finish", "done"}]

EvalTypes ==
  /\ evals \in Seq(EvalRow) /\ tries \in Seq(TryRow) /\ results \in Seq(ResultRow)
  /\ jobs \in Seq(JobRow) /\ stops \in Nat

\* Attempts and results of a case, in whatever records.
TriesAt(tr, e, c) == {i \in DOMAIN tr : tr[i].eval = e /\ tr[i].case = c}
ResultsAt(rs, e, c) == {i \in DOMAIN rs : rs[i].eval = e /\ rs[i].case = c}
NoneAt(tr, rs, e, c) == TriesAt(tr, e, c) = {} /\ ResultsAt(rs, e, c) = {}
Excused(tr, S) == \A k \in S : tr[k].kind \in Excluding

\* One result, left out exactly when every attempt there is met the provider's failure.
DoneAt(tr, rs, e, c) ==
  \E r : /\ ResultsAt(rs, e, c) = {r}
         /\ (rs[r].scores \cap Excluding # {})
              <=> (Cardinality(TriesAt(tr, e, c)) = Attempts /\ Excused(tr, TriesAt(tr, e, c)))

\* The case a job is at, stage by stage.
InStage(tr, rs, b) ==
  LET T == TriesAt(tr, b.eval, b.case)
      R == ResultsAt(rs, b.eval, b.case)
  IN  /\ IsFiniteSet(T) /\ Cardinality(T) = Attempts - b.left
      /\ b.stage = "try" => R = {} /\ b.left > 0 /\ Excused(tr, T)
      /\ b.stage = "running" =>
           /\ R = {}
           /\ \E i \in T : /\ \A k \in T : k <= i
                           /\ Excused(tr, T \ {i})
                           /\ \A k \in T \ {i} : tr[k].status # "running"
      /\ b.stage \in {"result", "score", "judge"} =>
           /\ \E i \in T : tr[i].kind = b.kind /\ Excused(tr, T \ {i})
           /\ b.kind \in Excluding => b.left = 0
      /\ b.stage = "result" => R = {}
      /\ b.stage = "score" => \E r : R = {r} /\ rs[r].scores = {}
      /\ b.stage = "judge" =>
           b.kind \notin Excluding /\ \E r : R = {r} /\ rs[r].scores = {"correctness"}

\* What is before and after the case.
JobAt(tr, rs, b) ==
  /\ InStage(tr, rs, b)
  /\ \A c \in 1 .. b.case - 1 : DoneAt(tr, rs, b.eval, c)
  /\ \A c \in Nat : c > b.case => NoneAt(tr, rs, b.eval, c)
  /\ \A e \in b.eval + 1 .. b.last, c \in Nat : NoneAt(tr, rs, e, c)

Unfinished(ev, b) ==
  /\ b.eval \in 1 .. b.last /\ b.last \in DOMAIN ev
  /\ \A e \in b.eval .. b.last : ~ev[e].finished
  /\ b.case \in 1 .. EvalCase + 1 /\ (b.stage = "finish" <=> b.case = EvalCase + 1)

Working == {j \in DOMAIN jobs : jobs[j].stage # "done"}
JobsInPlace == \A j \in Working : Unfinished(evals, jobs[j]) /\ JobAt(tries, results, jobs[j])
JobsApart ==
  \A j, k \in Working : j # k => jobs[j].last < jobs[k].eval \/ jobs[k].last < jobs[j].eval

\* An attempt that runs is a job's.
TriesAreRight ==
  \A i \in DOMAIN tries :
    /\ tries[i].eval \in DOMAIN evals /\ tries[i].case \in 1 .. EvalCase
    /\ tries[i].status = "running" =>
         \E j \in DOMAIN jobs : /\ jobs[j].stage = "running"
                                /\ jobs[j].eval = tries[i].eval /\ jobs[j].case = tries[i].case
ResultsAreRight ==
  \A i \in DOMAIN results :
    /\ results[i].eval \in DOMAIN evals /\ results[i].case \in 1 .. EvalCase
    /\ results[i].run \in TriesAt(tries, results[i].eval, results[i].case)
    /\ \A m, n \in results[i].scores \cap Excluding : m = n
FinishedIsDone ==
  \A e \in DOMAIN evals : evals[e].finished /\ stops = 0 =>
    \A c \in 1 .. EvalCase : DoneAt(tries, results, e, c)

EvalsInv ==
  /\ EvalTypes /\ JobsInPlace /\ JobsApart
  /\ TriesAreRight /\ ResultsAreRight /\ FinishedIsDone

LEMMA EvalCount == ASSUME NEW S PROVE Evals!Cardinality(S) = Cardinality(S)
BY DEF Cardinality, Evals!Cardinality

LEMMA ScoreIsRow ==
  ASSUME NEW i \in DOMAIN results, NEW m \in Metrics
  PROVE  <<i, m>> \in Evals!ScoreRows <=> m \in results[i].scores
BY DEF Evals!ScoreRows, Metrics, Excluding

\* Both stores leave the same results out.
LEMMA CleanAgree ==
  ASSUME EvalsInv
  PROVE  /\ \A S \in SUBSET DOMAIN results : Evals!MemClean(S) = S \cap Evals!SqlClean
         /\ \A S \in SUBSET DOMAIN results :
              {i \in S : Evals!ExcludedKind(i) = {Evals!Limited}} = Evals!SqlWith(Evals!Limited, S)
         /\ \A m \in Metrics, S \in SUBSET DOMAIN results :
              Evals!SqlWith(m, S) = S \cap Evals!Has(m)
<1>0. Excluding \subseteq Metrics /\ Evals!Excluding = Excluding /\ Evals!Limited \in Excluding
  BY DEF Metrics, Excluding, Evals!Excluding, Evals!Limited
<1>1. \A i \in DOMAIN results, m \in Metrics :
        <<i, m>> \in Evals!ScoreRows <=> m \in results[i].scores
  BY ScoreIsRow
<1>2. \A i \in DOMAIN results : \A m, n \in results[i].scores \cap Excluding : m = n
  BY DEF EvalsInv, ResultsAreRight
<1>3. ASSUME NEW S \in SUBSET DOMAIN results PROVE Evals!MemClean(S) = S \cap Evals!SqlClean
  BY <1>0, <1>1 DEF Evals!MemClean, Evals!SqlClean, Evals!ExcludedKind
<1>4. ASSUME NEW S \in SUBSET DOMAIN results
      PROVE  {i \in S : Evals!ExcludedKind(i) = {Evals!Limited}} = Evals!SqlWith(Evals!Limited, S)
  <2>1. ASSUME NEW i \in S
        PROVE  Evals!ExcludedKind(i) = {Evals!Limited} <=> Evals!Limited \in results[i].scores
    BY <1>0, <1>2 DEF Evals!ExcludedKind
  <2> QED BY <1>0, <1>1, <2>1 DEF Evals!SqlWith
<1>5. ASSUME NEW m \in Metrics, NEW S \in SUBSET DOMAIN results
      PROVE  Evals!SqlWith(m, S) = S \cap Evals!Has(m)
  BY <1>1 DEF Evals!SqlWith, Evals!Has
<1> QED BY <1>3, <1>4, <1>5

LEMMA BreakdownsAgree == EvalsInv => Evals!MemBreakdown = Evals!SqlBreakdown
<1> SUFFICES ASSUME EvalsInv PROVE Evals!MemBreakdown = Evals!SqlBreakdown
  OBVIOUS
<1>1. ASSUME NEW e \in DOMAIN evals
      PROVE  Evals!MemBreakdown[e] = Evals!SqlBreakdown[e]
  <2> DEFINE rowsOf == Evals!ResultsOf(e)
             clean == rowsOf \cap Evals!SqlClean
             out == rowsOf \ Evals!SqlClean
  <2>1. /\ rowsOf = {i \in DOMAIN results : results[i].eval = e}
        /\ rowsOf \in SUBSET DOMAIN results /\ clean \in SUBSET DOMAIN results
        /\ out \in SUBSET DOMAIN results
    BY DEF Evals!ResultsOf
  <2>2. Evals!MemClean(rowsOf) = clean /\ rowsOf \ clean = out
    BY <2>1, CleanAgree
  <2>3. {i \in out : Evals!ExcludedKind(i) = {Evals!Limited}}
        = Evals!SqlWith(Evals!Limited, rowsOf)
    <3>1. {i \in out : Evals!ExcludedKind(i) = {Evals!Limited}}
          = Evals!SqlWith(Evals!Limited, out)
      BY <2>1, CleanAgree
    <3>2. \A i \in clean : <<i, Evals!Limited>> \notin Evals!ScoreRows
      BY DEF Evals!SqlClean, Evals!Excluding, Evals!Limited
    <3> QED BY <3>1, <3>2 DEF Evals!SqlWith
  <2>4. {i \in clean : results[i].success} = clean \cap Evals!Passed
    BY <2>1 DEF Evals!Passed
  <2>5. /\ Evals!SqlWith("correctness", clean) = clean \cap Evals!Has("correctness")
        /\ Evals!SqlWith("judge.overall", clean) = clean \cap Evals!Has("judge.overall")
        /\ Evals!SqlWith("judge.error", clean) = clean \cap Evals!Has("judge.error")
    BY <2>1, CleanAgree DEF Metrics
  <2>6. {i \in Evals!SqlWith("correctness", clean) : results[i].success}
        = clean \cap Evals!Has("correctness") \cap Evals!Passed
    BY <2>1, <2>5 DEF Evals!Passed
  <2> HIDE DEF rowsOf, clean, out
  <2>7. Evals!MemBreakdown[e] =
         [results |-> Evals!Cardinality(clean), excluded |-> Evals!Cardinality(out),
          limited |-> Evals!ByLimit(out), passed |-> Evals!Cardinality(clean \cap Evals!Passed),
          correct |-> <<Evals!Cardinality(clean \cap Evals!Has("correctness") \cap Evals!Passed),
                        Evals!Cardinality(clean \cap Evals!Has("correctness"))>>,
          judged |-> Evals!Cardinality(clean \cap Evals!Has("judge.overall")),
          errors |-> Evals!Cardinality(clean \cap Evals!Has("judge.error")),
          running |-> ~evals[e].finished]
    BY <2>2, Zenon DEF Evals!MemBreakdown, rowsOf
  <2>8. Evals!SqlBreakdown[e] =
         [results |-> Evals!Cardinality(clean), excluded |-> Evals!Cardinality(out),
          limited |-> Evals!Cardinality(Evals!SqlWith(Evals!Limited, rowsOf)),
          passed |-> Evals!Cardinality({i \in clean : results[i].success}),
          correct |-> <<Evals!Cardinality(
                          {i \in Evals!SqlWith("correctness", clean) : results[i].success}),
                        Evals!Cardinality(Evals!SqlWith("correctness", clean))>>,
          judged |-> Evals!Cardinality(Evals!SqlWith("judge.overall", clean)),
          errors |-> Evals!Cardinality(Evals!SqlWith("judge.error", clean)),
          running |-> ~evals[e].finished]
    BY <2>1, Zenon DEF Evals!SqlBreakdown, clean, out
  <2>9. Evals!ByLimit(out) = Evals!Cardinality(Evals!SqlWith(Evals!Limited, rowsOf))
    BY <2>3 DEF Evals!ByLimit
  <2> QED BY <2>4, <2>5, <2>6, <2>7, <2>8, <2>9
<1> QED BY <1>1 DEF Evals!MemBreakdown, Evals!SqlBreakdown

\* An attempt that runs has no result, is the last of its case, and its evaluation is open.
LEMMA RunningIsAlone ==
  ASSUME EvalsInv, NEW i \in DOMAIN tries, tries[i].status \in Evals!Open
  PROVE  /\ tries[i].eval \in DOMAIN evals /\ tries[i].case \in 1 .. EvalCase
         /\ ~evals[tries[i].eval].finished
         /\ ResultsAt(results, tries[i].eval, tries[i].case) = {}
         /\ Evals!LastTry(tries[i].eval, tries[i].case) = i
<1>1. tries \in Seq(TryRow) /\ DOMAIN tries \subseteq Nat /\ tries[i] \in TryRow
  BY DEF EvalsInv, EvalTypes
<1>2. tries[i].status = "running"
  BY <1>1 DEF TryRow, Evals!Open
<1>3. /\ tries[i].eval \in DOMAIN evals /\ tries[i].case \in 1 .. EvalCase
      /\ \E j \in DOMAIN jobs : /\ jobs[j].stage = "running"
                                /\ jobs[j].eval = tries[i].eval /\ jobs[j].case = tries[i].case
  BY <1>2 DEF EvalsInv, TriesAreRight
<1>4. PICK j \in DOMAIN jobs : /\ jobs[j].stage = "running"
                               /\ jobs[j].eval = tries[i].eval /\ jobs[j].case = tries[i].case
  BY <1>3
<1>5. Unfinished(evals, jobs[j]) /\ JobAt(tries, results, jobs[j])
  BY <1>4 DEF EvalsInv, JobsInPlace, Working
<1> DEFINE T == TriesAt(tries, tries[i].eval, tries[i].case)
<1>6. /\ ResultsAt(results, tries[i].eval, tries[i].case) = {}
      /\ \E k \in T : /\ \A n \in T : n <= k
                      /\ \A n \in T \ {k} : tries[n].status # "running"
  BY <1>4, <1>5 DEF JobAt, InStage
<1>7. i \in T /\ T \subseteq Nat
  BY <1>1 DEF TriesAt
<1>8. \A n \in T : n <= i
  BY <1>2, <1>6, <1>7
<1>9. ~evals[tries[i].eval].finished
  BY <1>4, <1>5, <1>1 DEF Unfinished, TryRow
<1>10. Evals!LastTry(tries[i].eval, tries[i].case) = i
  <2> DEFINE Last(k) == /\ tries[k].eval = tries[i].eval /\ tries[k].case = tries[i].case
                        /\ \A n \in DOMAIN tries : (tries[n].eval = tries[i].eval
                              /\ tries[n].case = tries[i].case) => n <= k
  <2>1. Last(i)
    BY <1>8 DEF TriesAt
  <2>2. \A k \in DOMAIN tries : Last(k) => k = i
    <3> TAKE k \in DOMAIN tries
    <3> HAVE Last(k)
    <3>1. i <= k /\ k <= i
      BY <1>8 DEF TriesAt
    <3> QED BY <1>1, <3>1
  <2>3. Evals!LastTry(tries[i].eval, tries[i].case) = CHOOSE k \in DOMAIN tries : Last(k)
    BY DEF Evals!LastTry
  <2> HIDE DEF Last
  <2> QED BY <2>1, <2>2, <2>3
<1> QED BY <1>3, <1>6, <1>9, <1>10

LEMMA SpentAgree ==
  ASSUME EvalsInv, NEW e \in DOMAIN evals,
         Evals!MemClean(Evals!ResultsOf(e)) \subseteq Evals!Has("correctness")
  PROVE  Evals!MemSpent(e) = Evals!SqlSpent(e)
<1> DEFINE clean == {k \in Evals!SqlClean : results[k].eval = e}
<1>1. Evals!MemClean(Evals!ResultsOf(e)) = clean
  <2>1. Evals!ResultsOf(e) \in SUBSET DOMAIN results
        /\ Evals!ResultsOf(e) \cap Evals!SqlClean = clean
    BY DEF Evals!ResultsOf, Evals!SqlClean
  <2> QED BY <2>1, CleanAgree
<1>2. clean \cap Evals!Has("correctness") = clean
  BY <1>1
<1>3. ASSUME NEW i \in Evals!Active(e)
      PROVE  ~\E r \in Evals!ToSet(results) : r.eval = e /\ r.run = i
  <2>1. i \in DOMAIN tries /\ tries[i].status \in Evals!Open
    BY DEF Evals!Active
  <2> SUFFICES ASSUME NEW n \in DOMAIN results, results[n].eval = e, results[n].run = i
               PROVE  FALSE
    BY DEF Evals!ToSet
  <2>2. i \in TriesAt(tries, results[n].eval, results[n].case)
    BY DEF EvalsInv, ResultsAreRight
  <2>3. n \in ResultsAt(results, tries[i].eval, tries[i].case)
    BY <2>2 DEF TriesAt, ResultsAt
  <2> QED BY <2>1, <2>3, RunningIsAlone
<1> QED BY <1>1, <1>2, <1>3 DEF Evals!MemSpent, Evals!SqlSpent

LEMMA ExecutionsAgree == EvalsInv => Evals!MemExecutions = Evals!SqlExecutions
<1> SUFFICES ASSUME EvalsInv PROVE Evals!MemExecutions = Evals!SqlExecutions
  OBVIOUS
<1> DEFINE New(e, i) == [eval |-> e, run |-> i, loading |-> TRUE, success |-> FALSE,
                         outcome |-> {}]
           P == {q \in (DOMAIN evals) \X (1 .. EvalCase) :
                   /\ ~\E r \in Evals!ToSet(results) : r.eval = q[1] /\ r.case = q[2]
                   /\ \E t \in Evals!ToSet(tries) : t.eval = q[1] /\ t.case = q[2]
                   /\ tries[Evals!LastTry(q[1], q[2])].status \in Evals!Open}
           A == {k \in DOMAIN tries :
                   /\ ~evals[tries[k].eval].finished /\ tries[k].status \in Evals!Open
                   /\ ~\E r \in Evals!ToSet(results) : r.run = k}
<1>1. ASSUME NEW q \in P
      PROVE  \E k \in A : New(q[1], Evals!LastTry(q[1], q[2])) = New(tries[k].eval, k)
  <2>1. /\ TriesAt(tries, q[1], q[2]) # {} /\ ResultsAt(results, q[1], q[2]) = {}
        /\ tries[Evals!LastTry(q[1], q[2])].status \in Evals!Open
    BY DEF Evals!ToSet, TriesAt, ResultsAt
  <2>2. /\ Evals!LastTry(q[1], q[2]) \in TriesAt(tries, q[1], q[2])
    <3>1. /\ TriesAt(tries, q[1], q[2]) \subseteq 0 .. Len(tries) /\ Len(tries) \in Nat
      BY DEF TriesAt, EvalsInv, EvalTypes
    <3>2. PICK g \in TriesAt(tries, q[1], q[2]) : \A k \in TriesAt(tries, q[1], q[2]) : k <= g
      BY <2>1, <3>1, GreatestOf
    <3> QED BY <3>2 DEF Evals!LastTry, TriesAt
  <2> DEFINE k == Evals!LastTry(q[1], q[2])
  <2>3. k \in DOMAIN tries /\ tries[k].eval = q[1] /\ tries[k].case = q[2]
    BY <2>2 DEF TriesAt
  <2>4. ~\E r \in Evals!ToSet(results) : r.run = k
    <3> SUFFICES ASSUME NEW n \in DOMAIN results, results[n].run = k PROVE FALSE
      BY DEF Evals!ToSet
    <3>1. k \in TriesAt(tries, results[n].eval, results[n].case)
      BY DEF EvalsInv, ResultsAreRight
    <3>2. n \in ResultsAt(results, q[1], q[2])
      BY <2>3, <3>1 DEF TriesAt, ResultsAt
    <3> QED BY <2>1, <3>2
  <2>5. ~evals[tries[k].eval].finished
    BY <2>1, <2>3, RunningIsAlone
  <2>6. k \in A
    BY <2>1, <2>3, <2>4, <2>5
  <2> QED BY <2>3, <2>6
<1>2. ASSUME NEW k \in A
      PROVE  \E q \in P : New(q[1], Evals!LastTry(q[1], q[2])) = New(tries[k].eval, k)
  <2>1. /\ tries[k].eval \in DOMAIN evals /\ tries[k].case \in 1 .. EvalCase
        /\ ResultsAt(results, tries[k].eval, tries[k].case) = {}
        /\ Evals!LastTry(tries[k].eval, tries[k].case) = k
    BY RunningIsAlone
  <2> DEFINE q == <<tries[k].eval, tries[k].case>>
  <2>2. q \in (DOMAIN evals) \X (1 .. EvalCase) /\ q[1] = tries[k].eval /\ q[2] = tries[k].case
    BY <2>1
  <2>3. ~\E r \in Evals!ToSet(results) : r.eval = q[1] /\ r.case = q[2]
    BY <2>1, <2>2 DEF ResultsAt, Evals!ToSet
  <2>4. \E t \in Evals!ToSet(tries) : t.eval = q[1] /\ t.case = q[2]
    BY <2>2 DEF Evals!ToSet
  <2>5. q \in P
    BY <2>1, <2>2, <2>3, <2>4
  <2> QED BY <2>1, <2>2, <2>5
<1>3. {New(q[1], Evals!LastTry(q[1], q[2])) : q \in P} = {New(tries[k].eval, k) : k \in A}
  <2> HIDE DEF P, A, New
  <2> QED BY <1>1, <1>2
<1>4. Evals!MemExecutions =
        {[eval |-> r.eval, run |-> r.run, loading |-> FALSE, success |-> r.success,
          outcome |-> r.scores \cap Evals!Excluding] : r \in Evals!ToSet(results)}
        \cup {New(q[1], Evals!LastTry(q[1], q[2])) : q \in P}
  BY Zenon DEF Evals!MemExecutions
<1>5. Evals!SqlExecutions =
        {[eval |-> r.eval, run |-> r.run, loading |-> FALSE, success |-> r.success,
          outcome |-> r.scores \cap Evals!Excluding] : r \in Evals!ToSet(results)}
        \cup {New(tries[k].eval, k) : k \in A}
  BY Zenon DEF Evals!SqlExecutions
<1> QED BY <1>3, <1>4, <1>5, Zenon

LEMMA FirstNumbers == ASSUME NEW n \in Nat PROVE IsFiniteSet(1 .. n) /\ Cardinality(1 .. n) = n
BY FS_Interval

\* Suites that ran, and their names and versions, are as many.
SuitesRun == {evals[e].suite : e \in DOMAIN evals}
NamesRun == {LabelOf[evals[e].suite] : e \in DOMAIN evals}
LEMMA SuitesCount ==
  ASSUME Evals!Setting, EvalsInv
  PROVE  /\ IsFiniteSet(SuitesRun) /\ Cardinality(SuitesRun) \in Nat
         /\ Cardinality(SuitesRun) = Cardinality(NamesRun)
<1>1. evals \in Seq(EvalRow) /\ \A e \in DOMAIN evals : evals[e].suite \in Suite
  <2>1. evals \in Seq(EvalRow)
    BY DEF EvalsInv, EvalTypes
  <2>2. \A e \in DOMAIN evals : evals[e] \in EvalRow
    BY <2>1
  <2> QED BY <2>1, <2>2 DEF EvalRow
<1>2. IsFiniteSet(DOMAIN evals)
  <2>1. DOMAIN evals = 1 .. Len(evals) /\ Len(evals) \in Nat
    BY <1>1
  <2> QED BY <2>1, FirstNumbers
<1>3. IsFiniteSet(SuitesRun)
  <2> DEFINE f == [e \in DOMAIN evals |-> evals[e].suite]
  <2>1. f \in Surjection(DOMAIN evals, SuitesRun)
    BY DEF Surjection, SuitesRun
  <2> HIDE DEF f
  <2> QED BY <1>2, <2>1, FS_Surjection
<1>4. ExistsBijection(SuitesRun, NamesRun)
  <2> DEFINE f == [s \in SuitesRun |-> LabelOf[s]]
  <2>1. f \in [SuitesRun -> NamesRun]
    BY DEF SuitesRun, NamesRun
  <2>2. \A a, b \in SuitesRun : f[a] = f[b] => a = b
    BY <1>1 DEF Evals!Setting, SuitesRun
  <2>3. \A n \in NamesRun : \E s \in SuitesRun : f[s] = n
    BY DEF SuitesRun, NamesRun
  <2>4. DOMAIN f = SuitesRun
    OBVIOUS
  <2> HIDE DEF f
  <2>5. f \in Bijection(SuitesRun, NamesRun)
    BY <2>1, <2>2, <2>3, <2>4 DEF Bijection, Injection, Surjection, IsInjective
  <2> QED BY <2>5 DEF ExistsBijection
<1> QED BY <1>3, <1>4, FS_Bijection, FS_CardinalityType

LEMMA TotalsAgree ==
  ASSUME Evals!Setting, EvalsInv
  PROVE  Evals!MemTotals = Evals!SqlTotals
<1> DEFINE all == DOMAIN results
           clean == all \cap Evals!SqlClean
<1>0. /\ evals \in Seq(EvalRow) /\ results \in Seq(ResultRow) /\ EvalCase \in Nat
      /\ DOMAIN evals = 1 .. Len(evals) /\ all = 1 .. Len(results)
      /\ Len(evals) \in Nat /\ Len(results) \in Nat
  BY DEF EvalsInv, EvalTypes, Evals!Setting
<1>1. Evals!Cardinality(SuitesRun) = Evals!Cardinality(NamesRun)
  BY SuitesCount, EvalCount
<1>2. Evals!Cardinality({<<evals[e].suite, c>> : e \in DOMAIN evals, c \in 1 .. EvalCase})
      = EvalCase * Evals!Cardinality(NamesRun)
  <2>1. {<<evals[e].suite, c>> : e \in DOMAIN evals, c \in 1 .. EvalCase}
        = SuitesRun \X (1 .. EvalCase)
    BY DEF SuitesRun
  <2>2. IsFiniteSet(1 .. EvalCase) /\ Cardinality(1 .. EvalCase) = EvalCase
    BY <1>0, FirstNumbers
  <2>3. /\ IsFiniteSet(SuitesRun) /\ Cardinality(SuitesRun) \in Nat
        /\ Cardinality(SuitesRun) = Cardinality(NamesRun)
    BY SuitesCount
  <2>4. Cardinality(SuitesRun \X (1 .. EvalCase))
          = Cardinality(SuitesRun) * Cardinality(1 .. EvalCase)
    BY <2>2, <2>3, FS_Product
  <2>5. Cardinality(SuitesRun) * EvalCase = EvalCase * Cardinality(SuitesRun)
    BY <1>0, <2>3
  <2>6. Cardinality(SuitesRun \X (1 .. EvalCase)) = EvalCase * Cardinality(NamesRun)
    BY <2>2, <2>3, <2>4, <2>5
  <2> QED BY <2>1, <2>6, EvalCount
<1>3. Evals!Cardinality(DOMAIN evals) = Len(evals)
  BY <1>0, FirstNumbers, EvalCount
<1>4. /\ Evals!MemClean(all) = clean /\ clean = Evals!SqlClean
      /\ {i \in all : Evals!ExcludedKind(i) = {Evals!Limited}} = Evals!SqlWith(Evals!Limited, all)
  BY CleanAgree DEF Evals!SqlClean
<1>5. Len(results) - Evals!Cardinality(clean)
      = Evals!Cardinality({x[1] : x \in {y \in Evals!ScoreRows : y[2] \in Evals!Excluding}})
  <2>1. {x[1] : x \in {y \in Evals!ScoreRows : y[2] \in Evals!Excluding}} = all \ clean
    <3>1. ASSUME NEW i \in all, i \notin clean
          PROVE  \E y \in Evals!ScoreRows : y[2] \in Evals!Excluding /\ y[1] = i
      <4>1. PICK m \in Evals!Excluding : <<i, m>> \in Evals!ScoreRows
        BY <3>1 DEF Evals!SqlClean
      <4> QED BY <4>1
    <3>2. ASSUME NEW y \in Evals!ScoreRows, y[2] \in Evals!Excluding
          PROVE  y[1] \in all /\ y[1] \notin clean
      <4>1. y = <<y[1], y[2]>> /\ y[1] \in all
        BY DEF Evals!ScoreRows
      <4> QED BY <3>2, <4>1 DEF Evals!SqlClean
    <3> QED BY <3>1, <3>2
  <2>2. IsFiniteSet(all) /\ Cardinality(all) = Len(results)
    BY <1>0, FirstNumbers
  <2>3. all \cap (all \ clean) = all \ clean /\ all \ (all \ clean) = clean
    OBVIOUS
  <2> HIDE DEF all, clean
  <2>4. IsFiniteSet(all \ clean)
    BY <2>2, FS_Difference
  <2>5. Cardinality(clean) = Cardinality(all) - Cardinality(all \ clean)
    <3> DEFINE out == all \ clean
    <3>1. all \cap out = out /\ all \ out = clean
      BY <2>3
    <3> HIDE DEF out
    <3>2. Cardinality(all \ out) = Cardinality(all) - Cardinality(all \cap out)
      BY <2>2, FS_Difference
    <3>3. Cardinality(clean) = Cardinality(all) - Cardinality(out)
      BY <3>1, <3>2
    <3> QED BY <3>3 DEF out
  <2>6. Cardinality(all \ clean) \in Nat
    BY <2>4, FS_CardinalityType
  <2>7. Len(results) - Cardinality(clean) = Cardinality(all \ clean)
    BY <1>0, <2>2, <2>5, <2>6
  <2> QED BY <2>1, <2>7, EvalCount
<1>6. /\ {i \in Evals!SqlClean : results[i].success} = clean \cap Evals!Passed
      /\ Evals!SqlWith("judge.overall", Evals!SqlClean) = clean \cap Evals!Has("judge.overall")
      /\ Evals!SqlWith("judge.error", Evals!SqlClean) = clean \cap Evals!Has("judge.error")
  <2>1. Evals!SqlClean \in SUBSET all /\ clean = Evals!SqlClean
    BY DEF Evals!SqlClean
  <2> QED BY <2>1, CleanAgree DEF Metrics, Evals!Passed
<1>7. Evals!MemTotals =
       [suites |-> Evals!Cardinality(SuitesRun),
        cases |-> Evals!Cardinality({<<evals[e].suite, c>> : e \in DOMAIN evals,
                                                             c \in 1 .. EvalCase}),
        runs |-> Len(evals), results |-> Evals!Cardinality(clean),
        excluded |-> Len(results) - Evals!Cardinality(clean),
        limited |-> Evals!ByLimit(all),
        passed |-> Evals!Cardinality(clean \cap Evals!Passed),
        judged |-> Evals!Cardinality(clean \cap Evals!Has("judge.overall")),
        errors |-> Evals!Cardinality(clean \cap Evals!Has("judge.error"))]
  <2> DEFINE Totals(S) ==
       [suites |-> Evals!Cardinality(SuitesRun),
        cases |-> Evals!Cardinality({<<evals[e].suite, c>> : e \in DOMAIN evals,
                                                             c \in 1 .. EvalCase}),
        runs |-> Len(evals), results |-> Evals!Cardinality(S),
        excluded |-> Len(results) - Evals!Cardinality(S),
        limited |-> Evals!ByLimit(all),
        passed |-> Evals!Cardinality(S \cap Evals!Passed),
        judged |-> Evals!Cardinality(S \cap Evals!Has("judge.overall")),
        errors |-> Evals!Cardinality(S \cap Evals!Has("judge.error"))]
  <2>1. Evals!MemTotals = Totals(Evals!MemClean(all))
    BY DEF Evals!MemTotals, SuitesRun
  <2> HIDE DEF Totals
  <2>2. Evals!MemTotals = Totals(clean)
    BY <1>4, <2>1
  <2> QED BY <2>2 DEF Totals
<1>8. Evals!ByLimit(all) = Evals!Cardinality(Evals!SqlWith(Evals!Limited, all))
  BY <1>4 DEF Evals!ByLimit
<1> HIDE DEF all
<1>9. Evals!SqlTotals =
       [suites |-> Evals!Cardinality(NamesRun), cases |-> EvalCase * Evals!Cardinality(NamesRun),
        runs |-> Evals!Cardinality(DOMAIN evals), results |-> Evals!Cardinality(Evals!SqlClean),
        excluded |-> Evals!Cardinality(
          {x[1] : x \in {y \in Evals!ScoreRows : y[2] \in Evals!Excluding}}),
        limited |-> Evals!Cardinality(Evals!SqlWith(Evals!Limited, all)),
        passed |-> Evals!Cardinality({i \in Evals!SqlClean : results[i].success}),
        judged |-> Evals!Cardinality(Evals!SqlWith("judge.overall", Evals!SqlClean)),
        errors |-> Evals!Cardinality(Evals!SqlWith("judge.error", Evals!SqlClean))]
  BY Zenon DEF Evals!SqlTotals, NamesRun, all
<1> HIDE DEF clean
<1>10. /\ Evals!MemTotals.suites = Evals!SqlTotals.suites
       /\ Evals!MemTotals.cases = Evals!SqlTotals.cases
       /\ Evals!MemTotals.runs = Evals!SqlTotals.runs
  BY <1>1, <1>2, <1>3, <1>7, <1>9
<1>11. /\ Evals!MemTotals.results = Evals!SqlTotals.results
       /\ Evals!MemTotals.excluded = Evals!SqlTotals.excluded
       /\ Evals!MemTotals.limited = Evals!SqlTotals.limited
  BY <1>4, <1>5, <1>7, <1>8, <1>9
<1>12. /\ Evals!MemTotals.passed = Evals!SqlTotals.passed
       /\ Evals!MemTotals.judged = Evals!SqlTotals.judged
       /\ Evals!MemTotals.errors = Evals!SqlTotals.errors
  <2>1. /\ Evals!MemTotals.passed = Evals!Cardinality(clean \cap Evals!Passed)
        /\ Evals!MemTotals.judged = Evals!Cardinality(clean \cap Evals!Has("judge.overall"))
        /\ Evals!MemTotals.errors = Evals!Cardinality(clean \cap Evals!Has("judge.error"))
    BY <1>7
  <2>2. /\ Evals!SqlTotals.passed
             = Evals!Cardinality({i \in Evals!SqlClean : results[i].success})
        /\ Evals!SqlTotals.judged
             = Evals!Cardinality(Evals!SqlWith("judge.overall", Evals!SqlClean))
        /\ Evals!SqlTotals.errors
             = Evals!Cardinality(Evals!SqlWith("judge.error", Evals!SqlClean))
    BY <1>9
  <2> QED BY <1>6, <2>1, <2>2, Zenon
<1> QED BY <1>7, <1>9, <1>10, <1>11, <1>12

\* The latest of some evaluations is one of them, and none is later.
LEMMA LatestIsLast ==
  ASSUME EvalsInv, NEW S \in SUBSET DOMAIN evals, S # {}
  PROVE  /\ Evals!Latest(S) \in S /\ \A f \in S : f <= Evals!Latest(S)
<1>1. Len(evals) \in Nat /\ S \subseteq 0 .. Len(evals)
  BY DEF EvalsInv, EvalTypes
<1>2. \E e \in S : \A f \in S : f <= e
  BY <1>1, GreatestOf
<1> QED BY <1>2 DEF Evals!Latest

Cohort(s) == {e \in DOMAIN evals : evals[e].suite = s}
Labelled(l) == {e \in DOMAIN evals : LabelOf[evals[e].suite] = l}
Shared == {s \in Suite : \A t \in Track : Evals!On(t, Cohort(s)) # {}}
SharedLabels == {l \in {LabelOf[s] : s \in Suite} : \A t \in Track : Evals!On(t, Labelled(l)) # {}}

LEMMA ComparisonsAgree ==
  ASSUME Evals!Setting, EvalsInv
  PROVE  Evals!MemComparison = Evals!SqlComparison
<1> DEFINE all == DOMAIN evals
           newest == CHOOSE s \in Shared :
             \A u \in Shared : Evals!Latest(Cohort(u)) <= Evals!Latest(Cohort(s))
           newestLabel == CHOOSE l \in SharedLabels :
             \A u \in SharedLabels : Evals!Latest(Labelled(u)) <= Evals!Latest(Labelled(l))
<1>0. /\ \A e \in all : evals[e].suite \in Suite /\ evals[e].track \in Track
      /\ \A s, u \in Suite : LabelOf[s] = LabelOf[u] => s = u
      /\ Len(evals) \in Nat /\ all = 1 .. Len(evals) /\ Track # {}
  <2>1. evals \in Seq(EvalRow)
    BY DEF EvalsInv, EvalTypes
  <2>2. \A e \in DOMAIN evals : evals[e] \in EvalRow
    BY <2>1
  <2>3. \A s, u \in Suite : LabelOf[s] = LabelOf[u] => s = u
    BY DEF Evals!Setting
  <2>4. Track # {}
    BY DEF Evals!Setting, Evals!ToSet, Evals!Tracks
  <2> QED BY <2>1, <2>2, <2>3, <2>4 DEF EvalRow
<1>1. \A s \in Suite : Labelled(LabelOf[s]) = Cohort(s)
  BY <1>0 DEF Labelled, Cohort
<1>2. SharedLabels = {LabelOf[s] : s \in Shared} /\ Shared \subseteq Suite
  BY <1>1 DEF SharedLabels, Shared
<1>3. ASSUME Shared # {}
      PROVE  newest \in Shared /\ newestLabel = LabelOf[newest]
  <2>1. \A s \in Shared : Cohort(s) # {} /\ Cohort(s) \in SUBSET all
    BY <1>0 DEF Shared, Cohort, Evals!On
  <2>2. \A s \in Shared : /\ Evals!Latest(Cohort(s)) \in Cohort(s)
                          /\ \A f \in Cohort(s) : f <= Evals!Latest(Cohort(s))
    BY <2>1, LatestIsLast
  <2> DEFINE M == UNION {Cohort(s) : s \in Shared}
  <2>3. M \subseteq 0 .. Len(evals) /\ M # {}
    BY <1>0, <1>3, <2>1
  <2>4. PICK g \in M : \A f \in M : f <= g
    BY <1>0, <2>3, GreatestOf
  <2>5. PICK s \in Shared : g \in Cohort(s)
    OBVIOUS
  <2>6. Evals!Latest(Cohort(s)) = g
    <3>1. /\ Evals!Latest(Cohort(s)) \in M /\ g <= Evals!Latest(Cohort(s))
      BY <2>2, <2>5
    <3>2. Evals!Latest(Cohort(s)) <= g
      BY <2>4, <3>1
    <3>3. g \in Nat /\ Evals!Latest(Cohort(s)) \in Nat
      BY <2>3, <3>1
    <3> HIDE DEF M
    <3> QED BY <3>1, <3>2, <3>3
  <2>7. \A u \in Shared : Evals!Latest(Cohort(u)) \in M
    BY <2>2
  <2>8. \A u \in Shared : Evals!Latest(Cohort(u)) <= Evals!Latest(Cohort(s))
    BY <2>4, <2>6, <2>7
  <2>9. ASSUME NEW v \in Shared,
               \A u \in Shared : Evals!Latest(Cohort(u)) <= Evals!Latest(Cohort(v))
        PROVE  v = s
    <3>1. g <= Evals!Latest(Cohort(v)) /\ Evals!Latest(Cohort(v)) <= g
      BY <2>4, <2>5, <2>6, <2>7, <2>9
    <3>2. g \in Nat /\ Evals!Latest(Cohort(v)) \in Nat
      BY <2>3, <2>7
    <3>3. Evals!Latest(Cohort(v)) = g
      BY <3>1, <3>2
    <3>4. g \in Cohort(v)
      BY <2>2, <3>3
    <3> QED BY <2>5, <3>4 DEF Cohort
  <2>10. newest = s
    <3> HIDE DEF M
    <3> QED BY <2>5, <2>8, <2>9
  <2>11. newestLabel = LabelOf[s]
    <3> DEFINE Newest(l) == \A u \in SharedLabels :
                 Evals!Latest(Labelled(u)) <= Evals!Latest(Labelled(l))
    <3>1. LabelOf[s] \in SharedLabels /\ Newest(LabelOf[s])
      BY <1>1, <1>2, <2>5, <2>8
    <3>2. \A l \in SharedLabels : Newest(l) => l = LabelOf[s]
      <4> SUFFICES ASSUME NEW v \in Shared, Newest(LabelOf[v]) PROVE v = s
        BY <1>2
      <4>1. \A u \in Shared : Evals!Latest(Cohort(u)) <= Evals!Latest(Cohort(v))
        BY <1>1, <1>2
      <4> QED BY <2>9, <4>1
    <3>3. newestLabel = CHOOSE l \in SharedLabels : Newest(l)
      OBVIOUS
    <3> HIDE DEF Newest, newestLabel
    <3> QED BY <3>1, <3>2, <3>3
  <2> QED BY <2>5, <2>10, <2>11
<1>4. Shared = {} <=> SharedLabels = {}
  BY <1>2
<1>5. Shared # {} => Labelled(newestLabel) = Cohort(newest)
  BY <1>1, <1>2, <1>3
<1>6. Evals!MemComparison =
        IF all = {} THEN {}
        ELSE IF \E t \in Track : Evals!On(t, all) = {} THEN {Evals!Latest(all)}
        ELSE IF Shared = {} THEN {}
        ELSE {Evals!Latest(Evals!On(t, Cohort(newest))) : t \in Track}
  BY Zenon DEF Evals!MemComparison, Shared, Cohort
<1>7. Evals!SqlComparison =
        CASE all = {} -> {}
          [] \E t \in Track : all # {} /\ Evals!On(t, all) = {} -> {Evals!Latest(all)}
          [] OTHER -> IF SharedLabels = {} THEN {}
                      ELSE {Evals!Latest(Evals!On(t, Labelled(newestLabel))) : t \in Track}
  BY Zenon DEF Evals!SqlComparison, SharedLabels, Labelled
<1> HIDE DEF all, newest, newestLabel
<1> QED BY <1>4, <1>5, <1>6, <1>7

\* Nothing happens at a case between two moments of the records.
Same(tr, rs, tu, ru, e, c) ==
  /\ TriesAt(tu, e, c) = TriesAt(tr, e, c) /\ \A i \in TriesAt(tr, e, c) : tu[i] = tr[i]
  /\ ResultsAt(ru, e, c) = ResultsAt(rs, e, c) /\ \A i \in ResultsAt(rs, e, c) : ru[i] = rs[i]

LEMMA SameDone ==
  ASSUME NEW tr, NEW rs, NEW tu, NEW ru, NEW e, NEW c, Same(tr, rs, tu, ru, e, c),
         DoneAt(tr, rs, e, c)
  PROVE  DoneAt(tu, ru, e, c)
<1>1. PICK r : /\ ResultsAt(rs, e, c) = {r}
               /\ (rs[r].scores \cap Excluding # {})
                    <=> (/\ Cardinality(TriesAt(tr, e, c)) = Attempts
                         /\ Excused(tr, TriesAt(tr, e, c)))
  BY DEF DoneAt
<1>2. ResultsAt(ru, e, c) = {r} /\ ru[r] = rs[r] /\ TriesAt(tu, e, c) = TriesAt(tr, e, c)
  BY <1>1 DEF Same
<1>3. Excused(tu, TriesAt(tr, e, c)) <=> Excused(tr, TriesAt(tr, e, c))
  BY DEF Same, Excused
<1> QED BY <1>1, <1>2, <1>3 DEF DoneAt

LEMMA SameStage ==
  ASSUME NEW tr, NEW rs, NEW tu, NEW ru, NEW b, Same(tr, rs, tu, ru, b.eval, b.case),
         InStage(tr, rs, b)
  PROVE  InStage(tu, ru, b)
<1> DEFINE T == TriesAt(tr, b.eval, b.case)
           R == ResultsAt(rs, b.eval, b.case)
<1>1. /\ TriesAt(tu, b.eval, b.case) = T /\ \A i \in T : tu[i] = tr[i]
      /\ ResultsAt(ru, b.eval, b.case) = R /\ \A i \in R : ru[i] = rs[i]
  BY DEF Same
<1>2. \A S \in SUBSET T : Excused(tu, S) <=> Excused(tr, S)
  BY <1>1 DEF Excused
<1>3. /\ IsFiniteSet(T) /\ Cardinality(T) = Attempts - b.left
      /\ b.stage = "try" => R = {} /\ b.left > 0 /\ Excused(tr, T)
      /\ b.stage = "running" =>
           /\ R = {}
           /\ \E i \in T : /\ \A k \in T : k <= i
                           /\ Excused(tr, T \ {i})
                           /\ \A k \in T \ {i} : tr[k].status # "running"
      /\ b.stage \in {"result", "score", "judge"} =>
           /\ \E i \in T : tr[i].kind = b.kind /\ Excused(tr, T \ {i})
           /\ b.kind \in Excluding => b.left = 0
      /\ b.stage = "result" => R = {}
      /\ b.stage = "score" => \E r : R = {r} /\ rs[r].scores = {}
      /\ b.stage = "judge" =>
           b.kind \notin Excluding /\ \E r : R = {r} /\ rs[r].scores = {"correctness"}
  BY DEF InStage
<1> HIDE DEF T, R
<1>4. b.stage = "running" =>
           \E i \in T : /\ \A k \in T : k <= i
                        /\ Excused(tu, T \ {i})
                        /\ \A k \in T \ {i} : tu[k].status # "running"
  <2> SUFFICES ASSUME b.stage = "running"
               PROVE  \E i \in T : /\ \A k \in T : k <= i
                                   /\ Excused(tu, T \ {i})
                                   /\ \A k \in T \ {i} : tu[k].status # "running"
    OBVIOUS
  <2>1. PICK i \in T : /\ \A k \in T : k <= i
                       /\ Excused(tr, T \ {i})
                       /\ \A k \in T \ {i} : tr[k].status # "running"
    BY <1>3
  <2>2. Excused(tu, T \ {i}) /\ \A k \in T \ {i} : tu[k].status # "running"
    BY <1>1, <1>2, <2>1
  <2> QED BY <2>1, <2>2
<1>5. b.stage \in {"result", "score", "judge"} =>
           \E i \in T : tu[i].kind = b.kind /\ Excused(tu, T \ {i})
  <2> SUFFICES ASSUME b.stage \in {"result", "score", "judge"}
               PROVE  \E i \in T : tu[i].kind = b.kind /\ Excused(tu, T \ {i})
    OBVIOUS
  <2>1. PICK i \in T : tr[i].kind = b.kind /\ Excused(tr, T \ {i})
    BY <1>3
  <2> QED BY <1>1, <1>2, <2>1
<1>6. /\ b.stage = "score" => \E r : R = {r} /\ ru[r].scores = {}
      /\ b.stage = "judge" => \E r : R = {r} /\ ru[r].scores = {"correctness"}
  BY <1>1, <1>3
<1>7. b.stage = "try" => Excused(tu, T)
  BY <1>2, <1>3
<1> QED BY <1>1, <1>3, <1>4, <1>5, <1>6, <1>7, Zenon DEF InStage, T, R

LEMMA SameJob ==
  ASSUME NEW tr, NEW rs, NEW tu, NEW ru, NEW b \in JobRow, b.case \in Nat, b.eval <= b.last,
         \A e \in b.eval .. b.last, c \in Nat : Same(tr, rs, tu, ru, e, c),
         JobAt(tr, rs, b)
  PROVE  JobAt(tu, ru, b)
<1>1. b.eval \in Nat /\ b.last \in Nat /\ b.eval \in b.eval .. b.last
  BY DEF JobRow
<1>2. InStage(tu, ru, b)
  BY <1>1, SameStage DEF JobAt
<1>3. \A c \in 1 .. b.case - 1 : DoneAt(tu, ru, b.eval, c)
  <2> TAKE c \in 1 .. b.case - 1
  <2>1. c \in Nat /\ DoneAt(tr, rs, b.eval, c)
    BY DEF JobAt
  <2> QED BY <1>1, <2>1, SameDone
<1>4. \A e \in b.eval .. b.last, c \in Nat : NoneAt(tr, rs, e, c) => NoneAt(tu, ru, e, c)
  BY DEF Same, NoneAt
<1>5. \A c \in Nat : c > b.case => NoneAt(tu, ru, b.eval, c)
  BY <1>1, <1>4 DEF JobAt
<1>6. \A e \in b.eval + 1 .. b.last, c \in Nat : NoneAt(tu, ru, e, c)
  <2>1. \A e \in b.eval + 1 .. b.last : e \in b.eval .. b.last
    BY <1>1
  <2> QED BY <1>4, <2>1 DEF JobAt
<1> QED BY <1>2, <1>3, <1>5, <1>6 DEF JobAt

\* One more attempt, or one that ends.
LEMMA TryAdded ==
  ASSUME NEW tr \in Seq(TryRow), NEW x \in TryRow
  PROVE  /\ Append(tr, x) \in Seq(TryRow) /\ DOMAIN Append(tr, x) = DOMAIN tr \cup {Len(tr) + 1}
         /\ Append(tr, x)[Len(tr) + 1] = x /\ \A i \in DOMAIN tr : Append(tr, x)[i] = tr[i]
         /\ \A i \in DOMAIN tr : i < Len(tr) + 1
         /\ TriesAt(Append(tr, x), x.eval, x.case)
              = TriesAt(tr, x.eval, x.case) \cup {Len(tr) + 1}
         /\ \A rs, e, c : ~(e = x.eval /\ c = x.case) => Same(tr, rs, Append(tr, x), rs, e, c)
<1> DEFINE n == Len(tr) + 1
           tu == Append(tr, x)
<1>1. /\ tu \in Seq(TryRow) /\ DOMAIN tu = DOMAIN tr \cup {n} /\ tu[n] = x
      /\ \A i \in DOMAIN tr : tu[i] = tr[i] /\ i < n
  OBVIOUS
<1> HIDE DEF tu, n
<1>2. TriesAt(tu, x.eval, x.case) = TriesAt(tr, x.eval, x.case) \cup {n}
  BY <1>1 DEF TriesAt
<1>3. \A rs, e, c : ~(e = x.eval /\ c = x.case) => Same(tr, rs, tu, rs, e, c)
  BY <1>1 DEF TriesAt, Same
<1> QED BY <1>1, <1>2, <1>3 DEF tu, n

LEMMA TrySet ==
  ASSUME NEW tr, NEW tu, NEW n, DOMAIN tu = DOMAIN tr,
         \A i \in DOMAIN tr : tu[i].eval = tr[i].eval /\ tu[i].case = tr[i].case,
         \A i \in DOMAIN tr : i # n => tu[i] = tr[i]
  PROVE  /\ \A e, c : TriesAt(tu, e, c) = TriesAt(tr, e, c)
         /\ \A rs, e, c : ~(e = tr[n].eval /\ c = tr[n].case) => Same(tr, rs, tu, rs, e, c)
BY DEF TriesAt, Same

\* One more result, or scores of one.
LEMMA ResultAdded ==
  ASSUME NEW rs \in Seq(ResultRow), NEW x \in ResultRow
  PROVE  /\ Append(rs, x) \in Seq(ResultRow)
         /\ DOMAIN Append(rs, x) = DOMAIN rs \cup {Len(rs) + 1}
         /\ Append(rs, x)[Len(rs) + 1] = x /\ \A i \in DOMAIN rs : Append(rs, x)[i] = rs[i]
         /\ ResultsAt(Append(rs, x), x.eval, x.case)
              = ResultsAt(rs, x.eval, x.case) \cup {Len(rs) + 1}
         /\ \A tr, e, c : ~(e = x.eval /\ c = x.case) => Same(tr, rs, tr, Append(rs, x), e, c)
<1> DEFINE n == Len(rs) + 1
           ru == Append(rs, x)
<1>1. /\ ru \in Seq(ResultRow) /\ DOMAIN ru = DOMAIN rs \cup {n} /\ ru[n] = x
      /\ \A i \in DOMAIN rs : ru[i] = rs[i] /\ i # n
  OBVIOUS
<1> HIDE DEF ru, n
<1>2. ResultsAt(ru, x.eval, x.case) = ResultsAt(rs, x.eval, x.case) \cup {n}
  BY <1>1 DEF ResultsAt
<1>3. \A tr, e, c : ~(e = x.eval /\ c = x.case) => Same(tr, rs, tr, ru, e, c)
  BY <1>1 DEF ResultsAt, Same
<1> QED BY <1>1, <1>2, <1>3 DEF ru, n

LEMMA ResultSet ==
  ASSUME NEW rs, NEW ru, NEW n, DOMAIN ru = DOMAIN rs,
         \A i \in DOMAIN rs : ru[i].eval = rs[i].eval /\ ru[i].case = rs[i].case,
         \A i \in DOMAIN rs : i # n => ru[i] = rs[i]
  PROVE  /\ \A e, c : ResultsAt(ru, e, c) = ResultsAt(rs, e, c)
         /\ \A tr, e, c : ~(e = rs[n].eval /\ c = rs[n].case) => Same(tr, rs, tr, ru, e, c)
BY DEF ResultsAt, Same

LEMMA EvalsInit == Evals!Setting /\ Evals!Init => EvalsInv
<1> SUFFICES ASSUME Evals!Init PROVE EvalsInv
  OBVIOUS
<1>1. evals = <<>> /\ tries = <<>> /\ results = <<>> /\ jobs = <<>> /\ stops = 0
  BY DEF Evals!Init
<1>2. /\ <<>> \in Seq(EvalRow) /\ <<>> \in Seq(TryRow) /\ <<>> \in Seq(ResultRow)
      /\ <<>> \in Seq(JobRow) /\ DOMAIN <<>> = {}
  OBVIOUS
<1>3. EvalTypes
  BY <1>1, <1>2 DEF EvalTypes
<1>4. Working = {}
  BY <1>1, <1>2 DEF Working
<1>5. JobsInPlace /\ JobsApart
  BY <1>4 DEF JobsInPlace, JobsApart
<1>6. TriesAreRight /\ ResultsAreRight /\ FinishedIsDone
  BY <1>1, <1>2 DEF TriesAreRight, ResultsAreRight, FinishedIsDone
<1> QED BY <1>3, <1>5, <1>6 DEF EvalsInv

\* What is known of a job that works.
LEMMA AtWork ==
  ASSUME Evals!Setting, EvalsInv, NEW j \in Working
  PROVE  /\ j \in DOMAIN jobs /\ jobs[j] \in JobRow /\ jobs[j].stage # "done"
         /\ jobs[j].eval \in Nat \ {0} /\ jobs[j].last \in Nat /\ jobs[j].case \in Nat \ {0}
         /\ jobs[j].eval <= jobs[j].last /\ jobs[j].last \in DOMAIN evals
         /\ jobs[j].eval \in DOMAIN evals
         /\ Unfinished(evals, jobs[j]) /\ JobAt(tries, results, jobs[j])
         /\ Evals!Eval(j) = jobs[j].eval
<1>1. j \in DOMAIN jobs /\ jobs[j].stage # "done"
  BY DEF Working
<1>2. jobs[j] \in JobRow
  BY <1>1 DEF EvalsInv, EvalTypes
<1>3. Unfinished(evals, jobs[j]) /\ JobAt(tries, results, jobs[j])
  BY DEF EvalsInv, JobsInPlace
<1>4. evals \in Seq(EvalRow) /\ EvalCase \in Nat
  BY DEF EvalsInv, EvalTypes, Evals!Setting
<1> QED BY <1>1, <1>2, <1>3, <1>4 DEF Unfinished, JobRow, Evals!Eval

\* Two jobs that work have no evaluation in common, and finished ones none with either.
LEMMA OthersElsewhere ==
  ASSUME Evals!Setting, EvalsInv, NEW j \in Working, NEW k \in Working, j # k
  PROVE  jobs[j].eval \notin jobs[k].eval .. jobs[k].last
<1>1. jobs[j].last < jobs[k].eval \/ jobs[k].last < jobs[j].eval
  BY DEF EvalsInv, JobsApart
<1> QED BY <1>1, AtWork

\* A job goes on at its case, or the case is done and the next one begins.
LEMMA CaseMoves ==
  ASSUME Evals!Setting, EvalsInv, NEW j \in Working, NEW b \in JobRow,
         jobs' = [jobs EXCEPT ![j] = b], evals' = evals, stops' = stops,
         b.eval = jobs[j].eval, b.last = jobs[j].last,
         \A e, c \in Nat : ~(e = jobs[j].eval /\ c = jobs[j].case)
           => Same(tries, results, tries', results', e, c),
         \/ /\ b.case = jobs[j].case /\ jobs[j].stage # "finish"
            /\ b.stage \notin {"finish", "done"}
            /\ InStage(tries', results', b)
         \/ /\ b.case = jobs[j].case + 1 /\ b.left = Attempts /\ jobs[j].stage # "finish"
            /\ b.stage = IF jobs[j].case < EvalCase THEN "try" ELSE "finish"
            /\ DoneAt(tries', results', jobs[j].eval, jobs[j].case)
  PROVE  JobsInPlace' /\ JobsApart' /\ FinishedIsDone'
<1> DEFINE e0 == jobs[j].eval
           c0 == jobs[j].case
<1>1. /\ j \in DOMAIN jobs /\ jobs[j].stage # "done" /\ e0 \in Nat \ {0} /\ c0 \in Nat \ {0}
      /\ jobs[j].last \in Nat /\ e0 <= jobs[j].last
      /\ Unfinished(evals, jobs[j]) /\ JobAt(tries, results, jobs[j]) /\ e0 \in DOMAIN evals
  BY AtWork
<1>2. b.stage # "done" /\ Attempts \in Nat \ {0} /\ EvalCase \in Nat \ {0} /\ jobs \in Seq(JobRow)
  BY DEF Evals!Setting, EvalsInv, EvalTypes
<1>3. /\ DOMAIN jobs' = DOMAIN jobs /\ jobs'[j] = b
      /\ \A k \in DOMAIN jobs : k # j => jobs'[k] = jobs[k]
  BY <1>1, <1>2
<1>4. Working' = Working
  BY <1>1, <1>2, <1>3 DEF Working
<1>5. JobsApart'
  BY <1>3, <1>4 DEF JobsApart, EvalsInv, Working
<1>6. ASSUME NEW k \in Working, k # j
      PROVE  /\ jobs'[k] = jobs[k] /\ Unfinished(evals, jobs[k])
             /\ JobAt(tries', results', jobs[k])
  <2>1. /\ jobs[k] \in JobRow /\ jobs[k].case \in Nat /\ jobs[k].eval <= jobs[k].last
        /\ Unfinished(evals, jobs[k]) /\ JobAt(tries, results, jobs[k]) /\ jobs[k].eval \in Nat
        /\ k \in DOMAIN jobs
    BY AtWork
  <2>2. e0 \notin jobs[k].eval .. jobs[k].last
    BY <1>6, OthersElsewhere
  <2>3. \A e \in jobs[k].eval .. jobs[k].last, c \in Nat :
          Same(tries, results, tries', results', e, c)
    BY <2>1, <2>2
  <2> QED BY <1>3, <1>6, <2>1, <2>3, SameJob
<1>7. JobAt(tries', results', b)
  <2>1. \A c \in 1 .. c0 - 1 : DoneAt(tries', results', e0, c)
    <3> TAKE c \in 1 .. c0 - 1
    <3>1. c \in Nat /\ c # c0 /\ DoneAt(tries, results, e0, c)
      BY <1>1 DEF JobAt
    <3> QED BY <1>1, <3>1, SameDone
  <2>2. \A c \in Nat : c > c0 => NoneAt(tries', results', e0, c)
    BY <1>1 DEF JobAt, NoneAt, Same
  <2>3. \A e \in e0 + 1 .. jobs[j].last, c \in Nat : NoneAt(tries', results', e, c)
    <3> TAKE e \in e0 + 1 .. jobs[j].last, c \in Nat
    <3>1. e \in Nat /\ e # e0 /\ NoneAt(tries, results, e, c)
      BY <1>1 DEF JobAt
    <3> QED BY <3>1 DEF NoneAt, Same
  <2>4. CASE b.case = c0 /\ InStage(tries', results', b)
    BY <2>1, <2>2, <2>3, <2>4 DEF JobAt
  <2>5. CASE /\ b.case = c0 + 1 /\ b.left = Attempts
             /\ b.stage = IF c0 < EvalCase THEN "try" ELSE "finish"
             /\ DoneAt(tries', results', e0, c0)
    <3>1. \A c \in 1 .. b.case - 1 : c \in 1 .. c0 - 1 \/ c = c0
      BY <1>1, <2>5
    <3>2. \A c \in 1 .. b.case - 1 : DoneAt(tries', results', e0, c)
      BY <2>1, <2>5, <3>1
    <3>3. \A c \in Nat : c > b.case => NoneAt(tries', results', e0, c)
      BY <1>1, <2>2, <2>5
    <3>4. NoneAt(tries', results', e0, b.case)
      BY <1>1, <2>2, <2>5
    <3>5. InStage(tries', results', b)
      <4>1. /\ TriesAt(tries', b.eval, b.case) = {} /\ ResultsAt(results', b.eval, b.case) = {}
        BY <3>4 DEF NoneAt
      <4>2. IsFiniteSet({}) /\ Cardinality({}) = 0 /\ 0 = Attempts - b.left /\ b.left > 0
        BY <1>2, <2>5, FS_EmptySet
      <4>3. b.stage \in {"try", "finish"}
        BY <2>5
      <4> QED BY <4>1, <4>2, <4>3 DEF InStage, Excused
    <3> QED BY <2>3, <3>2, <3>3, <3>5 DEF JobAt
  <2> QED BY <2>4, <2>5
<1>8. Unfinished(evals, b)
  <2>1. e0 \in 1 .. jobs[j].last /\ jobs[j].last \in DOMAIN evals
        /\ (\A e \in e0 .. jobs[j].last : ~evals[e].finished)
        /\ c0 \in 1 .. EvalCase + 1 /\ (jobs[j].stage = "finish" <=> c0 = EvalCase + 1)
    BY <1>1 DEF Unfinished
  <2>2. b.case \in 1 .. EvalCase + 1 /\ (b.stage = "finish" <=> b.case = EvalCase + 1)
    BY <1>1, <1>2, <2>1
  <2> QED BY <2>1, <2>2 DEF Unfinished
<1>9. JobsInPlace'
  <2> SUFFICES ASSUME NEW k \in Working'
               PROVE  Unfinished(evals', jobs'[k]) /\ JobAt(tries', results', jobs'[k])
    BY DEF JobsInPlace
  <2>1. CASE k = j
    BY <1>3, <1>7, <1>8, <2>1 DEF Unfinished
  <2>2. CASE k # j
    BY <1>4, <1>6, <2>2 DEF Unfinished
  <2> QED BY <2>1, <2>2
<1>10. FinishedIsDone'
  <2> SUFFICES ASSUME NEW e \in DOMAIN evals, evals[e].finished, stops = 0,
                      NEW c \in 1 .. EvalCase
               PROVE  DoneAt(tries', results', e, c)
    BY DEF FinishedIsDone
  <2>1. DoneAt(tries, results, e, c) /\ e \in Nat /\ c \in Nat
    BY DEF EvalsInv, EvalTypes, FinishedIsDone
  <2>2. e # e0
    BY <1>1 DEF Unfinished
  <2> QED BY <2>1, <2>2, SameDone
<1> QED BY <1>5, <1>9, <1>10

\* An attempt keeps its job when another job moves, or one that did not run.
LEMMA RunningKeepsJob ==
  ASSUME EvalsInv, NEW j \in DOMAIN jobs, NEW b,
         jobs' = [jobs EXCEPT ![j] = b], evals' = evals, DOMAIN tries' = DOMAIN tries,
         \A i \in DOMAIN tries : /\ tries'[i].eval = tries[i].eval
                                 /\ tries'[i].case = tries[i].case,
         \A i \in DOMAIN tries : tries'[i].status = "running"
           => /\ tries[i].status = "running"
              /\ ~(/\ jobs[j].stage = "running" /\ tries[i].eval = jobs[j].eval
                   /\ tries[i].case = jobs[j].case)
  PROVE  TriesAreRight'
<1>1. DOMAIN jobs' = DOMAIN jobs /\ \A k \in DOMAIN jobs : k # j => jobs'[k] = jobs[k]
  BY DEF EvalsInv, EvalTypes
<1> SUFFICES ASSUME NEW i \in DOMAIN tries
             PROVE  /\ tries'[i].eval \in DOMAIN evals /\ tries'[i].case \in 1 .. EvalCase
                    /\ tries'[i].status = "running" =>
                         \E k \in DOMAIN jobs' : /\ jobs'[k].stage = "running"
                                                 /\ jobs'[k].eval = tries'[i].eval
                                                 /\ jobs'[k].case = tries'[i].case
  BY DEF TriesAreRight
<1>2. /\ tries[i].eval \in DOMAIN evals /\ tries[i].case \in 1 .. EvalCase
      /\ tries[i].status = "running" =>
           \E k \in DOMAIN jobs : /\ jobs[k].stage = "running"
                                  /\ jobs[k].eval = tries[i].eval /\ jobs[k].case = tries[i].case
  BY DEF EvalsInv, TriesAreRight
<1>3. ASSUME tries'[i].status = "running"
      PROVE  \E k \in DOMAIN jobs' : /\ jobs'[k].stage = "running"
                                     /\ jobs'[k].eval = tries'[i].eval
                                     /\ jobs'[k].case = tries'[i].case
  <2>1. PICK k \in DOMAIN jobs : /\ jobs[k].stage = "running"
                                 /\ jobs[k].eval = tries[i].eval /\ jobs[k].case = tries[i].case
    BY <1>2, <1>3
  <2>2. k # j
    BY <1>3, <2>1
  <2> QED BY <1>1, <2>1, <2>2
<1> QED BY <1>2, <1>3

\* The types of a job's successor.
LEMMA JobSet ==
  ASSUME EvalTypes, NEW j \in DOMAIN jobs, NEW b \in JobRow, jobs' = [jobs EXCEPT ![j] = b]
  PROVE  jobs' \in Seq(JobRow)
BY DEF EvalTypes

LEMMA TryStep ==
  ASSUME Evals!Setting, EvalsInv, NEW j \in DOMAIN jobs, Evals!Try(j)
  PROVE  EvalsInv'
<1> DEFINE e0 == jobs[j].eval
           c0 == jobs[j].case
           x == [eval |-> e0, case |-> c0, status |-> "running", kind |-> "none"]
           b == [jobs[j] EXCEPT !.stage = "running", !.left = @ - 1]
           n == Len(tries) + 1
           T == TriesAt(tries, e0, c0)
<1>1. /\ jobs[j].stage = "try" /\ tries' = Append(tries, x)
      /\ jobs' = [jobs EXCEPT ![j].stage = "running", ![j].left = @ - 1]
      /\ evals' = evals /\ results' = results /\ stops' = stops
  BY DEF Evals!Try, Evals!Eval
<1>2. j \in Working
  BY <1>1 DEF Working
<1>3. /\ jobs[j] \in JobRow /\ e0 \in DOMAIN evals /\ e0 \in Nat /\ c0 \in Nat
      /\ Unfinished(evals, jobs[j]) /\ InStage(tries, results, jobs[j])
  BY <1>2, AtWork DEF JobAt
<1>4. /\ evals \in Seq(EvalRow) /\ tries \in Seq(TryRow) /\ results \in Seq(ResultRow)
      /\ jobs \in Seq(JobRow) /\ stops \in Nat /\ EvalTypes
  BY DEF EvalsInv, EvalTypes
<1>5. /\ ResultsAt(results, e0, c0) = {} /\ jobs[j].left > 0 /\ Excused(tries, T)
      /\ IsFiniteSet(T) /\ Cardinality(T) = Attempts - jobs[j].left
  BY <1>1, <1>3 DEF InStage
<1>6. /\ jobs[j].left \in Nat /\ Attempts \in Nat /\ EvalCase \in Nat
      /\ c0 \in 1 .. EvalCase
  <2>1. c0 \in 1 .. EvalCase + 1 /\ (jobs[j].stage = "finish" <=> c0 = EvalCase + 1)
    BY <1>3 DEF Unfinished
  <2> QED BY <1>1, <1>3, <2>1 DEF JobRow, Evals!Setting
<1>7. b \in JobRow /\ jobs' = [jobs EXCEPT ![j] = b]
  <2>1. jobs[j].left - 1 \in Nat
    BY <1>5, <1>6
  <2>2. b \in JobRow
    BY <1>3, <2>1 DEF JobRow
  <2>3. jobs' = [jobs EXCEPT ![j] = b]
    BY <1>1, <1>4
  <2> QED BY <2>2, <2>3
<1>8. /\ b.eval = e0 /\ b.last = jobs[j].last /\ b.case = c0 /\ b.stage = "running"
      /\ b.left = jobs[j].left - 1
  BY <1>3 DEF JobRow
<1>9. x \in TryRow /\ x.eval = e0 /\ x.case = c0 /\ x.status = "running"
  BY <1>3 DEF TryRow, Kinds
<1> HIDE DEF b, x
<1>10. /\ tries' \in Seq(TryRow) /\ DOMAIN tries' = DOMAIN tries \cup {n} /\ tries'[n] = x
       /\ \A i \in DOMAIN tries : tries'[i] = tries[i] /\ i < n
       /\ TriesAt(tries', e0, c0) = T \cup {n}
       /\ \A e, c \in Nat : ~(e = e0 /\ c = c0) => Same(tries, results, tries', results', e, c)
  <2> DEFINE tu == Append(tries, x)
  <2>1. /\ tu \in Seq(TryRow) /\ DOMAIN tu = DOMAIN tries \cup {n} /\ tu[n] = x
        /\ \A i \in DOMAIN tries : tu[i] = tries[i] /\ i < n
        /\ TriesAt(tu, x.eval, x.case) = TriesAt(tries, x.eval, x.case) \cup {n}
        /\ \A rs, e, c : ~(e = x.eval /\ c = x.case) => Same(tries, rs, tu, rs, e, c)
    BY <1>4, <1>9, TryAdded
  <2>2. tries' = tu
    BY <1>1
  <2> HIDE DEF tu, n, T, e0, c0
  <2>3. \A e, c \in Nat : ~(e = e0 /\ c = c0) => Same(tries, results, tries', results', e, c)
    BY <1>1, <1>9, <2>1, <2>2
  <2>4. TriesAt(tries', e0, c0) = T \cup {n}
    BY <1>9, <2>1, <2>2 DEF T
  <2> QED BY <2>1, <2>2, <2>3, <2>4
<1>11. EvalTypes'
  <2>1. jobs' \in Seq(JobRow)
    BY <1>4, <1>7, JobSet
  <2> QED BY <1>1, <1>4, <1>10, <2>1 DEF EvalTypes
<1>12. InStage(tries', results', b)
  <2>1. n \notin T /\ \A k \in T : k \in DOMAIN tries /\ k < n
    BY <1>10 DEF TriesAt
  <2>2. IsFiniteSet(T \cup {n}) /\ Cardinality(T \cup {n}) = Cardinality(T) + 1
    BY <1>5, <2>1, FS_AddElement
  <2>3. Cardinality(T \cup {n}) = Attempts - b.left
    BY <1>5, <1>6, <1>8, <2>2
  <2>4. (T \cup {n}) \ {n} = T
    BY <2>1
  <2>5. Excused(tries', T)
    BY <1>5, <1>10, <2>1 DEF Excused
  <2>6. \A k \in T : tries'[k].status # "running"
    <3> SUFFICES ASSUME NEW k \in T, tries[k].status = "running" PROVE FALSE
      BY <1>10, <2>1
    <3>1. k \in DOMAIN tries /\ tries[k].eval = e0 /\ tries[k].case = c0
      BY DEF TriesAt
    <3>2. PICK i \in DOMAIN jobs : /\ jobs[i].stage = "running" /\ jobs[i].eval = e0
                                   /\ jobs[i].case = c0
      BY <3>1 DEF EvalsInv, TriesAreRight
    <3>3. i \in Working /\ i # j
      BY <1>1, <3>2 DEF Working
    <3>4. jobs[i].eval \in jobs[i].eval .. jobs[i].last
      BY <3>3, AtWork
    <3> QED BY <1>2, <3>2, <3>3, <3>4, OthersElsewhere
  <2>7. \A k \in T \cup {n} : k <= n
    BY <1>4, <2>1 DEF TriesAt
  <2> HIDE DEF T, n
  <2>8. /\ TriesAt(tries', b.eval, b.case) = T \cup {n}
        /\ ResultsAt(results', b.eval, b.case) = {}
    BY <1>1, <1>5, <1>8, <1>10
  <2>9. \E i \in T \cup {n} : /\ \A k \in T \cup {n} : k <= i
                              /\ Excused(tries', (T \cup {n}) \ {i})
                              /\ \A k \in (T \cup {n}) \ {i} : tries'[k].status # "running"
    BY <2>4, <2>5, <2>6, <2>7
  <2> QED BY <1>8, <2>2, <2>3, <2>8, <2>9 DEF InStage
<1>13. JobsInPlace' /\ JobsApart' /\ FinishedIsDone'
  BY <1>1, <1>2, <1>7, <1>8, <1>10, <1>12, CaseMoves
<1>14. TriesAreRight'
  <2> SUFFICES ASSUME NEW i \in DOMAIN tries'
               PROVE  /\ tries'[i].eval \in DOMAIN evals /\ tries'[i].case \in 1 .. EvalCase
                      /\ tries'[i].status = "running" =>
                           \E k \in DOMAIN jobs' : /\ jobs'[k].stage = "running"
                                                   /\ jobs'[k].eval = tries'[i].eval
                                                   /\ jobs'[k].case = tries'[i].case
    BY <1>1 DEF TriesAreRight
  <2>0. /\ DOMAIN jobs' = DOMAIN jobs /\ jobs'[j] = b
        /\ \A k \in DOMAIN jobs : k # j => jobs'[k] = jobs[k]
    BY <1>4, <1>7
  <2>1. CASE i = n
    BY <1>3, <1>6, <1>8, <1>9, <1>10, <2>0, <2>1
  <2>2. CASE i \in DOMAIN tries
    <3>1. /\ tries[i].eval \in DOMAIN evals /\ tries[i].case \in 1 .. EvalCase
          /\ tries[i].status = "running" =>
               \E k \in DOMAIN jobs : /\ jobs[k].stage = "running"
                                      /\ jobs[k].eval = tries[i].eval
                                      /\ jobs[k].case = tries[i].case
      BY <2>2 DEF EvalsInv, TriesAreRight
    <3>2. \A k \in DOMAIN jobs : jobs[k].stage = "running" => jobs'[k] = jobs[k]
      BY <1>1, <2>0
    <3> QED BY <1>10, <2>0, <2>2, <3>1, <3>2
  <2> QED BY <1>10, <2>1, <2>2
<1>15. ResultsAreRight'
  <2>1. \A e, c : TriesAt(tries, e, c) \subseteq TriesAt(tries', e, c)
    BY <1>10 DEF TriesAt
  <2> QED BY <1>1, <2>1 DEF EvalsInv, ResultsAreRight
<1> QED BY <1>11, <1>13, <1>14, <1>15 DEF EvalsInv

\* The last attempt of a case, for the one that has some.
LEMMA LastOfTries ==
  ASSUME EvalTypes, NEW e, NEW c, TriesAt(tries, e, c) # {}
  PROVE  /\ Evals!LastTry(e, c) \in TriesAt(tries, e, c)
         /\ \A k \in TriesAt(tries, e, c) : k <= Evals!LastTry(e, c)
<1>1. TriesAt(tries, e, c) \subseteq 0 .. Len(tries) /\ Len(tries) \in Nat
  BY DEF TriesAt, EvalTypes
<1>2. \E g \in TriesAt(tries, e, c) : \A k \in TriesAt(tries, e, c) : k <= g
  BY <1>1, GreatestOf
<1> QED BY <1>2 DEF Evals!LastTry, TriesAt

LEMMA TryEndsStep ==
  ASSUME Evals!Setting, EvalsInv, NEW j \in DOMAIN jobs, Evals!TryEnds(j)
  PROVE  EvalsInv'
<1> DEFINE e0 == jobs[j].eval
           c0 == jobs[j].case
           i == Evals!LastTry(e0, c0)
           T == TriesAt(tries, e0, c0)
<1>1. PICK kind \in {"completed", "failed"} \cup Excluding :
        /\ jobs[j].stage = "running"
        /\ tries' = [tries EXCEPT ![i].status = IF kind = "completed" THEN kind ELSE "failed",
                                  ![i].kind = kind]
        /\ jobs' = [jobs EXCEPT ![j].kind = kind,
             ![j].stage = IF kind \in Excluding /\ jobs[j].left > 0 THEN "try" ELSE "result"]
        /\ evals' = evals /\ results' = results /\ stops' = stops
  BY DEF Evals!TryEnds, Evals!Eval, Excluding
<1> DEFINE s == IF kind \in Excluding /\ jobs[j].left > 0 THEN "try" ELSE "result"
           b == [jobs[j] EXCEPT !.kind = kind, !.stage = s]
<1>2. j \in Working
  BY <1>1 DEF Working
<1>3. /\ jobs[j] \in JobRow /\ e0 \in DOMAIN evals /\ e0 \in Nat /\ c0 \in Nat
      /\ Unfinished(evals, jobs[j]) /\ InStage(tries, results, jobs[j])
  BY <1>2, AtWork DEF JobAt
<1>4. /\ evals \in Seq(EvalRow) /\ tries \in Seq(TryRow) /\ results \in Seq(ResultRow)
      /\ jobs \in Seq(JobRow) /\ stops \in Nat /\ EvalTypes
  BY DEF EvalsInv, EvalTypes
<1>5. /\ ResultsAt(results, e0, c0) = {}
      /\ IsFiniteSet(T) /\ Cardinality(T) = Attempts - jobs[j].left
      /\ \E g \in T : /\ \A k \in T : k <= g
                      /\ Excused(tries, T \ {g})
                      /\ \A k \in T \ {g} : tries[k].status # "running"
  BY <1>1, <1>3 DEF InStage
<1>6. i \in T /\ Excused(tries, T \ {i}) /\ \A k \in T \ {i} : tries[k].status # "running"
  <2>1. PICK g \in T : /\ \A k \in T : k <= g
                       /\ Excused(tries, T \ {g})
                       /\ \A k \in T \ {g} : tries[k].status # "running"
    BY <1>5
  <2>2. i \in T /\ g <= i
    BY <1>4, LastOfTries
  <2>3. i <= g /\ i \in Nat /\ g \in Nat
    BY <1>4, <2>1, <2>2 DEF TriesAt
  <2>4. i = g
    BY <2>2, <2>3
  <2> QED BY <2>1, <2>4
<1>7. /\ jobs[j].left \in Nat
      /\ kind \in Kinds /\ s \in {"try", "result"}
  BY <1>3 DEF JobRow, Kinds
<1>8. i \in DOMAIN tries /\ tries[i].eval = e0 /\ tries[i].case = c0 /\ tries[i] \in TryRow
  BY <1>4, <1>6 DEF TriesAt
<1> HIDE DEF i
<1>9. /\ DOMAIN tries' = DOMAIN tries /\ \A k \in DOMAIN tries : k # i => tries'[k] = tries[k]
      /\ tries'[i] = [tries[i] EXCEPT !.status = IF kind = "completed" THEN kind ELSE "failed",
                                      !.kind = kind]
  BY <1>1, <1>4, <1>8
<1>10. /\ tries'[i] \in TryRow /\ tries'[i].kind = kind /\ tries'[i].status # "running"
       /\ tries'[i].eval = e0 /\ tries'[i].case = c0
  BY <1>7, <1>8, <1>9 DEF TryRow
<1>11. tries' \in Seq(TryRow)
  <2>1. \A k \in DOMAIN tries : tries'[k] \in TryRow
    BY <1>4, <1>9, <1>10
  <2>2. Len(tries) \in Nat /\ DOMAIN tries = 1 .. Len(tries)
    BY <1>4
  <2>3. tries' = [k \in DOMAIN tries |-> tries'[k]]
    BY <1>1, <1>9
  <2>4. tries' \in [1 .. Len(tries) -> TryRow]
    BY <2>1, <2>2, <2>3
  <2> QED BY <2>2, <2>4
<1>12. \A k \in DOMAIN tries : tries'[k].eval = tries[k].eval /\ tries'[k].case = tries[k].case
  BY <1>8, <1>9, <1>10
<1>13. /\ \A e, c : TriesAt(tries', e, c) = TriesAt(tries, e, c)
       /\ \A rs, e, c : ~(e = e0 /\ c = c0) => Same(tries, rs, tries', rs, e, c)
  BY <1>8, <1>9, <1>12, TrySet
<1>14. b \in JobRow /\ jobs' = [jobs EXCEPT ![j] = b]
  BY <1>1, <1>3, <1>7 DEF JobRow
<1>15. /\ b.eval = e0 /\ b.last = jobs[j].last /\ b.case = c0 /\ b.stage = s
       /\ b.left = jobs[j].left /\ b.kind = kind
  BY <1>3 DEF JobRow
<1> HIDE DEF b
<1>16. EvalTypes'
  <2>1. jobs' \in Seq(JobRow)
    BY <1>4, <1>14, JobSet
  <2> QED BY <1>1, <1>4, <1>11, <2>1 DEF EvalTypes
<1>17. InStage(tries', results', b)
  <2>1. TriesAt(tries', b.eval, b.case) = T /\ ResultsAt(results', b.eval, b.case) = {}
    BY <1>1, <1>5, <1>13, <1>15
  <2>2. Excused(tries', T \ {i}) /\ tries'[i].kind = b.kind
    BY <1>6, <1>9, <1>10, <1>15 DEF Excused, TriesAt
  <2>3. b.stage = "try" => b.left > 0 /\ Excused(tries', T)
    BY <1>15, <1>10, <2>2 DEF Excused
  <2>4. b.stage = "result" => (b.kind \in Excluding => b.left = 0)
    BY <1>7, <1>15
  <2>5. b.stage \in {"try", "result"}
    BY <1>7, <1>15
  <2> HIDE DEF T, s
  <2> QED BY <1>5, <1>6, <1>15, <2>1, <2>2, <2>3, <2>4, <2>5 DEF InStage
<1>18. JobsInPlace' /\ JobsApart' /\ FinishedIsDone'
  <2>1. /\ jobs[j].stage # "finish" /\ b.stage \notin {"finish", "done"}
        /\ \A e, c \in Nat : ~(e = e0 /\ c = c0) => Same(tries, results, tries', results', e, c)
    BY <1>1, <1>7, <1>13, <1>15
  <2> HIDE DEF s
  <2> QED BY <1>1, <1>2, <1>14, <1>15, <1>17, <2>1, CaseMoves
<1>19. TriesAreRight'
  <2>1. \A k \in DOMAIN tries : tries'[k].status = "running"
          => /\ tries[k].status = "running"
             /\ ~(tries[k].eval = e0 /\ tries[k].case = c0)
    BY <1>6, <1>9, <1>10 DEF TriesAt
  <2> QED BY <1>1, <1>9, <1>12, <1>14, <2>1, RunningKeepsJob
<1>20. ResultsAreRight'
  <2>1. \A k \in DOMAIN results :
          TriesAt(tries', results[k].eval, results[k].case)
            = TriesAt(tries, results[k].eval, results[k].case)
    BY <1>13
  <2> QED BY <1>1, <2>1 DEF EvalsInv, ResultsAreRight
<1> QED BY <1>16, <1>18, <1>19, <1>20 DEF EvalsInv

LEMMA SaveResultStep ==
  ASSUME Evals!Setting, EvalsInv, NEW j \in DOMAIN jobs, Evals!SaveResult(j)
  PROVE  EvalsInv'
<1> DEFINE e0 == jobs[j].eval
           c0 == jobs[j].case
           i == Evals!LastTry(e0, c0)
           T == TriesAt(tries, e0, c0)
           n == Len(results) + 1
           b == [jobs[j] EXCEPT !.stage = "score"]
<1>1. PICK passed \in BOOLEAN :
        /\ jobs[j].stage = "result"
        /\ results' = Append(results, [eval |-> e0, case |-> c0, run |-> i, success |-> passed,
                                       scores |-> {}])
        /\ jobs' = [jobs EXCEPT ![j].stage = "score"]
        /\ evals' = evals /\ tries' = tries /\ stops' = stops
  BY DEF Evals!SaveResult, Evals!Eval
<1> DEFINE x == [eval |-> e0, case |-> c0, run |-> i, success |-> passed, scores |-> {}]
<1>2. j \in Working
  BY <1>1 DEF Working
<1>3. /\ jobs[j] \in JobRow /\ e0 \in DOMAIN evals /\ e0 \in Nat /\ c0 \in Nat
      /\ Unfinished(evals, jobs[j]) /\ InStage(tries, results, jobs[j])
  BY <1>2, AtWork DEF JobAt
<1>4. /\ evals \in Seq(EvalRow) /\ tries \in Seq(TryRow) /\ results \in Seq(ResultRow)
      /\ jobs \in Seq(JobRow) /\ stops \in Nat /\ EvalTypes
  BY DEF EvalsInv, EvalTypes
<1>5. /\ ResultsAt(results, e0, c0) = {}
      /\ IsFiniteSet(T) /\ Cardinality(T) = Attempts - jobs[j].left
      /\ \E g \in T : tries[g].kind = jobs[j].kind /\ Excused(tries, T \ {g})
      /\ jobs[j].kind \in Excluding => jobs[j].left = 0
  BY <1>1, <1>3 DEF InStage
<1>6. i \in T /\ i \in Nat
  <2>1. i \in T
    BY <1>4, <1>5, LastOfTries
  <2> QED BY <1>4, <2>1 DEF TriesAt
<1>7. c0 \in 1 .. EvalCase
  <2>1. c0 \in 1 .. EvalCase + 1 /\ (jobs[j].stage = "finish" <=> c0 = EvalCase + 1)
    BY <1>3 DEF Unfinished
  <2> QED BY <1>1, <1>3, <2>1 DEF Evals!Setting
<1> HIDE DEF i
<1>8. b \in JobRow /\ jobs' = [jobs EXCEPT ![j] = b]
  BY <1>1, <1>3, <1>4 DEF JobRow
<1>9. /\ b.eval = e0 /\ b.last = jobs[j].last /\ b.case = c0 /\ b.stage = "score"
      /\ b.left = jobs[j].left /\ b.kind = jobs[j].kind
  BY <1>3 DEF JobRow
<1>10. x \in ResultRow /\ x.eval = e0 /\ x.case = c0 /\ x.run = i /\ x.scores = {}
  BY <1>3, <1>6 DEF ResultRow
<1> HIDE DEF b, x
<1>11. /\ results' \in Seq(ResultRow) /\ DOMAIN results' = DOMAIN results \cup {n}
       /\ results'[n] = x /\ \A k \in DOMAIN results : results'[k] = results[k]
       /\ ResultsAt(results', e0, c0) = {n}
       /\ \A e, c \in Nat : ~(e = e0 /\ c = c0) => Same(tries, results, tries', results', e, c)
  <2> DEFINE ru == Append(results, x)
  <2>1. /\ ru \in Seq(ResultRow) /\ DOMAIN ru = DOMAIN results \cup {n} /\ ru[n] = x
        /\ \A k \in DOMAIN results : ru[k] = results[k]
        /\ ResultsAt(ru, x.eval, x.case) = ResultsAt(results, x.eval, x.case) \cup {n}
        /\ \A tr, e, c : ~(e = x.eval /\ c = x.case) => Same(tr, results, tr, ru, e, c)
    BY <1>4, <1>10, ResultAdded
  <2>2. results' = ru
    BY <1>1 DEF x
  <2> HIDE DEF ru, n, T, e0, c0
  <2>3. \A e, c \in Nat : ~(e = e0 /\ c = c0) => Same(tries, results, tries', results', e, c)
    <3>1. \A e, c \in Nat : ~(e = e0 /\ c = c0) => Same(tries, results, tries, ru, e, c)
      BY <1>10, <2>1
    <3>2. tries' = tries /\ results' = ru
      BY <1>1, <2>2
    <3> QED BY <3>1, <3>2
  <2>4. ResultsAt(results', e0, c0) = {n}
    BY <1>5, <1>10, <2>1, <2>2 DEF e0, c0
  <2> QED BY <2>1, <2>2, <2>3, <2>4
<1>12. EvalTypes'
  <2>1. jobs' \in Seq(JobRow)
    BY <1>4, <1>8, JobSet
  <2> QED BY <1>1, <1>4, <1>11, <2>1 DEF EvalTypes
<1>13. InStage(tries', results', b)
  <2>1. TriesAt(tries', b.eval, b.case) = T /\ ResultsAt(results', b.eval, b.case) = {n}
    BY <1>1, <1>9, <1>11
  <2>2. results'[n].scores = {}
    BY <1>10, <1>11
  <2> HIDE DEF T, n
  <2> QED BY <1>1, <1>5, <1>9, <2>1, <2>2 DEF InStage
<1>14. JobsInPlace' /\ JobsApart' /\ FinishedIsDone'
  BY <1>1, <1>2, <1>8, <1>9, <1>11, <1>13, CaseMoves
<1>15. TriesAreRight'
  BY <1>1, <1>8, RunningKeepsJob
<1>16. ResultsAreRight'
  <2> SUFFICES ASSUME NEW k \in DOMAIN results'
               PROVE  /\ results'[k].eval \in DOMAIN evals /\ results'[k].case \in 1 .. EvalCase
                      /\ results'[k].run \in TriesAt(tries, results'[k].eval, results'[k].case)
                      /\ \A m, o \in results'[k].scores \cap Excluding : m = o
    BY <1>1 DEF ResultsAreRight
  <2>1. CASE k = n
    BY <1>3, <1>6, <1>7, <1>10, <1>11, <2>1
  <2>2. CASE k \in DOMAIN results
    BY <1>11, <2>2 DEF EvalsInv, ResultsAreRight
  <2> QED BY <1>11, <2>1, <2>2
<1> QED BY <1>12, <1>14, <1>15, <1>16 DEF EvalsInv

\* New scores of a result.
ScoredAt(rs, r, scores) == [rs EXCEPT ![r] = [rs[r] EXCEPT !.scores = scores]]

LEMMA ScoresSet ==
  ASSUME NEW rs \in Seq(ResultRow), NEW r \in DOMAIN rs, NEW scores \in SUBSET Metrics,
         NEW ru, ru = ScoredAt(rs, r, scores)
  PROVE  /\ ru \in Seq(ResultRow) /\ DOMAIN ru = DOMAIN rs /\ ru[r].scores = scores
         /\ \A k \in DOMAIN rs : /\ ru[k].eval = rs[k].eval /\ ru[k].case = rs[k].case
                                 /\ ru[k].run = rs[k].run /\ (k # r => ru[k] = rs[k])
         /\ \A e, c : ResultsAt(ru, e, c) = ResultsAt(rs, e, c)
         /\ \A tr, e, c : ~(e = rs[r].eval /\ c = rs[r].case) => Same(tr, rs, tr, ru, e, c)
<1>1. rs[r] \in ResultRow
  OBVIOUS
<1>2. DOMAIN ru = DOMAIN rs /\ \A k \in DOMAIN rs : k # r => ru[k] = rs[k]
  BY DEF ScoredAt
<1>3. ru[r] = [rs[r] EXCEPT !.scores = scores]
  BY DEF ScoredAt
<1>4. /\ ru[r] \in ResultRow /\ ru[r].scores = scores /\ ru[r].eval = rs[r].eval
      /\ ru[r].case = rs[r].case /\ ru[r].run = rs[r].run
  BY <1>1, <1>3 DEF ResultRow
<1>5. ru \in Seq(ResultRow)
  <2>1. ru \in [1 .. Len(rs) -> ResultRow] /\ Len(rs) \in Nat
    BY <1>2, <1>4 DEF ScoredAt
  <2> QED BY <2>1
<1>6. \A k \in DOMAIN rs : /\ ru[k].eval = rs[k].eval /\ ru[k].case = rs[k].case
                          /\ ru[k].run = rs[k].run
  BY <1>2, <1>4
<1>7. /\ \A e, c : ResultsAt(ru, e, c) = ResultsAt(rs, e, c)
      /\ \A tr, e, c : ~(e = rs[r].eval /\ c = rs[r].case) => Same(tr, rs, tr, ru, e, c)
  BY <1>2, <1>6, ResultSet
<1> QED BY <1>2, <1>4, <1>5, <1>6, <1>7

\* The one result of the case a job gives scores to.
LEMMA OneResult ==
  ASSUME Evals!Setting, EvalsInv, NEW j \in DOMAIN jobs, jobs[j].stage \in {"score", "judge"}
  PROVE  /\ j \in Working
         /\ ResultsAt(results, jobs[j].eval, jobs[j].case) = {Evals!LastResult(j)}
         /\ jobs[j].stage = "score" => results[Evals!LastResult(j)].scores = {}
         /\ jobs[j].stage = "judge" => results[Evals!LastResult(j)].scores = {"correctness"}
<1>1. j \in Working
  BY DEF Working
<1>2. InStage(tries, results, jobs[j])
  BY <1>1, AtWork DEF JobAt
<1>3. PICK r : /\ ResultsAt(results, jobs[j].eval, jobs[j].case) = {r}
               /\ jobs[j].stage = "score" => results[r].scores = {}
               /\ jobs[j].stage = "judge" => results[r].scores = {"correctness"}
  BY <1>2 DEF InStage
<1>4. Evals!LastResult(j) = r
  BY <1>3 DEF Evals!LastResult, ResultsAt, Evals!Eval
<1> QED BY <1>1, <1>3, <1>4

\* The result of the case gets scores, and the job is where b says.
LEMMA ScoresStep ==
  ASSUME Evals!Setting, EvalsInv, NEW j \in Working, NEW b \in JobRow,
         NEW scores \in SUBSET Metrics, NEW r,
         ResultsAt(results, jobs[j].eval, jobs[j].case) = {r},
         \A m, n \in scores \cap Excluding : m = n,
         results' = ScoredAt(results, r, scores),
         evals' = evals, tries' = tries, stops' = stops,
         jobs[j].stage \in {"score", "judge"}, jobs' = [jobs EXCEPT ![j] = b],
         b.eval = jobs[j].eval, b.last = jobs[j].last,
         \/ /\ b.case = jobs[j].case /\ b.stage \notin {"finish", "done"}
            /\ InStage(tries', results', b)
         \/ /\ b.case = jobs[j].case + 1 /\ b.left = Attempts
            /\ b.stage = IF jobs[j].case < EvalCase THEN "try" ELSE "finish"
            /\ DoneAt(tries', results', jobs[j].eval, jobs[j].case)
  PROVE  EvalsInv'
<1>1. /\ r \in DOMAIN results /\ results[r].eval = jobs[j].eval
      /\ results[r].case = jobs[j].case
  BY DEF ResultsAt
<1>2. /\ evals \in Seq(EvalRow) /\ tries \in Seq(TryRow) /\ results \in Seq(ResultRow)
      /\ jobs \in Seq(JobRow) /\ stops \in Nat /\ EvalTypes /\ j \in DOMAIN jobs
  BY DEF EvalsInv, EvalTypes, Working
<1>3. /\ results' \in Seq(ResultRow) /\ DOMAIN results' = DOMAIN results
      /\ results'[r].scores = scores
      /\ \A k \in DOMAIN results :
           /\ results'[k].eval = results[k].eval /\ results'[k].case = results[k].case
           /\ results'[k].run = results[k].run /\ (k # r => results'[k] = results[k])
      /\ \A tr, e, c : ~(e = results[r].eval /\ c = results[r].case)
                          => Same(tr, results, tr, results', e, c)
  BY <1>1, <1>2, ScoresSet
<1>4. EvalTypes'
  <2>1. jobs' \in Seq(JobRow)
    BY <1>2, JobSet
  <2> QED BY <1>2, <1>3, <2>1 DEF EvalTypes
<1>5. JobsInPlace' /\ JobsApart' /\ FinishedIsDone'
  <2>1. \A e, c \in Nat : ~(e = jobs[j].eval /\ c = jobs[j].case)
                           => Same(tries, results, tries', results', e, c)
    BY <1>1, <1>3
  <2>2. jobs[j].stage # "finish"
    OBVIOUS
  <2> QED BY <2>1, <2>2, CaseMoves
<1>6. TriesAreRight'
  BY <1>2, RunningKeepsJob
<1>7. ResultsAreRight'
  <2> SUFFICES ASSUME NEW k \in DOMAIN results
               PROVE  /\ results'[k].eval \in DOMAIN evals /\ results'[k].case \in 1 .. EvalCase
                      /\ results'[k].run \in TriesAt(tries, results'[k].eval, results'[k].case)
                      /\ \A m, n \in results'[k].scores \cap Excluding : m = n
    BY <1>3 DEF ResultsAreRight
  <2>1. /\ results[k].eval \in DOMAIN evals /\ results[k].case \in 1 .. EvalCase
        /\ results[k].run \in TriesAt(tries, results[k].eval, results[k].case)
        /\ \A m, n \in results[k].scores \cap Excluding : m = n
    BY DEF EvalsInv, ResultsAreRight
  <2>2. \A m, n \in results'[k].scores \cap Excluding : m = n
    BY <1>3, <2>1
  <2> QED BY <1>3, <2>1, <2>2
<1> QED BY <1>4, <1>5, <1>6, <1>7 DEF EvalsInv

\* The first score of a result: the mark of the provider's failure, or correctness.
LEMMA ScoreStep ==
  ASSUME Evals!Setting, EvalsInv, NEW j \in DOMAIN jobs, Evals!Exclude(j) \/ Evals!Score(j)
  PROVE  EvalsInv'
<1> DEFINE e0 == jobs[j].eval
           c0 == jobs[j].case
           T == TriesAt(tries, e0, c0)
           marked == jobs[j].kind \in Excluding
           more == IF marked THEN {jobs[j].kind} ELSE {"correctness"}
           judged == ~marked /\ EvalJudged /\ jobs[j].kind = "completed"
           next == [jobs[j] EXCEPT !.case = c0 + 1, !.left = Attempts, !.kind = "none",
                                   !.stage = IF c0 < EvalCase THEN "try" ELSE "finish"]
           b == IF judged THEN [jobs[j] EXCEPT !.stage = "judge"] ELSE next
<1>1. /\ jobs[j].stage = "score"
      /\ results' = [results EXCEPT ![Evals!LastResult(j)].scores = @ \cup more]
      /\ evals' = evals /\ tries' = tries /\ stops' = stops
  BY DEF Evals!Exclude, Evals!Score, Excluding, Evals!Scored
<1>2. j \in Working
  BY <1>1 DEF Working
<1>3. /\ jobs[j] \in JobRow /\ e0 \in Nat /\ c0 \in Nat /\ InStage(tries, results, jobs[j])
      /\ jobs \in Seq(JobRow)
  BY <1>2, AtWork DEF JobAt, EvalsInv, EvalTypes
<1>4. jobs' = [jobs EXCEPT ![j] = b]
  <2>1. jobs' = [jobs EXCEPT ![j].stage = "judge"]
          \/ jobs' = [jobs EXCEPT ![j].case = @ + 1, ![j].left = Attempts, ![j].kind = "none",
                        ![j].stage = IF c0 < EvalCase THEN "try" ELSE "finish"]
    BY DEF Evals!Exclude, Evals!Score, Evals!NextCase
  <2>2. CASE judged
    <3>1. jobs' = [jobs EXCEPT ![j].stage = "judge"]
      BY <2>2 DEF Evals!Exclude, Evals!Score, Excluding
    <3> QED BY <1>3, <2>2, <3>1
  <2>3. CASE ~judged
    <3>1. Evals!NextCase(j)
      BY <2>3 DEF Evals!Exclude, Evals!Score, Excluding
    <3>2. jobs' = [jobs EXCEPT ![j] = next]
      BY <1>3, <3>1 DEF Evals!NextCase
    <3> QED BY <2>3, <3>2
  <2> QED BY <2>2, <2>3
<1>5. b \in JobRow
  <2>1. /\ c0 + 1 \in Nat /\ Attempts \in Nat /\ "none" \in Kinds
        /\ (IF c0 < EvalCase THEN "try" ELSE "finish") \in {"try", "finish"}
    BY <1>3 DEF Kinds, Evals!Setting
  <2>2. next \in JobRow /\ [jobs[j] EXCEPT !.stage = "judge"] \in JobRow
    BY <1>3, <2>1 DEF JobRow
  <2> QED BY <2>2
<1>6. /\ b.eval = e0 /\ b.last = jobs[j].last
      /\ judged => /\ b.case = c0 /\ b.stage = "judge" /\ b.left = jobs[j].left
                   /\ b.kind = jobs[j].kind
      /\ ~judged => /\ b.case = c0 + 1 /\ b.left = Attempts
                    /\ b.stage = IF c0 < EvalCase THEN "try" ELSE "finish"
  BY <1>3 DEF JobRow
<1>7. /\ more \subseteq Metrics
      /\ more = {jobs[j].kind} \/ more \cap Excluding = {}
      /\ (more \cap Excluding # {}) <=> marked
  BY DEF Metrics, Excluding, Evals!Excluding
<1>8. /\ IsFiniteSet(T) /\ Cardinality(T) = Attempts - jobs[j].left
      /\ \E g \in T : tries[g].kind = jobs[j].kind /\ Excused(tries, T \ {g})
      /\ marked => jobs[j].left = 0
  BY <1>1, <1>3 DEF InStage
<1>9. (/\ Cardinality(T) = Attempts /\ Excused(tries, T)) <=> marked
  <2>1. PICK g \in T : tries[g].kind = jobs[j].kind /\ Excused(tries, T \ {g})
    BY <1>8
  <2>2. Excused(tries, T) <=> marked
    BY <2>1 DEF Excused
  <2>3. marked => Cardinality(T) = Attempts
    BY <1>8 DEF Evals!Setting
  <2> QED BY <2>2, <2>3
<1> HIDE DEF b
<1> DEFINE r == Evals!LastResult(j)
<1>10. /\ ResultsAt(results, e0, c0) = {r} /\ results[r].scores = {} /\ r \in DOMAIN results
       /\ results \in Seq(ResultRow)
  <2>1. ResultsAt(results, e0, c0) = {r} /\ results[r].scores = {}
    BY <1>1, OneResult
  <2>2. r \in DOMAIN results /\ results \in Seq(ResultRow)
    BY <2>1 DEF ResultsAt, EvalsInv, EvalTypes
  <2> QED BY <2>1, <2>2
<1>11. results' = ScoredAt(results, r, more)
  <2>1. results' = [results EXCEPT ![r].scores = @ \cup more]
    BY <1>1
  <2>2. results[r].scores \cup more = more
    BY <1>10
  <2> HIDE DEF r, more
  <2> QED BY <1>10, <2>1, <2>2 DEF ScoredAt
<1> HIDE DEF r
<1>12. ResultsAt(results', e0, c0) = {r} /\ results'[r].scores = more
  <2> HIDE DEF more
  <2> QED BY <1>7, <1>10, <1>11, ScoresSet
<1>13. \/ /\ b.case = c0 /\ b.stage \notin {"finish", "done"}
          /\ InStage(tries', results', b)
       \/ /\ b.case = c0 + 1 /\ b.left = Attempts
          /\ b.stage = IF c0 < EvalCase THEN "try" ELSE "finish"
          /\ DoneAt(tries', results', e0, c0)
  <2>1. CASE judged
    <3>1. InStage(tries', results', b)
      <4>1. TriesAt(tries', b.eval, b.case) = T /\ ResultsAt(results', b.eval, b.case) = {r}
        BY <1>1, <1>6, <1>12, <2>1
      <4>2. results'[r].scores = {"correctness"} /\ b.kind \notin Excluding
        BY <1>6, <1>12, <2>1
      <4> HIDE DEF T
      <4> QED BY <1>1, <1>6, <1>8, <2>1, <4>1, <4>2 DEF InStage
    <3> QED BY <1>6, <2>1, <3>1
  <2>2. CASE ~judged
    <3>1. DoneAt(tries', results', e0, c0)
      <4>1. TriesAt(tries', e0, c0) = T
        BY <1>1
      <4>2. (results'[r].scores \cap Excluding # {})
               <=> (Cardinality(T) = Attempts /\ Excused(tries', T))
        BY <1>1, <1>7, <1>9, <1>12
      <4> HIDE DEF T
      <4> QED BY <1>12, <4>1, <4>2 DEF DoneAt
    <3> QED BY <1>6, <2>2, <3>1
  <2> QED BY <2>1, <2>2
<1>14. \A m, n \in more \cap Excluding : m = n
  BY <1>7
<1> HIDE DEF more, T
<1> QED BY <1>1, <1>2, <1>4, <1>5, <1>6, <1>7, <1>10, <1>11, <1>13, <1>14, ScoresStep

\* The judge's opinion changes nothing about which results count.
LEMMA JudgeStep ==
  ASSUME Evals!Setting, EvalsInv, NEW j \in DOMAIN jobs, Evals!Judge(j)
  PROVE  EvalsInv'
<1> DEFINE e0 == jobs[j].eval
           c0 == jobs[j].case
           T == TriesAt(tries, e0, c0)
           b == [jobs[j] EXCEPT !.case = c0 + 1, !.left = Attempts, !.kind = "none",
                                !.stage = IF c0 < EvalCase THEN "try" ELSE "finish"]
<1>1. /\ jobs[j].stage = "judge" /\ Evals!NextCase(j)
      /\ evals' = evals /\ tries' = tries /\ stops' = stops
  BY DEF Evals!Judge
<1>2. PICK metric \in {"judge.overall", "judge.error"} :
        results' = [results EXCEPT ![Evals!LastResult(j)].scores = @ \cup {metric}]
  BY DEF Evals!Judge, Evals!Scored
<1>3. j \in Working
  BY <1>1 DEF Working
<1>4. /\ jobs[j] \in JobRow /\ e0 \in Nat /\ c0 \in Nat /\ InStage(tries, results, jobs[j])
      /\ jobs \in Seq(JobRow)
  BY <1>3, AtWork DEF JobAt, EvalsInv, EvalTypes
<1>5. jobs' = [jobs EXCEPT ![j] = b]
  BY <1>1, <1>4 DEF Evals!NextCase
<1>6. b \in JobRow
  <2>1. /\ c0 + 1 \in Nat /\ Attempts \in Nat /\ "none" \in Kinds
        /\ (IF c0 < EvalCase THEN "try" ELSE "finish") \in {"try", "finish"}
    BY <1>4 DEF Kinds, Evals!Setting
  <2> QED BY <1>4, <2>1 DEF JobRow
<1>7. /\ b.eval = e0 /\ b.last = jobs[j].last /\ b.case = c0 + 1 /\ b.left = Attempts
      /\ b.stage = IF c0 < EvalCase THEN "try" ELSE "finish"
  BY <1>4 DEF JobRow
<1> DEFINE r == Evals!LastResult(j)
           scores == {"correctness"} \cup {metric}
<1>8. scores \in SUBSET Metrics /\ scores \cap Excluding = {}
  BY <1>2 DEF Metrics, Excluding, Evals!Excluding
<1>9. ~Excused(tries, T)
  <2>1. /\ \E g \in T : tries[g].kind = jobs[j].kind /\ Excused(tries, T \ {g})
        /\ jobs[j].kind \notin Excluding
    BY <1>1, <1>4 DEF InStage
  <2> QED BY <2>1 DEF Excused
<1> HIDE DEF b
<1>10. /\ ResultsAt(results, e0, c0) = {r} /\ results[r].scores = {"correctness"}
       /\ r \in DOMAIN results /\ results \in Seq(ResultRow)
  <2>1. ResultsAt(results, e0, c0) = {r} /\ results[r].scores = {"correctness"}
    BY <1>1, OneResult
  <2>2. r \in DOMAIN results /\ results \in Seq(ResultRow)
    BY <2>1 DEF ResultsAt, EvalsInv, EvalTypes
  <2> QED BY <2>1, <2>2
<1>11. results' = ScoredAt(results, r, scores)
  <2>1. results' = [results EXCEPT ![r].scores = @ \cup {metric}]
    BY <1>2
  <2>2. results[r].scores \cup {metric} = scores
    BY <1>10
  <2> HIDE DEF r, scores
  <2> QED BY <1>10, <2>1, <2>2 DEF ScoredAt
<1> HIDE DEF r, scores
<1>12. ResultsAt(results', e0, c0) = {r} /\ results'[r].scores = scores
  BY <1>8, <1>10, <1>11, ScoresSet
<1>13. DoneAt(tries', results', e0, c0)
  <2>1. TriesAt(tries', e0, c0) = T /\ ~Excused(tries', T)
    BY <1>1, <1>9
  <2> HIDE DEF T
  <2> QED BY <1>8, <1>12, <2>1 DEF DoneAt
<1>14. \A m, n \in scores \cap Excluding : m = n
  BY <1>8
<1> HIDE DEF T
<1> QED BY <1>1, <1>3, <1>5, <1>6, <1>7, <1>8, <1>10, <1>11, <1>13, <1>14, ScoresStep

\* An evaluation is closed, with every case done or by something that failed; its job goes
\* on with the next evaluation, which nothing has happened to.
LEMMA CloseStep ==
  ASSUME Evals!Setting, EvalsInv, NEW j \in DOMAIN jobs, Evals!Finish(j) \/ Evals!Abort(j)
  PROVE  EvalsInv'
<1> DEFINE e0 == jobs[j].eval
           l0 == jobs[j].last
           b == IF e0 = l0 THEN [jobs[j] EXCEPT !.stage = "done"] ELSE Evals!Job(e0 + 1, l0)
<1>1. /\ jobs[j].stage \notin {"running", "done"} /\ tries' = tries /\ results' = results
      /\ evals' = [evals EXCEPT ![e0].finished = TRUE]
  BY DEF Evals!Finish, Evals!Abort, Evals!Close, Evals!Eval
<1>2. j \in Working
  BY <1>1 DEF Working
<1>3. /\ jobs[j] \in JobRow /\ e0 \in DOMAIN evals /\ e0 \in Nat \ {0} /\ l0 \in Nat /\ e0 <= l0
      /\ Unfinished(evals, jobs[j]) /\ JobAt(tries, results, jobs[j]) /\ l0 \in DOMAIN evals
  BY <1>2, AtWork
<1>4. /\ evals \in Seq(EvalRow) /\ tries \in Seq(TryRow) /\ results \in Seq(ResultRow)
      /\ jobs \in Seq(JobRow) /\ stops \in Nat /\ EvalTypes
  BY DEF EvalsInv, EvalTypes
<1>5. (stops' = stops /\ jobs[j].stage = "finish") \/ stops' = stops + 1
  BY DEF Evals!Finish, Evals!Abort
<1>6. jobs' = [jobs EXCEPT ![j] = b]
  <2>1. jobs' = IF e0 = l0 THEN [jobs EXCEPT ![j].stage = "done"]
                ELSE [jobs EXCEPT ![j] = Evals!Job(e0 + 1, @.last)]
    BY DEF Evals!Finish, Evals!Abort, Evals!Close, Evals!Eval
  <2> QED BY <1>4, <2>1
<1>7. b \in JobRow
  BY <1>3 DEF JobRow, Evals!Job, Kinds, Evals!Setting
<1>8. /\ e0 = l0 => b.stage = "done"
      /\ e0 # l0 => /\ b.eval = e0 + 1 /\ b.last = l0 /\ b.case = 1 /\ b.left = Attempts
                    /\ b.stage = "try"
  BY <1>3 DEF JobRow, Evals!Job
<1> HIDE DEF b
<1>9. /\ DOMAIN jobs' = DOMAIN jobs /\ jobs'[j] = b
      /\ \A k \in DOMAIN jobs : k # j => jobs'[k] = jobs[k]
  BY <1>4, <1>6
<1>10. /\ DOMAIN evals' = DOMAIN evals /\ evals' \in Seq(EvalRow)
       /\ \A e \in DOMAIN evals : e # e0 => evals'[e] = evals[e]
       /\ evals'[e0].finished = TRUE
  <2>1. evals[e0] \in EvalRow /\ [evals[e0] EXCEPT !.finished = TRUE] \in EvalRow
        /\ [evals[e0] EXCEPT !.finished = TRUE].finished = TRUE
    <3>1. evals[e0] \in EvalRow
      BY <1>3, <1>4
    <3> QED BY <3>1 DEF EvalRow
  <2>2. evals' = [evals EXCEPT ![e0] = [evals[e0] EXCEPT !.finished = TRUE]]
    BY <1>1, <1>3, <1>4
  <2>3. evals' \in [1 .. Len(evals) -> EvalRow] /\ Len(evals) \in Nat
    BY <1>3, <1>4, <2>1, <2>2
  <2>4. evals' \in Seq(EvalRow)
    BY <2>3
  <2>5. evals'[e0] = [evals[e0] EXCEPT !.finished = TRUE]
    BY <1>3, <2>2
  <2>6. DOMAIN evals' = DOMAIN evals /\ \A e \in DOMAIN evals : e # e0 => evals'[e] = evals[e]
    BY <1>3, <2>2
  <2> QED BY <2>1, <2>4, <2>5, <2>6
<1>11. EvalTypes'
  <2>1. jobs' \in Seq(JobRow) /\ stops' \in Nat
    BY <1>4, <1>5, <1>6, <1>7, JobSet
  <2> QED BY <1>1, <1>4, <1>10, <2>1 DEF EvalTypes
<1>12. \A k \in DOMAIN jobs : k \in Working' => k \in Working
  BY <1>2, <1>9 DEF Working
<1>13. Working' \subseteq Working /\ (j \in Working' => e0 # l0)
  BY <1>8, <1>9, <1>12 DEF Working
<1>14. JobsApart'
  <2> SUFFICES ASSUME NEW k \in Working', NEW m \in Working', k # m
               PROVE  jobs'[k].last < jobs'[m].eval \/ jobs'[m].last < jobs'[k].eval
    BY DEF JobsApart
  <2>1. /\ k \in Working /\ m \in Working /\ k \in DOMAIN jobs /\ m \in DOMAIN jobs
        /\ jobs[k].last < jobs[m].eval \/ jobs[m].last < jobs[k].eval
        /\ jobs[k].last \in Nat /\ jobs[k].eval \in Nat /\ jobs[m].last \in Nat
        /\ jobs[m].eval \in Nat
    BY <1>13, AtWork DEF EvalsInv, JobsApart
  <2>2. CASE k = j
    <3>1. jobs'[k].eval = e0 + 1 /\ jobs'[k].last = l0 /\ jobs'[m] = jobs[m]
      BY <1>8, <1>9, <1>13, <2>1, <2>2
    <3> QED BY <1>3, <2>1, <2>2, <3>1
  <2>3. CASE m = j
    <3>1. jobs'[m].eval = e0 + 1 /\ jobs'[m].last = l0 /\ jobs'[k] = jobs[k]
      BY <1>8, <1>9, <1>13, <2>1, <2>3
    <3> QED BY <1>3, <2>1, <2>3, <3>1
  <2>4. CASE k # j /\ m # j
    BY <1>9, <2>1, <2>4
  <2> QED BY <2>2, <2>3, <2>4
<1>15. JobsInPlace'
  <2> SUFFICES ASSUME NEW k \in Working'
               PROVE  Unfinished(evals', jobs'[k]) /\ JobAt(tries, results, jobs'[k])
    BY <1>1 DEF JobsInPlace
  <2>1. CASE k = j
    <3>1. /\ jobs'[k] = b /\ e0 + 1 \in Nat /\ e0 + 1 <= l0
          /\ b.eval = e0 + 1 /\ b.last = l0 /\ b.case = 1 /\ b.left = Attempts /\ b.stage = "try"
      BY <1>3, <1>8, <1>9, <1>13, <2>1
    <3>2. Unfinished(evals', b)
      <4>1. \A e \in e0 .. l0 : ~evals[e].finished
        BY <1>3 DEF Unfinished
      <4>2. \A e \in e0 + 1 .. l0 : e \in DOMAIN evals /\ e # e0 /\ e \in e0 .. l0
        BY <1>3, <1>4
      <4>3. \A e \in e0 + 1 .. l0 : ~evals'[e].finished
        BY <1>10, <4>1, <4>2
      <4>4. EvalCase \in Nat \ {0}
        BY DEF Evals!Setting
      <4>5. e0 + 1 \in 1 .. l0 /\ 1 \in 1 .. EvalCase + 1 /\ 1 # EvalCase + 1
        BY <1>3, <3>1, <4>4
      <4> QED BY <1>3, <1>10, <3>1, <4>3, <4>5 DEF Unfinished
    <3>3. \A e \in e0 + 1 .. l0, c \in Nat : NoneAt(tries, results, e, c)
      BY <1>3 DEF JobAt
    <3>4. e0 + 1 \in e0 + 1 .. l0 /\ \A e \in e0 + 2 .. l0 : e \in e0 + 1 .. l0
      BY <1>3, <3>1
    <3>5. \A c \in Nat : NoneAt(tries, results, b.eval, c)
      BY <3>1, <3>3, <3>4
    <3>6. \A e \in b.eval + 1 .. b.last, c \in Nat : NoneAt(tries, results, e, c)
      BY <1>3, <3>1, <3>3, <3>4
    <3>7. InStage(tries, results, b)
      <4>1. /\ TriesAt(tries, b.eval, b.case) = {} /\ ResultsAt(results, b.eval, b.case) = {}
        BY <3>1, <3>5 DEF NoneAt
      <4>2. IsFiniteSet({}) /\ Cardinality({}) = 0 /\ 0 = Attempts - b.left /\ b.left > 0
        BY <3>1, FS_EmptySet DEF Evals!Setting
      <4> QED BY <3>1, <4>1, <4>2 DEF InStage, Excused
    <3>8. \A c \in 1 .. b.case - 1 : DoneAt(tries, results, b.eval, c)
      BY <3>1
    <3>9. JobAt(tries, results, b)
      BY <3>5, <3>6, <3>7, <3>8 DEF JobAt
    <3> QED BY <1>9, <2>1, <3>1, <3>2, <3>9 DEF Unfinished
  <2>2. CASE k # j
    <3>1. k \in Working /\ k \in DOMAIN jobs /\ jobs'[k] = jobs[k]
      BY <1>9, <1>13, <2>2, AtWork
    <3>2. /\ Unfinished(evals, jobs[k]) /\ JobAt(tries, results, jobs[k])
          /\ jobs[k].eval \in Nat \ {0} /\ jobs[k].last \in DOMAIN evals
      BY <3>1, AtWork
    <3>3. e0 \notin jobs[k].eval .. jobs[k].last
      BY <1>2, <2>2, <3>1, OthersElsewhere
    <3>4. \A e \in jobs[k].eval .. jobs[k].last : e \in DOMAIN evals
      BY <1>4, <3>2
    <3>5. \A e \in jobs[k].eval .. jobs[k].last : evals'[e] = evals[e]
      BY <1>10, <3>3, <3>4
    <3> QED BY <1>10, <3>1, <3>2, <3>5 DEF Unfinished
  <2> QED BY <2>1, <2>2
<1>16. TriesAreRight'
  <2> SUFFICES ASSUME NEW i \in DOMAIN tries
               PROVE  /\ tries[i].eval \in DOMAIN evals' /\ tries[i].case \in 1 .. EvalCase
                      /\ tries[i].status = "running" =>
                           \E k \in DOMAIN jobs' : /\ jobs'[k].stage = "running"
                                                   /\ jobs'[k].eval = tries[i].eval
                                                   /\ jobs'[k].case = tries[i].case
    BY <1>1 DEF TriesAreRight
  <2>1. /\ tries[i].eval \in DOMAIN evals /\ tries[i].case \in 1 .. EvalCase
        /\ tries[i].status = "running" =>
             \E k \in DOMAIN jobs : /\ jobs[k].stage = "running"
                                    /\ jobs[k].eval = tries[i].eval
                                    /\ jobs[k].case = tries[i].case
    BY DEF EvalsInv, TriesAreRight
  <2>2. \A k \in DOMAIN jobs : jobs[k].stage = "running" => jobs'[k] = jobs[k]
    BY <1>1, <1>9
  <2> QED BY <1>9, <1>10, <2>1, <2>2
<1>17. ResultsAreRight'
  BY <1>1, <1>10 DEF EvalsInv, ResultsAreRight
<1>18. FinishedIsDone'
  <2> SUFFICES ASSUME NEW e \in DOMAIN evals, evals'[e].finished, stops' = 0,
                      NEW c \in 1 .. EvalCase
               PROVE  DoneAt(tries, results, e, c)
    BY <1>1, <1>10 DEF FinishedIsDone
  <2>1. stops = 0 /\ jobs[j].stage = "finish"
    BY <1>4, <1>5
  <2>2. CASE e = e0
    <3>1. jobs[j].case = EvalCase + 1 /\ EvalCase \in Nat
      BY <1>3, <2>1 DEF Unfinished, Evals!Setting
    <3>2. c \in 1 .. jobs[j].case - 1
      BY <3>1
    <3> QED BY <1>3, <2>2, <3>2 DEF JobAt
  <2>3. CASE e # e0
    BY <1>10, <2>1, <2>3 DEF EvalsInv, FinishedIsDone
  <2> QED BY <2>2, <2>3
<1> QED BY <1>11, <1>14, <1>15, <1>16, <1>17, <1>18 DEF EvalsInv

\* New evaluations, and a job for them when there is one.
LEMMA StartStep ==
  ASSUME Evals!Setting, EvalsInv, NEW s \in Suite, NEW asked \in Seq(Track), asked # <<>>,
         Evals!Start(s, asked)
  PROVE  EvalsInv'
<1> DEFINE m == Len(evals)
<1>1. PICK made \in 0 .. Len(asked) :
        /\ evals' = evals \o [i \in 1 .. made |->
                                [suite |-> s, track |-> asked[i], finished |-> FALSE]]
        /\ jobs' = IF made < Len(asked) THEN jobs
                   ELSE Append(jobs, Evals!Job(m + 1, m + made))
        /\ tries' = tries /\ results' = results /\ stops' = stops
  BY DEF Evals!Start
<1> DEFINE new == [i \in 1 .. made |-> [suite |-> s, track |-> asked[i], finished |-> FALSE]]
           b == Evals!Job(m + 1, m + made)
           n == Len(jobs) + 1
<1>2. /\ evals \in Seq(EvalRow) /\ tries \in Seq(TryRow) /\ results \in Seq(ResultRow)
      /\ jobs \in Seq(JobRow) /\ stops \in Nat /\ m \in Nat /\ DOMAIN evals = 1 .. m
      /\ made \in Nat /\ made <= Len(asked) /\ Len(asked) \in Nat \ {0}
  BY DEF EvalsInv, EvalTypes
<1>3. new \in Seq(EvalRow) /\ Len(new) = made /\ \A i \in 1 .. made : new[i].finished = FALSE
  <2>1. \A i \in 1 .. made : asked[i] \in Track
    BY <1>2
  <2>2. new \in [1 .. made -> EvalRow]
    BY <2>1 DEF EvalRow
  <2> QED BY <1>2, <2>2
<1> HIDE DEF new
<1>4. /\ evals' \in Seq(EvalRow) /\ DOMAIN evals' = 1 .. m + made
      /\ \A e \in 1 .. m : evals'[e] = evals[e]
      /\ \A e \in m + 1 .. m + made : evals'[e] = new[e - m]
  BY <1>1, <1>2, <1>3 DEF new
<1>5. \A e \in m + 1 .. m + made : ~evals'[e].finished
  <2> TAKE e \in m + 1 .. m + made
  <2>1. e - m \in 1 .. made
    BY <1>2
  <2> QED BY <1>3, <1>4, <2>1
<1>6. /\ b \in JobRow /\ b.eval = m + 1 /\ b.last = m + made /\ b.case = 1 /\ b.left = Attempts
      /\ b.stage = "try"
  BY <1>2 DEF Evals!Job, JobRow, Kinds, Evals!Setting
<1> HIDE DEF b
<1>7. /\ jobs' \in Seq(JobRow) /\ DOMAIN jobs \subseteq DOMAIN jobs'
      /\ \A k \in DOMAIN jobs : jobs'[k] = jobs[k]
      /\ \A k \in DOMAIN jobs' : k \in DOMAIN jobs \/ (k = n /\ jobs'[n] = b /\ made = Len(asked))
  <2>1. CASE made < Len(asked)
    <3>1. jobs' = jobs
      BY <1>1, <2>1
    <3>2. /\ jobs \in Seq(JobRow) /\ DOMAIN jobs' = DOMAIN jobs
          /\ \A k \in DOMAIN jobs : jobs'[k] = jobs[k]
      BY <1>2, <3>1
    <3> HIDE DEF n
    <3> QED BY <3>1, <3>2
  <2>2. CASE made = Len(asked)
    <3>1. jobs' = Append(jobs, b)
      BY <1>1, <1>2, <2>2 DEF b
    <3>2. /\ jobs' \in Seq(JobRow) /\ DOMAIN jobs' = DOMAIN jobs \cup {n} /\ jobs'[n] = b
          /\ \A k \in DOMAIN jobs : jobs'[k] = jobs[k]
      BY <1>2, <1>6, <3>1
    <3> HIDE DEF n
    <3> QED BY <2>2, <3>2
  <2> QED BY <1>2, <2>1, <2>2
<1>8. EvalTypes'
  BY <1>1, <1>2, <1>4, <1>7 DEF EvalTypes
<1>9. \A k \in Working' : \/ k \in Working /\ jobs'[k] = jobs[k]
                          \/ k = n /\ jobs'[k] = b /\ made = Len(asked)
  <2> HIDE DEF n
  <2> QED BY <1>7 DEF Working
<1>10. ASSUME NEW k \in Working
       PROVE  /\ jobs[k].eval \in Nat \ {0} /\ jobs[k].last \in Nat /\ jobs[k].last <= m
              /\ Unfinished(evals', jobs[k]) /\ JobAt(tries, results, jobs[k])
  <2>1. /\ jobs[k].eval \in Nat \ {0} /\ jobs[k].last \in Nat /\ jobs[k].last \in DOMAIN evals
        /\ Unfinished(evals, jobs[k]) /\ JobAt(tries, results, jobs[k])
    BY AtWork
  <2>2. \A e \in jobs[k].eval .. jobs[k].last : e \in 1 .. m
    BY <1>2, <2>1
  <2>3. jobs[k].last \in DOMAIN evals'
    BY <1>2, <1>4, <2>1
  <2> QED BY <1>2, <1>4, <2>1, <2>2, <2>3 DEF Unfinished
<1>11. made = Len(asked) => Unfinished(evals', b) /\ JobAt(tries, results, b)
  <2> SUFFICES ASSUME made = Len(asked)
               PROVE  Unfinished(evals', b) /\ JobAt(tries, results, b)
    OBVIOUS
  <2>1. /\ m + 1 \in 1 .. m + made /\ m + made \in 1 .. m + made
        /\ 1 \in 1 .. EvalCase + 1 /\ 1 # EvalCase + 1
    BY <1>2 DEF Evals!Setting
  <2>2. Unfinished(evals', b)
    BY <1>4, <1>5, <1>6, <2>1 DEF Unfinished
  <2>3. \A e \in m + 1 .. m + made, c \in Nat : NoneAt(tries, results, e, c)
    <3> TAKE e \in m + 1 .. m + made, c \in Nat
    <3>1. e \notin DOMAIN evals
      BY <1>2
    <3> QED BY <3>1 DEF NoneAt, TriesAt, ResultsAt, EvalsInv, TriesAreRight, ResultsAreRight
  <2>4. /\ \A c \in Nat : NoneAt(tries, results, b.eval, c)
        /\ \A e \in b.eval + 1 .. b.last, c \in Nat : NoneAt(tries, results, e, c)
    <3>1. b.eval \in m + 1 .. m + made
      BY <1>2, <1>6, <2>1
    <3>2. \A e \in b.eval + 1 .. b.last : e \in m + 1 .. m + made
      BY <1>2, <1>6
    <3> QED BY <2>3, <3>1, <3>2
  <2>5. InStage(tries, results, b)
    <3>1. TriesAt(tries, b.eval, b.case) = {} /\ ResultsAt(results, b.eval, b.case) = {}
      BY <1>6, <2>4 DEF NoneAt
    <3>2. IsFiniteSet({}) /\ Cardinality({}) = 0 /\ 0 = Attempts - b.left /\ b.left > 0
      BY <1>6, FS_EmptySet DEF Evals!Setting
    <3> QED BY <1>6, <3>1, <3>2 DEF InStage, Excused
  <2>6. \A c \in 1 .. b.case - 1 : DoneAt(tries, results, b.eval, c)
    BY <1>6
  <2> QED BY <2>2, <2>4, <2>5, <2>6 DEF JobAt
<1>12. JobsInPlace'
  <2> SUFFICES ASSUME NEW k \in Working'
               PROVE  Unfinished(evals', jobs'[k]) /\ JobAt(tries, results, jobs'[k])
    BY <1>1 DEF JobsInPlace
  <2> QED BY <1>9, <1>10, <1>11
<1>13. JobsApart'
  <2> SUFFICES ASSUME NEW k \in Working', NEW l \in Working', k # l
               PROVE  jobs'[k].last < jobs'[l].eval \/ jobs'[l].last < jobs'[k].eval
    BY DEF JobsApart
  <2>1. CASE k \in Working /\ l \in Working
    BY <1>7, <2>1 DEF EvalsInv, JobsApart, Working
  <2>2. CASE k \notin Working
    <3>1. k = n /\ jobs'[k] = b /\ l \in Working /\ jobs'[l] = jobs[l]
      BY <1>9, <2>2
    <3> QED BY <1>2, <1>6, <1>10, <3>1
  <2>3. CASE l \notin Working
    <3>1. l = n /\ jobs'[l] = b /\ k \in Working /\ jobs'[k] = jobs[k]
      BY <1>9, <2>3
    <3> QED BY <1>2, <1>6, <1>10, <3>1
  <2> QED BY <2>1, <2>2, <2>3
<1>14. DOMAIN evals \subseteq DOMAIN evals'
  BY <1>2, <1>4
<1>15. TriesAreRight'
  <2> SUFFICES ASSUME NEW i \in DOMAIN tries
               PROVE  /\ tries[i].eval \in DOMAIN evals' /\ tries[i].case \in 1 .. EvalCase
                      /\ tries[i].status = "running" =>
                           \E k \in DOMAIN jobs' : /\ jobs'[k].stage = "running"
                                                   /\ jobs'[k].eval = tries[i].eval
                                                   /\ jobs'[k].case = tries[i].case
    BY <1>1 DEF TriesAreRight
  <2>1. /\ tries[i].eval \in DOMAIN evals /\ tries[i].case \in 1 .. EvalCase
        /\ tries[i].status = "running" =>
             \E k \in DOMAIN jobs : /\ jobs[k].stage = "running"
                                    /\ jobs[k].eval = tries[i].eval
                                    /\ jobs[k].case = tries[i].case
    BY DEF EvalsInv, TriesAreRight
  <2> QED BY <1>7, <1>14, <2>1
<1>16. ResultsAreRight'
  BY <1>1, <1>14 DEF EvalsInv, ResultsAreRight
<1>17. FinishedIsDone'
  <2> SUFFICES ASSUME NEW e \in DOMAIN evals', evals'[e].finished, stops = 0,
                      NEW c \in 1 .. EvalCase
               PROVE  DoneAt(tries, results, e, c)
    BY <1>1 DEF FinishedIsDone
  <2>1. e \in 1 .. m \/ e \in m + 1 .. m + made
    BY <1>2, <1>4
  <2>2. e \in DOMAIN evals /\ evals[e].finished
    BY <1>2, <1>4, <1>5, <2>1
  <2> QED BY <2>2 DEF EvalsInv, FinishedIsDone
<1> QED BY <1>8, <1>12, <1>13, <1>15, <1>16, <1>17 DEF EvalsInv

\* The process comes back: what was open is settled and no job works.
LEMMA RestartStep ==
  ASSUME Evals!Setting, EvalsInv, Evals!Restart
  PROVE  EvalsInv'
<1>1. /\ evals \in Seq(EvalRow) /\ tries \in Seq(TryRow) /\ results \in Seq(ResultRow)
      /\ stops \in Nat
  BY DEF EvalsInv, EvalTypes
<1>2. /\ stops' = stops + 1 /\ jobs' = <<>> /\ results' = results
      /\ evals' = [e \in DOMAIN evals |-> [evals[e] EXCEPT !.finished = TRUE]]
      /\ tries' = [i \in DOMAIN tries |-> IF tries[i].status \in Evals!Open
                   THEN [tries[i] EXCEPT !.status = "interrupted"] ELSE tries[i]]
  BY DEF Evals!Restart
<1>3. DOMAIN evals' = DOMAIN evals /\ evals' \in Seq(EvalRow)
  <2>1. \A e \in DOMAIN evals : [evals[e] EXCEPT !.finished = TRUE] \in EvalRow
    <3> TAKE e \in DOMAIN evals
    <3>1. evals[e] \in EvalRow
      BY <1>1
    <3> QED BY <3>1 DEF EvalRow
  <2>2. evals' \in [1 .. Len(evals) -> EvalRow] /\ Len(evals) \in Nat
    BY <1>1, <1>2, <2>1
  <2> QED BY <1>1, <1>2, <2>2
<1>4. /\ DOMAIN tries' = DOMAIN tries
      /\ \A i \in DOMAIN tries :
           /\ tries'[i].eval = tries[i].eval /\ tries'[i].case = tries[i].case
           /\ tries'[i].status # "running" /\ tries'[i] \in TryRow
  <2>1. ASSUME NEW i \in DOMAIN tries
        PROVE  /\ tries'[i].eval = tries[i].eval /\ tries'[i].case = tries[i].case
               /\ tries'[i].status # "running" /\ tries'[i] \in TryRow
    <3>1. tries[i] \in TryRow
      BY <1>1
    <3>2. tries'[i] = IF tries[i].status \in Evals!Open
                      THEN [tries[i] EXCEPT !.status = "interrupted"] ELSE tries[i]
      BY <1>2
    <3> QED BY <3>1, <3>2 DEF TryRow, Evals!Open
  <2> QED BY <1>2, <2>1
<1>5. tries' \in Seq(TryRow)
  <2>1. tries' \in [1 .. Len(tries) -> TryRow] /\ Len(tries) \in Nat
    BY <1>1, <1>2, <1>4
  <2> QED BY <2>1
<1>6. EvalTypes'
  <2>1. <<>> \in Seq(JobRow)
    OBVIOUS
  <2> QED BY <1>1, <1>2, <1>3, <1>5, <2>1 DEF EvalTypes
<1>7. Working' = {}
  <2>1. DOMAIN jobs' = {}
    BY <1>2
  <2> QED BY <2>1 DEF Working
<1>8. JobsInPlace' /\ JobsApart'
  BY <1>7 DEF JobsInPlace, JobsApart
<1>9. TriesAreRight'
  BY <1>3, <1>4 DEF EvalsInv, TriesAreRight
<1>10. ResultsAreRight'
  <2>1. \A e, c : TriesAt(tries', e, c) = TriesAt(tries, e, c)
    BY <1>4 DEF TriesAt
  <2>2. \A k \in DOMAIN results :
          TriesAt(tries', results[k].eval, results[k].case)
            = TriesAt(tries, results[k].eval, results[k].case)
    BY <2>1
  <2> QED BY <1>2, <1>3, <2>2 DEF EvalsInv, ResultsAreRight
<1>11. FinishedIsDone'
  <2>1. stops' # 0
    BY <1>1, <1>2
  <2> QED BY <2>1 DEF FinishedIsDone
<1> QED BY <1>6, <1>8, <1>9, <1>10, <1>11 DEF EvalsInv

LEMMA EvalsStep == Evals!Setting /\ EvalsInv /\ [Evals!Next]_Evals!vars => EvalsInv'
<1> SUFFICES ASSUME Evals!Setting, EvalsInv, [Evals!Next]_Evals!vars PROVE EvalsInv'
  OBVIOUS
<1>1. ASSUME NEW s \in Suite, NEW asked \in {<<t>> : t \in Track} \cup {Evals!Tracks},
             Evals!Start(s, asked)
      PROVE  EvalsInv'
  <2>1. asked \in Seq(Track) /\ asked # <<>>
    <3>1. Evals!Tracks[1] \in Track /\ Evals!Tracks[2] \in Track
      BY DEF Evals!Setting, Evals!ToSet, Evals!Tracks
    <3>2. CASE asked = Evals!Tracks
      BY <3>1, <3>2 DEF Evals!Tracks
    <3>3. CASE \E t \in Track : asked = <<t>>
      BY <3>3
    <3> QED BY <3>2, <3>3
  <2> QED BY <1>1, <2>1, StartStep
<1>2. ASSUME NEW j \in DOMAIN jobs,
             \/ Evals!Try(j) \/ Evals!TryEnds(j) \/ Evals!SaveResult(j) \/ Evals!Exclude(j)
             \/ Evals!Score(j) \/ Evals!Judge(j) \/ Evals!Finish(j) \/ Evals!Abort(j)
      PROVE  EvalsInv'
  BY <1>2, TryStep, TryEndsStep, SaveResultStep, ScoreStep, JudgeStep, CloseStep
<1>3. CASE Evals!Restart
  BY <1>3, RestartStep
<1>4. CASE UNCHANGED Evals!vars
  <2>1. /\ evals' = evals /\ tries' = tries /\ results' = results /\ jobs' = jobs
        /\ stops' = stops
    BY <1>4 DEF Evals!vars
  <2>2. Working' = Working
    BY <2>1 DEF Working
  <2> QED BY <2>1, <2>2 DEF EvalsInv, EvalTypes, JobsInPlace, JobsApart, TriesAreRight,
             ResultsAreRight, FinishedIsDone
<1> QED BY <1>1, <1>2, <1>3, <1>4 DEF Evals!Next

\* In an evaluation nothing stopped, every case has its one result.
LEMMA QualityCounts == EvalsInv => Evals!OnlyQualityCounts
<1> SUFFICES ASSUME EvalsInv, NEW e \in DOMAIN evals, evals[e].finished, stops = 0,
                    NEW c \in 1 .. EvalCase
             PROVE  LET mine == {i \in DOMAIN tries : tries[i].eval = e /\ tries[i].case = c}
                        kept == {i \in Evals!ResultsOf(e) : results[i].case = c}
                    IN  /\ Evals!Cardinality(kept) = 1
                        /\ \A i \in kept :
                             (Evals!ExcludedKind(i) # {}) <=>
                               (/\ Evals!Cardinality(mine) = Attempts
                                /\ \A k \in mine : tries[k].kind \in Evals!Excluding)
  BY DEF Evals!OnlyQualityCounts
<1>1. DoneAt(tries, results, e, c)
  BY DEF EvalsInv, FinishedIsDone
<1>2. PICK r : /\ ResultsAt(results, e, c) = {r}
               /\ (results[r].scores \cap Excluding # {})
                    <=> (/\ Cardinality(TriesAt(tries, e, c)) = Attempts
                         /\ Excused(tries, TriesAt(tries, e, c)))
  BY <1>1 DEF DoneAt
<1>3. {i \in Evals!ResultsOf(e) : results[i].case = c} = {r}
  BY <1>2 DEF ResultsAt, Evals!ResultsOf
<1>4. Evals!Cardinality({r}) = 1
  BY EvalCount, FS_Singleton
<1>5. {i \in DOMAIN tries : tries[i].eval = e /\ tries[i].case = c} = TriesAt(tries, e, c)
  BY DEF TriesAt
<1>6. (Evals!ExcludedKind(r) # {}) <=>
        (/\ Evals!Cardinality(TriesAt(tries, e, c)) = Attempts
         /\ \A k \in TriesAt(tries, e, c) : tries[k].kind \in Evals!Excluding)
  BY <1>2, EvalCount DEF Evals!ExcludedKind, Excused, Excluding
<1> QED BY <1>3, <1>4, <1>5, <1>6

\* Both dashboards agree at every moment of every evaluation, and in an evaluation nothing
\* stopped every case counts once, left out exactly when every attempt met a failure of the
\* provider: for any suites, cases, attempts and jobs at once, as long as names and versions
\* tell suites apart.
THEOREM EvaluationsAlwaysAddUp == Evals!Setting => (Evals!Spec => []EvaluationsAddUp)
<1> SUFFICES ASSUME Evals!Setting PROVE Evals!Spec => []EvaluationsAddUp
  OBVIOUS
<1>1. Evals!Init => EvalsInv
  BY EvalsInit
<1>2. EvalsInv /\ [Evals!Next]_Evals!vars => EvalsInv'
  BY EvalsStep
<1>3. EvalsInv => EvaluationsAddUp
  <2> SUFFICES ASSUME EvalsInv PROVE EvaluationsAddUp
    OBVIOUS
  <2>1. Evals!DashboardsAgree
    BY TotalsAgree, BreakdownsAgree, SpentAgree, ExecutionsAgree, ComparisonsAgree
       DEF Evals!DashboardsAgree
  <2> QED BY <2>1, QualityCounts DEF EvaluationsAddUp, Evals!EvaluationsAddUp
<1> QED BY <1>1, <1>2, <1>3, PTL DEF Evals!Spec

===============================================================================
