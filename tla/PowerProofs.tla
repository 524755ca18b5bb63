---------------------------- MODULE PowerProofs ----------------------------
(***************************************************************************)
(* Proofs about Power, for any sensors, shunts, domains and settings, for  *)
(* failing transactions, and for measurements, restarts and losses of      *)
(* power at any moment.                                                    *)
(***************************************************************************)
EXTENDS Power, SequenceTheorems, WellFoundedInduction, TLAPS

\* The board file names every rail so that the search finds its sensor.
Unambiguous ==
  \A r \in DOMAIN PartOf : PartOf[r] # {} /\ Found(r) = Meant[r]

\* The sensors that the board file means by the rails of a domain.
Want(d) == [i \in DOMAIN Domains[d] |-> Meant[Domains[d][i]]]

Sensing == {"calibrate", "power", "current", "scale"}
Values == [sensor : SensorSet, right : BOOLEAN]

PowerTyped ==
  /\ rails \in Parsed
  /\ cal \in [SensorSet -> Calibrations]
  /\ conv \in [SensorSet -> Calibrations]
  /\ ppc \in Sensing \cup {"idle", "write"}
  /\ pret \in {"none", "ok", "error"}
  /\ settled \subseteq SensorSet
  /\ total \in Seq(Values)
  /\ ppc \in Sensing => todo \in Seq(SensorSet) /\ todo # <<>>
  /\ ppc = "write" =>
       /\ pcall.op = "setINA226"
       /\ pcall.target \in SensorSet /\ pcall.set[2] \in Int

\* A settled sensor measures with its calibration, and it is read so.
Steady == \A s \in settled : conv[s] = cal[s]
Read ==
  ppc \in {"current", "scale"} /\ Head(todo) \in settled =>
    seen = {cal[Head(todo)]}
Right ==
  \A i \in DOMAIN total : total[i].sensor \in settled => total[i].right

\* The sensors added up and those to be read are those of the domain, with
\* a board file that says which they are.
Adding ==
  LET want == Want(pcall.target) IN
  Unambiguous /\ pcall.op = "powerdomain" /\ (ppc \in Sensing \/ Answered) =>
    /\ pcall.target \in DOMAIN Domains
    /\ todo \in Seq(SensorSet)
    /\ Answered => todo = <<>>
    /\ Len(total) + Len(todo) = Len(want)
    /\ \A i \in 1 .. Len(total) : total[i].sensor = want[i]
    /\ \A i \in 1 .. Len(todo) : todo[i] = want[Len(total) + i]

PowerInv == PowerTyped /\ Steady /\ Read /\ Right /\ Adding

-----------------------------------------------------------------------------

\* The sensors of a domain are a sequence, and there is one at least.
LEMMA WantSeq ==
  ASSUME NEW d \in DOMAIN Domains
  PROVE  /\ Want(d) \in Seq(SensorSet) /\ Want(d) # <<>>
         /\ Len(Want(d)) \in Nat
         /\ DOMAIN Want(d) = 1 .. Len(Want(d))
<1>1. Domains[d] \in Seq(DOMAIN PartOf) /\ Domains[d] # <<>>
  BY PowerAssumption
<1>2. PICK n \in Nat : n = Len(Domains[d]) /\ n # 0
  BY <1>1, EmptySeq, LenProperties
<1>3. /\ DOMAIN Domains[d] = 1 .. n
      /\ \A i \in 1 .. n : Domains[d][i] \in DOMAIN PartOf
  BY <1>1, <1>2, LenProperties, ElementOfSeq
<1>4. Want(d) \in [1 .. n -> SensorSet]
  BY <1>3, PowerAssumption DEF Want
<1>5. Want(d) \in Seq(SensorSet) /\ Len(Want(d)) = n
  BY <1>2, <1>4
<1> QED BY <1>2, <1>4, <1>5

\* With unambiguous names the parser finds those sensors.
LEMMA ParsedIsWant ==
  ASSUME Unambiguous, NEW f \in Parsed
  PROVE  f = [d \in DOMAIN Domains |-> Want(d)]
<1>1. PICK junk \in [DOMAIN PartOf -> SensorSet] :
        f = [d \in DOMAIN Domains |->
               [i \in DOMAIN Domains[d] |->
                  IF PartOf[Domains[d][i]] = {} THEN junk[Domains[d][i]]
                                               ELSE Found(Domains[d][i])]]
  BY DEF Parsed
<1>2. ASSUME NEW d \in DOMAIN Domains, NEW i \in DOMAIN Domains[d]
      PROVE  /\ PartOf[Domains[d][i]] # {}
             /\ Found(Domains[d][i]) = Meant[Domains[d][i]]
  <2>1. Domains[d][i] \in DOMAIN PartOf
    BY PowerAssumption, LenProperties, ElementOfSeq
  <2> QED BY <2>1 DEF Unambiguous
<1> QED BY <1>1, <1>2 DEF Want

\* A set of numbers has a least one.
LEMMA Smallest ==
  ASSUME NEW T \in SUBSET Nat, T # {}
  PROVE  \E x \in T : \A y \in T : x <= y
<1> DEFINE R == {ss \in Nat \X Nat : ss[1] < ss[2]}
<1>1. IsWellFoundedOn(R, Nat)
  BY NatLessThanWellFounded DEF OpToRel
<1> HIDE DEF R
<1>2. PICK x \in T : \A y \in T : ~ (<<y, x>> \in R)
  BY <1>1, WFMin
<1>3. ASSUME NEW y \in T PROVE x <= y
  <2>1. x \in Nat /\ y \in Nat /\ ~ (<<y, x>> \in R)
    BY <1>2
  <2>2. ~ (y < x)
    BY <2>1, Zenon DEF R
  <2> QED BY <2>1, <2>2
<1> QED BY <1>3

\* The positions of a list that have something in common have a last one.
LEMMA Largest ==
  ASSUME NEW n \in Nat, NEW T \in SUBSET (1 .. n), T # {}
  PROVE  \E x \in T : \A y \in T : y <= x
<1> DEFINE U == {n - y : y \in T}
<1>1. U \in SUBSET Nat /\ U # {}
  OBVIOUS
<1>2. PICK u \in U : \A v \in U : u <= v
  BY <1>1, Smallest
<1>3. PICK x \in T : u = n - x
  BY <1>2
<1>4. ASSUME NEW y \in T PROVE y <= x
  <2>1. n - x <= n - y
    BY <1>2, <1>3
  <2>2. x \in Int /\ y \in Int
    BY <1>3
  <2> QED BY <2>1, <2>2
<1> QED BY <1>3, <1>4

\* A rail whose name contains names of sensors finds one of them.
LEMMA LastNamed ==
  ASSUME NEW r \in DOMAIN PartOf, PartOf[r] # {}
  PROVE  Found(r) \in PartOf[r]
<1> DEFINE named == {i \in DOMAIN Sensors : Sensors[i] \in PartOf[r]}
<1>1. PICK n \in Nat : DOMAIN Sensors = 1 .. n
  BY PowerAssumption, LenProperties
<1>2. named \in SUBSET (1 .. n) /\ named # {}
  BY <1>1, PowerAssumption DEF SensorSet
<1>3. \E i \in named : \A j \in named : j <= i
  BY <1>1, <1>2, Largest
<1>4. (CHOOSE i \in named : \A j \in named : j <= i) \in named
  BY <1>3
<1> QED BY <1>4 DEF Found

\* Whatever the names are, every rail of a domain gets a sensor.
LEMMA ParsedSeq ==
  ASSUME NEW f \in Parsed, NEW d \in DOMAIN Domains
  PROVE  f[d] \in Seq(SensorSet) /\ f[d] # <<>>
<1>1. Domains[d] \in Seq(DOMAIN PartOf) /\ Domains[d] # <<>>
  BY PowerAssumption
<1>2. PICK n \in Nat : n = Len(Domains[d]) /\ n # 0
  BY <1>1, EmptySeq, LenProperties
<1>3. /\ DOMAIN Domains[d] = 1 .. n
      /\ \A i \in 1 .. n : Domains[d][i] \in DOMAIN PartOf
  BY <1>1, <1>2, LenProperties, ElementOfSeq
<1>4. PICK junk \in [DOMAIN PartOf -> SensorSet] :
        f[d] = [i \in 1 .. n |->
                  IF PartOf[Domains[d][i]] = {} THEN junk[Domains[d][i]]
                                               ELSE Found(Domains[d][i])]
  BY <1>3 DEF Parsed
<1>5. ASSUME NEW i \in 1 .. n, PartOf[Domains[d][i]] # {}
      PROVE  Found(Domains[d][i]) \in SensorSet
  <2>1. PICK r \in DOMAIN PartOf : r = Domains[d][i]
    BY <1>3
  <2>2. PartOf[r] # {} /\ PartOf[r] \subseteq SensorSet
    BY <1>5, <2>1, PowerAssumption
  <2>3. Found(r) \in PartOf[r]
    BY <2>1, <2>2, LastNamed
  <2> QED BY <2>1, <2>2, <2>3
<1>6. \A i \in 1 .. n : junk[Domains[d][i]] \in SensorSet
  BY <1>3
<1>7. f[d] \in [1 .. n -> SensorSet]
  BY <1>4, <1>5, <1>6
<1> QED BY <1>2, <1>7, EmptySeq

\* The first of a sequence and the rest of it.
LEMMA Rest ==
  ASSUME NEW S, NEW s \in Seq(S), s # <<>>
  PROVE  /\ Head(s) \in S /\ Head(s) = s[1]
         /\ Tail(s) \in Seq(S) /\ Len(s) \in Nat /\ Len(s) > 0
         /\ Len(Tail(s)) = Len(s) - 1
         /\ \A i \in 1 .. Len(Tail(s)) : Tail(s)[i] = s[i + 1]
OBVIOUS

\* A value is added at the end.
LEMMA Added ==
  ASSUME NEW S, NEW s \in Seq(S), NEW e \in S
  PROVE  /\ Append(s, e) \in Seq(S) /\ Len(s) \in Nat
         /\ Len(Append(s, e)) = Len(s) + 1
         /\ \A i \in 1 .. Len(s) : Append(s, e)[i] = s[i]
         /\ Append(s, e)[Len(s) + 1] = e
         /\ DOMAIN Append(s, e) = 1 .. Len(s) + 1 /\ DOMAIN s = 1 .. Len(s)
OBVIOUS

\* What the board's own calibration, and one of setINA226, come to.
LEMMA OwnType ==
  /\ \A s \in SensorSet : Own(s) \in Calibrations
  /\ \A n \in Int : Word15(n) \in Calibrations
<1>1. ASSUME NEW s \in SensorSet
      PROVE  Own(s) \in Calibrations
  <2>1. PICK k \in Nat \ {0} : k = Shunt[s]
    BY <1>1, PowerAssumption
  <2>2. 16777216 \div k \in Nat
    OBVIOUS
  <2> QED BY <2>1, <2>2 DEF Own, Calibrations
<1>2. ASSUME NEW n \in Int
      PROVE  Word15(n) \in Calibrations
  BY DEF Word15, Calibrations
<1> QED BY <1>1, <1>2

-----------------------------------------------------------------------------
(* One lemma per action.                                                   *)

\* A command that is refused, or done at once.
LEMMA RefusedInv ==
  ASSUME PowerInv, NEW c, Begin(c), c.op # "powerdomain", ppc' = "idle",
         pret' \in {"ok", "error"}
  PROVE  PowerInv'
<1>1. PowerTyped'
  BY EmptySeq DEF PowerInv, PowerTyped, Begin, Sensing
<1>2. Steady' /\ Read' /\ Right' /\ Adding'
  BY DEF PowerInv, PowerTyped, Begin, Sensing, Steady, Read, Right, Adding
<1> QED BY <1>1, <1>2 DEF PowerInv

\* getpower and getcalpower.
LEMMA GetPowerInv ==
  ASSUME PowerInv, NEW c, GetPower(c)
  PROVE  PowerInv'
<1>1. CASE ppc' = "idle"
  BY <1>1, RefusedInv DEF GetPower, Refuse, Answer
<1>2. CASE ppc' # "idle"
  <2>1. /\ c.target \in SensorSet /\ todo' = <<c.target>> /\ pret' = pret
        /\ ppc' \in {"calibrate", "power"}
        /\ pcall' = c /\ c.op # "powerdomain"
    BY <1>2 DEF GetPower, Refuse, Answer, Begin
  <2>2. todo' \in Seq(SensorSet) /\ todo' # <<>>
    BY <2>1
  <2>3. PowerTyped'
    BY <2>1, <2>2, EmptySeq DEF GetPower, PowerInv, PowerTyped, Begin, Sensing
  <2>4. Steady' /\ Read' /\ Right' /\ Adding'
    BY <2>1 DEF GetPower, PowerInv, PowerTyped, Begin, Sensing, Steady, Read,
                Right, Adding
  <2> QED BY <2>3, <2>4 DEF PowerInv
<1> QED BY <1>1, <1>2

\* powerdomain begins with nothing added up and all of the sensors to read.
LEMMA PowerDomainInv ==
  ASSUME PowerInv, NEW c, PowerDomain(c)
  PROVE  PowerInv'
<1>1. CASE ppc' = "idle"
  <2>1. pret' = "error" /\ pcall' = c /\ total' = <<>>
    BY <1>1 DEF PowerDomain, Refuse, Answer, Begin
  <2>2. PowerTyped'
    BY <1>1, <2>1, EmptySeq DEF PowerDomain, PowerInv, PowerTyped, Begin,
                                Sensing
  <2>3. Steady' /\ Read' /\ Right' /\ Adding'
    BY <1>1, <2>1 DEF PowerDomain, PowerInv, PowerTyped, Begin, Sensing,
                      Steady, Read, Right, Adding, Answered
  <2> QED BY <2>2, <2>3 DEF PowerInv
<1>2. CASE ppc' # "idle"
  <2>1. /\ c.target \in DOMAIN Domains /\ todo' = rails[c.target]
        /\ ppc' = "calibrate" /\ pret' = pret /\ pcall' = c
        /\ total' = <<>> /\ c.op = "powerdomain"
    BY <1>2 DEF PowerDomain, Refuse, Answer, Begin
  <2>2. Unambiguous => todo' = Want(c.target)
    BY <2>1, ParsedIsWant DEF PowerInv, PowerTyped
  <2>3. todo' \in Seq(SensorSet) /\ todo' # <<>> /\ Len(todo') \in Nat
    BY <2>1, ParsedSeq, LenProperties DEF PowerInv, PowerTyped
  <2>4. PowerTyped'
    BY <2>1, <2>3, EmptySeq DEF PowerDomain, PowerInv, PowerTyped, Begin,
                                Sensing
  <2>5. Steady' /\ Read' /\ Right'
    BY <2>1 DEF PowerDomain, PowerInv, PowerTyped, Begin, Sensing, Steady,
                Read, Right
  <2>6. Adding'
    BY <2>1, <2>2, <2>3 DEF Adding, Answered
  <2> QED BY <2>4, <2>5, <2>6 DEF PowerInv
<1> QED BY <1>1, <1>2

\* getINA226 and setINA226.
LEMMA RegistersInv ==
  ASSUME PowerInv, NEW c, GetINA226(c) \/ SetINA226(c)
  PROVE  PowerInv'
<1>1. CASE ppc' = "idle"
  BY <1>1, RefusedInv DEF GetINA226, SetINA226, Refuse, Answer
<1>2. CASE ppc' # "idle"
  <2>1. /\ c.target \in SensorSet /\ ValidSet(c.set) /\ ppc' = "write"
        /\ pret' = pret /\ pcall' = c /\ c.op = "setINA226" /\ Begin(c)
    BY <1>2 DEF GetINA226, SetINA226, Refuse, Answer, Begin
  <2>2. c.set[2] \in Int
    <3>1. 2 \in DOMAIN Registers
      BY DEF Registers
    <3> QED BY <2>1, <3>1 DEF ValidSet
  <2>3. PowerTyped'
    BY <2>1, <2>2, EmptySeq DEF PowerInv, PowerTyped, Begin, Sensing
  <2>4. Steady' /\ Read' /\ Right' /\ Adding'
    BY <2>1 DEF PowerInv, PowerTyped, Begin, Sensing, Steady, Read, Right,
                Adding, Answered
  <2> QED BY <2>3, <2>4 DEF PowerInv
<1> QED BY <1>1, <1>2

LEMMA StartPowerInv ==
  ASSUME PowerInv, NEW c, StartPower(c)
  PROVE  PowerInv'
BY GetPowerInv, PowerDomainInv, RegistersInv DEF StartPower

\* A sensor gets a calibration: what was settled and stays so is as it was.
LEMMA CalibrateInv ==
  ASSUME PowerInv, NEW s \in SensorSet, NEW v \in Calibrations,
         Calibrate(s, v), UNCHANGED <<conv, total>>
  PROVE  /\ cal' \in [SensorSet -> Calibrations]
         /\ settled' \subseteq settled
         /\ Steady' /\ Right'
<1>1. /\ cal \in [SensorSet -> Calibrations] /\ settled \subseteq SensorSet
      /\ Steady /\ Right
  BY DEF PowerInv, PowerTyped
<1>2. cal' \in [SensorSet -> Calibrations] /\ settled' \subseteq settled
  BY <1>1 DEF Calibrate
<1>3. \A t \in settled' : cal'[t] = cal[t]
  BY <1>1, <1>2 DEF Calibrate
<1> QED BY <1>1, <1>2, <1>3 DEF Steady, Right

\* A command stops at an error, with nothing of it to be looked at.
LEMMA StopInv ==
  ASSUME PowerInv, Answer("error"),
         UNCHANGED <<rails, cal, conv, pcall, total, settled>>
  PROVE  PowerInv'
<1>1. ppc' = "idle" /\ pret' = "error"
  BY DEF Answer
<1>2. PowerTyped'
  BY <1>1 DEF PowerInv, PowerTyped, Sensing
<1>3. Steady' /\ Read' /\ Right' /\ Adding'
  BY <1>1 DEF PowerInv, Steady, Read, Right, Adding, Sensing, Answered
<1> QED BY <1>2, <1>3 DEF PowerInv

LEMMA WriteOwnInv ==
  ASSUME PowerInv, WriteOwn
  PROVE  PowerInv'
<1>1. CASE UNCHANGED <<cal, settled>> /\ Answer("error") /\ UNCHANGED total
  BY <1>1, StopInv DEF WriteOwn
<1>2. CASE Calibrate(Head(todo), Own(Head(todo))) /\ UNCHANGED <<todo, total>>
  <2>1. todo \in Seq(SensorSet) /\ todo # <<>>
    BY DEF WriteOwn, PowerInv, PowerTyped, Sensing
  <2>2. Head(todo) \in SensorSet
    BY <2>1, Rest
  <2>3. Own(Head(todo)) \in Calibrations
    BY <2>2, OwnType
  <2>4. /\ cal' \in [SensorSet -> Calibrations] /\ settled' \subseteq settled
        /\ Steady' /\ Right'
    BY <1>2, <2>2, <2>3, CalibrateInv DEF WriteOwn
  <2>5. \/ ppc' = "power" /\ pret' = pret
        \/ ppc' = "idle" /\ pret' = "error"
    BY <1>2 DEF WriteOwn, Stop, Answer
  <2>6. PowerTyped'
    BY <1>2, <2>1, <2>4, <2>5 DEF WriteOwn, PowerInv, PowerTyped, Sensing
  <2>7. Read' /\ Adding'
    BY <1>2, <2>5 DEF WriteOwn, PowerInv, Read, Adding, Sensing, Answered
  <2> QED BY <2>4, <2>6, <2>7 DEF PowerInv
<1> QED BY <1>1, <1>2 DEF WriteOwn, Stop, Calibrate

LEMMA ReadPowerInv ==
  ASSUME PowerInv, ReadPower
  PROVE  PowerInv'
<1>1. CASE Answer("error") /\ UNCHANGED total
  BY <1>1, StopInv DEF ReadPower
<1>2. CASE /\ seen' = {conv[Head(todo)]} /\ ppc' = "current"
           /\ UNCHANGED <<todo, total, pret>>
  <2>1. PowerTyped'
    BY <1>2 DEF ReadPower, PowerInv, PowerTyped, Sensing
  <2>2. Steady' /\ Read' /\ Right'
    BY <1>2 DEF ReadPower, PowerInv, Steady, Read, Right
  <2>3. Adding'
    BY <1>2 DEF ReadPower, PowerInv, Adding, Sensing, Answered
  <2> QED BY <2>1, <2>2, <2>3 DEF PowerInv
<1> QED BY <1>1, <1>2 DEF ReadPower, Stop

LEMMA ReadCurrentInv ==
  ASSUME PowerInv, ReadCurrent
  PROVE  PowerInv'
<1>1. CASE Answer("error") /\ UNCHANGED total
  BY <1>1, StopInv DEF ReadCurrent
<1>2. CASE /\ seen' = seen \cup {conv[Head(todo)]} /\ ppc' = "scale"
           /\ UNCHANGED <<todo, total, pret>>
  <2>1. PowerTyped'
    BY <1>2 DEF ReadCurrent, PowerInv, PowerTyped, Sensing
  <2>2. Steady' /\ Right'
    BY <1>2 DEF ReadCurrent, PowerInv, Steady, Right
  <2>3. Read'
    BY <1>2 DEF ReadCurrent, PowerInv, Steady, Read
  <2>4. Adding'
    BY <1>2 DEF ReadCurrent, PowerInv, Adding, Sensing, Answered
  <2> QED BY <2>1, <2>2, <2>3, <2>4 DEF PowerInv
<1> QED BY <1>1, <1>2 DEF ReadCurrent, Stop

\* The value of a sensor is added, and the next sensor is taken.
LEMMA ReadCalibrationInv ==
  ASSUME PowerInv, ReadCalibration
  PROVE  PowerInv'
<1>1. CASE Answer("error") /\ UNCHANGED total
  BY <1>1, StopInv DEF ReadCalibration
<1>2. ASSUME NEW e,
             e = [sensor |-> Head(todo), right |-> seen = {Scale(Head(todo))}],
             total' = Append(total, e), todo' = Tail(todo),
             IF todo' = <<>> THEN Answer("ok")
                             ELSE ppc' = "calibrate" /\ UNCHANGED pret
      PROVE  PowerInv'
  <2>1. todo \in Seq(SensorSet) /\ todo # <<>> /\ total \in Seq(Values)
    BY DEF ReadCalibration, PowerInv, PowerTyped, Sensing
  <2>2. /\ Head(todo) \in SensorSet /\ Head(todo) = todo[1]
        /\ todo' \in Seq(SensorSet) /\ Len(todo) \in Nat /\ Len(todo) > 0
        /\ Len(todo') = Len(todo) - 1
        /\ \A i \in 1 .. Len(todo') : todo'[i] = todo[i + 1]
    BY <1>2, <2>1, Rest
  <2>3. e \in Values /\ e.sensor = Head(todo)
        /\ e.right = (seen = {cal[Head(todo)]})
    BY <1>2, <2>2 DEF Values, Scale
  <2>4. /\ total' \in Seq(Values) /\ Len(total) \in Nat
        /\ Len(total') = Len(total) + 1
        /\ \A i \in 1 .. Len(total) : total'[i] = total[i]
        /\ total'[Len(total) + 1] = e
        /\ DOMAIN total' = 1 .. Len(total) + 1
        /\ DOMAIN total = 1 .. Len(total)
    BY <1>2, <2>1, <2>3, Added
  <2>5. \/ ppc' = "idle" /\ pret' = "ok" /\ todo' = <<>>
        \/ ppc' = "calibrate" /\ pret' = pret /\ todo' # <<>>
    BY <1>2 DEF Answer
  <2>6. PowerTyped'
    BY <2>2, <2>4, <2>5 DEF ReadCalibration, PowerInv, PowerTyped, Sensing
  <2>7. Steady' /\ Read'
    BY <2>5 DEF ReadCalibration, PowerInv, Steady, Read
  <2>8. Right'
    <3> SUFFICES ASSUME NEW i \in DOMAIN total', total'[i].sensor \in settled
                 PROVE  total'[i].right
      BY DEF ReadCalibration, Right
    <3>1. CASE i \in 1 .. Len(total)
      BY <3>1, <2>4 DEF PowerInv, Right
    <3>2. CASE i = Len(total) + 1
      BY <3>2, <2>3, <2>4 DEF ReadCalibration, PowerInv, Read
    <3> QED BY <3>1, <3>2, <2>4
  <2>9. Adding'
    <3> SUFFICES ASSUME Unambiguous, pcall.op = "powerdomain"
                 PROVE  Adding'
      BY DEF ReadCalibration, Adding
    <3>1. PICK want : want = Want(pcall.target)
      OBVIOUS
    <3>2. /\ pcall.target \in DOMAIN Domains
          /\ Len(total) + Len(todo) = Len(want)
          /\ \A i \in 1 .. Len(total) : total[i].sensor = want[i]
          /\ \A i \in 1 .. Len(todo) : todo[i] = want[Len(total) + i]
      BY <3>1 DEF ReadCalibration, PowerInv, Adding, Sensing
    <3>3. Len(total') + Len(todo') = Len(want)
      <4>1. PICK n \in Nat : n = Len(total) /\ Len(total') = n + 1
        BY <2>4
      <4>2. PICK m \in Nat : m = Len(todo) /\ Len(todo') = m - 1
        BY <2>2
      <4>3. n + m = Len(want) /\ (n + 1) + (m - 1) = n + m
        BY <4>1, <4>2, <3>2
      <4> QED BY <4>1, <4>2, <4>3
    <3>4. ASSUME NEW i \in 1 .. Len(total')
          PROVE  total'[i].sensor = want[i]
      <4>1. CASE i \in 1 .. Len(total)
        BY <4>1, <2>4, <3>2
      <4>2. CASE i = Len(total) + 1
        <5>1. todo[1] = want[Len(total) + 1]
          BY <2>2, <3>2
        <5> QED BY <5>1, <4>2, <2>2, <2>3, <2>4
      <4> QED BY <4>1, <4>2, <2>4
    <3>5. ASSUME NEW i \in 1 .. Len(todo')
          PROVE  todo'[i] = want[Len(total') + i]
      <4>1. todo'[i] = todo[i + 1] /\ i + 1 \in 1 .. Len(todo)
        BY <2>2
      <4>2. todo[i + 1] = want[Len(total) + (i + 1)]
        BY <4>1, <3>2
      <4>3. Len(total') + i = Len(total) + (i + 1)
        BY <2>4, <2>2
      <4> QED BY <4>1, <4>2, <4>3
    <3>6. Answered' => todo' = <<>>
      BY <2>5 DEF Answered
    <3> QED BY <2>2, <3>1, <3>2, <3>3, <3>4, <3>5, <3>6
            DEF ReadCalibration, Adding
  <2> QED BY <2>6, <2>7, <2>8, <2>9 DEF PowerInv
<1> QED BY <1>1, <1>2 DEF ReadCalibration, Stop

LEMMA WriteRegisterInv ==
  ASSUME PowerInv, WriteRegister
  PROVE  PowerInv'
<1>1. /\ pcall.op = "setINA226" /\ pcall.target \in SensorSet
      /\ Word15(pcall.set[2]) \in Calibrations
  BY OwnType DEF WriteRegister, PowerInv, PowerTyped
<1>2. /\ cal' \in [SensorSet -> Calibrations] /\ settled' \subseteq settled
      /\ Steady' /\ Right'
  <2>1. CASE UNCHANGED <<cal, settled>>
    BY <2>1 DEF WriteRegister, PowerInv, PowerTyped, Steady, Right
  <2>2. CASE Calibrate(pcall.target, Word15(pcall.set[2]))
    BY <2>2, <1>1, CalibrateInv DEF WriteRegister
  <2> QED BY <2>1, <2>2 DEF WriteRegister, Register
<1>3. \/ ppc' = "idle" /\ pret' \in {"ok", "error"}
      \/ ppc' = "write" /\ pret' = pret
  BY DEF WriteRegister, Answer
<1>4. PowerTyped'
  BY <1>1, <1>2, <1>3 DEF WriteRegister, PowerInv, PowerTyped, Sensing
<1>5. Read' /\ Adding'
  BY <1>1, <1>3 DEF WriteRegister, Read, Adding
<1> QED BY <1>2, <1>4, <1>5 DEF PowerInv

LEMMA PowerStepInv ==
  ASSUME PowerInv, PowerStep
  PROVE  PowerInv'
BY WriteOwnInv, ReadPowerInv, ReadCurrentInv, ReadCalibrationInv,
   WriteRegisterInv DEF PowerStep

\* A measurement: a settled sensor has no other calibration to take.
LEMMA MeasureInv ==
  ASSUME PowerInv, NEW s \in SensorSet, Measure(s)
  PROVE  PowerInv'
<1>1. PowerTyped'
  BY DEF Measure, PowerInv, PowerTyped, Sensing
<1>2. Steady'
  BY DEF Measure, PowerInv, PowerTyped, Steady
<1>3. Read' /\ Right' /\ Adding'
  BY DEF Measure, PowerInv, Read, Right, Adding, Sensing, Answered
<1> QED BY <1>1, <1>2, <1>3 DEF PowerInv

\* Between commands nothing is added up and nothing is to be read.
LEMMA NoCallInv ==
  ASSUME NoCall, rails' \in Parsed,
         cal' \in [SensorSet -> Calibrations],
         conv' \in [SensorSet -> Calibrations]
  PROVE  PowerInv'
<1>1. PowerTyped'
  BY EmptySeq DEF NoCall, PowerTyped, Sensing
<1>2. Steady' /\ Read' /\ Right' /\ Adding'
  BY DEF NoCall, NoPowerCommand, Steady, Read, Right, Adding
<1> QED BY <1>1, <1>2 DEF PowerInv

\* The daemon dies, or the board loses its power.
LEMMA PowerRestartInv ==
  ASSUME PowerInv, PowerRestart \/ Outage
  PROVE  PowerInv'
<1>1. NoCall /\ rails' \in Parsed
  BY DEF PowerRestart, Outage
<1>2. /\ cal' \in [SensorSet -> Calibrations]
      /\ conv' \in [SensorSet -> Calibrations]
  BY DEF PowerRestart, Outage, PowerInv, PowerTyped, Calibrations
<1> QED BY <1>1, <1>2, NoCallInv

\* At the start there is nothing but the board file.
LEMMA PowerInitInv ==
  ASSUME PowerInit
  PROVE  PowerInv
<1>1. PowerTyped
  BY EmptySeq DEF PowerInit, PowerTyped, Sensing, Calibrations
<1>2. Steady /\ Read /\ Right /\ Adding
  BY DEF PowerInit, NoPowerCommand, Steady, Read, Right, Adding, Sensing
<1> QED BY <1>1, <1>2 DEF PowerInv

LEMMA PowerStutterInv ==
  ASSUME PowerInv, UNCHANGED powervars
  PROVE  PowerInv'
BY DEF powervars, PowerInv, PowerTyped, Steady, Read, Right, Adding, Answered

LEMMA PowerNextInv ==
  ASSUME PowerInv, [PowerNext]_powervars
  PROVE  PowerInv'
BY StartPowerInv, PowerStepInv, MeasureInv, PowerRestartInv, PowerStutterInv
   DEF PowerNext

\* What was added up, once the command has succeeded.
LEMMA InvMeasured ==
  ASSUME PowerInv
  PROVE  Scaled /\ (Unambiguous => Totals)
<1>1. Scaled
  BY DEF PowerInv, Right, Scaled
<1>2. ASSUME Unambiguous
      PROVE  Totals
  <2> SUFFICES ASSUME Answered, pcall.op = "powerdomain"
               PROVE  [i \in DOMAIN total |-> total[i].sensor]
                        = Want(pcall.target)
    BY DEF Totals, Want
  <2>1. /\ pcall.target \in DOMAIN Domains /\ todo = <<>>
        /\ Len(total) + Len(todo) = Len(Want(pcall.target))
        /\ \A i \in 1 .. Len(total) :
             total[i].sensor = Want(pcall.target)[i]
    BY <1>2 DEF PowerInv, Adding
  <2>2. PICK want : /\ want = Want(pcall.target)
                    /\ Len(want) \in Nat /\ DOMAIN want = 1 .. Len(want)
                    /\ want = [i \in DOMAIN want |-> want[i]]
    <3>1. /\ Len(Want(pcall.target)) \in Nat
          /\ DOMAIN Want(pcall.target) = 1 .. Len(Want(pcall.target))
      BY <2>1, WantSeq
    <3>2. Want(pcall.target)
            = [i \in DOMAIN Want(pcall.target) |-> Want(pcall.target)[i]]
      BY DEF Want
    <3> QED BY <3>1, <3>2
  <2>3. PICK n \in Nat : n = Len(total) /\ DOMAIN total = 1 .. n
    BY LenProperties DEF PowerInv, PowerTyped
  <2>4. n = Len(want)
    BY <2>1, <2>2, <2>3, EmptySeq
  <2> QED BY <2>1, <2>2, <2>3, <2>4
<1> QED BY <1>1, <1>2

-----------------------------------------------------------------------------
(* The theorems.                                                           *)

\* The invariant holds for any board file.
THEOREM PowerInductive == PowerSpec => []PowerInv
BY PowerInitInv, PowerNextInv, PTL DEF PowerSpec

\* What the registers, and a command at each of its steps, can be.
LEMMA InvTyped ==
  ASSUME PowerInv
  PROVE  PowerTypeOK
<1>1. ppc \in Sensing => todo # <<>> /\ Head(todo) \in SensorSet
  BY Rest DEF PowerInv, PowerTyped
<1> QED BY <1>1 DEF PowerInv, PowerTyped, Sensing, PowerTypeOK

\* Every sensor that a command comes to is one of the board, with whatever
\* names the rails of a domain have.
THEOREM PowerTypeCorrect == PowerSpec => []PowerTypeOK
BY PowerInductive, InvTyped, PTL

(***************************************************************************)
(* Whatever commands, failing transactions, measurements, restarts and     *)
(* losses of power come together: what a power command answers with is     *)
(* scaled for the calibration it was measured with.  The names of the      *)
(* sensors do not matter for this.                                         *)
(***************************************************************************)
THEOREM ValuesAreScaled == PowerSpec => []Scaled
<1>1. PowerInv => Scaled
  BY InvMeasured
<1> QED BY <1>1, PowerInductive, PTL

(***************************************************************************)
(* The total of a domain is that of its rails, provided that the names in  *)
(* the board file are unambiguous.                                         *)
(***************************************************************************)
THEOREM PowersAreMeasured == Unambiguous /\ PowerSpec => []Measured
<1> DEFINE Inv == Unambiguous /\ PowerInv
<1>1. Unambiguous /\ PowerInit => Inv
  BY PowerInitInv
<1>2. Inv /\ [PowerNext]_powervars => Inv'
  BY PowerNextInv DEF Unambiguous, Found
<1>3. Inv => Measured
  BY InvMeasured DEF Measured
<1> HIDE DEF Inv
<1> QED BY <1>1, <1>2, <1>3, PTL DEF PowerSpec

=============================================================================
