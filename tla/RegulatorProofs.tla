-------------------------- MODULE RegulatorProofs --------------------------
(***************************************************************************)
(* Theorems about Regulator for every chip, board file and set of          *)
(* requests that meet its assumptions.                                     *)
(***************************************************************************)
EXTENDS RegulatorFaults, TLAPS

Writing == {"off", "fault?", "fault!", "warn?", "warn!", "command", "on"}

\* From the page select on, the chip is on the page of the rail asked for.
OnPage == pc \notin {"idle", "page"} => page = call.rail

\* A set is past its range check, and only a set gets to disable the rail.
Setting == /\ pc # "idle" => Accepted(call)
           /\ pc \in Writing => call.access = "set"

\* The rail is disabled while its registers are written.
Dark == pc \in Writing \ {"off"} => ~chip[page].on

\* The reading lies under the overvoltage warning, so an output that does
\* not rise stays under it; one that rises has moved it before.
Covered == Software /\ Tame(page) =>
  /\ pc \in Writing => cur <= chip[page].lim["ovw"]
  /\ pc \in {"command", "on"} =>
       Nearest(100 * call.volts) <= chip[page].lim["ovw"]

\* What is read of a rail whose requests fit reads as it was written.
ReadWell == pc \in Writing /\ Tame(page) => cur \in Volts

\* The fault limit is far enough out before the warning limit is moved.
FaultMoved == pc \in {"warn?", "warn!"} /\ Tame(page) =>
  IF Up THEN Nearest(103 * call.volts) <= chip[page].lim["ovf"]
        ELSE chip[page].lim["uvf"] <= Nearest(97 * call.volts)

\* A limit is written only when the one in the register is too tight.
Tight == /\ pc = "fault!" => MustMove(FaultLimit, FaultPct)
         /\ pc = "warn!" => MustMove(WarnLimit, WarnPct)

Commanded ==
  pc = "on" => chip[page].vout \in Sent(Nearest(100 * call.volts))

\* What the safety invariants say of the registers of rail r.
Sound(r, reg) ==
  /\ Tame(r) =>
       /\ reg \in Readable
       /\ Software /\ reg.on => reg.vout <= reg.lim["ovw"]
       /\ reg.lim["ovw"] <= reg.lim["ovf"]
       /\ reg.lim["uvf"] <= reg.lim["uvw"]
  /\ Within(r, reg.vout)

IInv == /\ TypeOK /\ OnPage /\ Setting /\ Dark /\ Covered /\ ReadWell
        /\ FaultMoved /\ Tight /\ Commanded
        /\ \A r \in Rails : Sound(r, chip[r])

-----------------------------------------------------------------------------
(* Facts about the rounding and the register arithmetic.                   *)

\* Division by a positive number, as a product with a rest.
LEMMA Quotient ==
  ASSUME NEW a \in Int, NEW d \in Nat \ {0}
  PROVE  \E q \in Int, t \in 0 .. d - 1 : q = a \div d /\ a = d * q + t
OBVIOUS

\* Rounding moves a number by at most half a unit, and not across zero.
LEMMA HalfUnit ==
  ASSUME NEW n \in Int, NEW d \in Nat \ {0}, d = 100 * Parts
  PROVE  /\ Nearest(n) \in Int
         /\ 2 * n - d <= 2 * (d * Nearest(n))
         /\ 2 * (d * Nearest(n)) <= 2 * n + d
         /\ n >= 0 => /\ Nearest(n) >= 0
                      /\ 2 * n - d < 2 * (d * Nearest(n))
         /\ n < 0 => /\ Nearest(n) <= 0
                     /\ 2 * (d * Nearest(n)) < 2 * n + d
<1>1. PICK h \in Nat \ {0} : h = 50 * Parts /\ d = 2 * h
  BY UnitAssumption
<1>2. CASE n >= 0
  <2>0. PICK a \in Int : a = n + h
    BY <1>1
  <2>1. PICK q \in Int, t \in 0 .. d - 1 :
          q = (n + h) \div d /\ n + h = d * q + t
    BY <2>0, Quotient
  <2>2. Nearest(n) = q
    BY <1>1, <1>2, <2>1 DEF Nearest
  <2>3. q >= 0
    <3>1. SUFFICES ASSUME q <= -1 PROVE FALSE
      BY <2>1
    <3>2. d * q <= -d
      BY <2>1, <3>1
    <3> QED BY <1>1, <1>2, <2>1, <3>2
  <2> QED BY <1>1, <1>2, <2>1, <2>2, <2>3
<1>3. CASE n < 0
  <2>0. PICK a \in Int : a = h - n
    BY <1>1
  <2>1. PICK q \in Int, t \in 0 .. d - 1 :
          q = (h - n) \div d /\ h - n = d * q + t
    BY <2>0, Quotient
  <2>2. Nearest(n) = -q
    BY <1>1, <1>3, <2>1 DEF Nearest
  <2>3. q >= 0
    <3>1. SUFFICES ASSUME q <= -1 PROVE FALSE
      BY <2>1
    <3>2. d * q <= -d
      BY <2>1, <3>1
    <3> QED BY <1>1, <1>3, <2>1, <3>2
  <2>4. d * (-q) = -(d * q)
    BY <2>1
  <2> QED BY <1>1, <1>3, <2>1, <2>2, <2>3, <2>4
<1> QED BY <1>2, <1>3

\* Rounding keeps the order.
LEMMA Monotone ==
  ASSUME NEW m \in Int, NEW n \in Int, m <= n
  PROVE  Nearest(m) <= Nearest(n)
<1>1. PICK d \in Nat \ {0} : d = 100 * Parts
  BY UnitAssumption
<1>2. PICK p \in Int, q \in Int : p = Nearest(m) /\ q = Nearest(n)
  BY <1>1, HalfUnit
<1>3. SUFFICES ASSUME p >= q + 1 PROVE FALSE
  BY <1>2
<1>4. d * p >= d * q + d
  <2>1. PICK e \in Nat : p = q + 1 + e
    BY <1>3
  <2>2. d * p = d * q + d + d * e /\ d * e >= 0
    BY <2>1
  <2> QED BY <2>2
<1>5. CASE m >= 0 \/ n < 0
  <2>1. PICK dp \in Int, dq \in Int :
          dp = d * p /\ dq = d * q /\ dp >= dq + d
    BY <1>4
  <2>2. /\ 2 * m - d <= 2 * dp /\ 2 * dp <= 2 * m + d
        /\ 2 * n - d <= 2 * dq /\ 2 * dq <= 2 * n + d
    <3>1. 2 * m - d <= 2 * (d * p) /\ 2 * (d * p) <= 2 * m + d
      BY <1>1, <1>2, HalfUnit
    <3>2. 2 * n - d <= 2 * (d * q) /\ 2 * (d * q) <= 2 * n + d
      BY <1>1, <1>2, HalfUnit
    <3> QED BY <2>1, <3>1, <3>2
  <2>3. CASE m >= 0
    <3>1. 2 * n - d < 2 * dq
      BY <1>1, <1>2, <2>1, <2>3, HalfUnit
    <3> QED BY <1>1, <2>1, <2>2, <3>1
  <2>4. CASE n < 0
    <3>1. 2 * dp < 2 * m + d
      BY <1>1, <1>2, <2>1, <2>4, HalfUnit
    <3> QED BY <1>1, <2>1, <2>2, <3>1
  <2> QED BY <1>5, <2>3, <2>4
<1>6. CASE m < 0 /\ n >= 0
  <2>1. p <= 0 /\ q >= 0
    BY <1>1, <1>2, <1>6, HalfUnit
  <2> QED BY <1>3, <2>1
<1> QED BY <1>5, <1>6

\* A number on one side of a whole unit is rounded to the same side.
LEMMA Beside ==
  ASSUME NEW n \in Int, NEW k \in Int
  PROVE  /\ n <= 100 * Parts * k => Nearest(n) <= k
         /\ 100 * Parts * k <= n => k <= Nearest(n)
<1>1. PICK d \in Nat \ {0} : d = 100 * Parts
  BY UnitAssumption
<1>2. PICK q \in Int : q = Nearest(n)
  BY <1>1, HalfUnit
<1>3. 2 * n - d <= 2 * (d * q) /\ 2 * (d * q) <= 2 * n + d
  BY <1>1, <1>2, HalfUnit
<1>4. ASSUME n <= d * k PROVE q <= k
  <2>1. SUFFICES ASSUME q >= k + 1 PROVE FALSE
    OBVIOUS
  <2>2. PICK e \in Nat : q = k + 1 + e
    BY <2>1
  <2>3. d * q = d * k + d + d * e /\ d * e >= 0
    BY <2>2
  <2> QED BY <1>3, <1>4, <2>3
<1>5. ASSUME d * k <= n PROVE k <= q
  <2>1. SUFFICES ASSUME k >= q + 1 PROVE FALSE
    OBVIOUS
  <2>2. PICK e \in Nat : k = q + 1 + e
    BY <2>1
  <2>3. d * k = d * q + d + d * e /\ d * e >= 0
    BY <2>2
  <2> QED BY <1>3, <1>5, <2>3
<1> QED BY <1>1, <1>2, <1>4, <1>5

\* A value that fits the signed register is sent and read back as it is.
LEMMA ReadBack ==
  ASSUME NEW n \in Volts
  PROVE  Sent(n) = {n} /\ Signed16(n) = n /\ n \in Nat
<1>1. n \in Nat /\ n <= 32767
  BY DEF Volts
<1>2. n \div 65536 = 0 /\ n % 65536 = n
  BY <1>1
<1> QED BY <1>1, <1>2 DEF Sent, Word16, Signed16, Words

\* Whatever is sent is two bytes.
LEMMA TwoBytes ==
  ASSUME NEW n \in Int
  PROVE  Sent(n) \subseteq Words
<1>1. n % 65536 \in Nat /\ n % 65536 < 65536
  OBVIOUS
<1>2. Word16(n) \in Words
  BY <1>1 DEF Words, Word16
<1>3. 0 \in Words /\ 65535 \in Words
  BY DEF Words
<1>4. CASE n \div 65536 \in Words
  BY <1>2, <1>4 DEF Sent
<1>5. CASE n \div 65536 \notin Words
  BY <1>2, <1>3, <1>5 DEF Sent
<1> QED BY <1>4, <1>5

\* Two bytes are read back as a signed short.
LEMMA ReadShort == ASSUME NEW n \in Words PROVE Signed16(n) \in Shorts
BY DEF Words, Shorts, Signed16

\* An upper limit lies above the voltage, the fault limit above the warning.
LEMMA UpperLimits ==
  ASSUME NEW v \in Nat, Nearest(110 * v) \in Volts
  PROVE  /\ Nearest(100 * v) \in Volts /\ Nearest(103 * v) \in Volts
         /\ Nearest(100 * v) <= Nearest(103 * v)
         /\ Nearest(103 * v) <= Nearest(110 * v)
<1>1. PICK a \in Int, b \in Int, c \in Int :
        a = 100 * v /\ b = 103 * v /\ c = 110 * v /\ 0 <= a
        /\ a <= b /\ b <= c
  OBVIOUS
<1>2. Nearest(a) <= Nearest(b) /\ Nearest(b) <= Nearest(c)
  BY <1>1, Monotone
<1>3. Nearest(a) \in Int /\ Nearest(a) >= 0 /\ Nearest(b) \in Int
  <2>1. PICK d \in Nat \ {0} : d = 100 * Parts
    BY UnitAssumption
  <2>2. Nearest(a) \in Int /\ Nearest(a) >= 0
    BY <1>1, <2>1, HalfUnit
  <2>3. Nearest(b) \in Int
    BY <2>1, HalfUnit
  <2> QED BY <2>2, <2>3
<1> QED BY <1>1, <1>2, <1>3 DEF Volts

\* A lower limit lies below the voltage, the fault limit below the warning.
LEMMA LowerLimits ==
  ASSUME NEW v \in Nat, Nearest(100 * v) \in Volts
  PROVE  /\ Nearest(97 * v) \in Volts /\ Nearest(90 * v) \in Volts
         /\ Nearest(97 * v) <= Nearest(100 * v)
         /\ Nearest(90 * v) <= Nearest(97 * v)
<1>1. PICK a \in Int, b \in Int, c \in Int :
        a = 90 * v /\ b = 97 * v /\ c = 100 * v /\ 0 <= a
        /\ a <= b /\ b <= c
  OBVIOUS
<1>2. Nearest(a) <= Nearest(b) /\ Nearest(b) <= Nearest(c)
  BY <1>1, Monotone
<1>3. Nearest(a) \in Int /\ Nearest(a) >= 0 /\ Nearest(b) \in Int
  <2>1. PICK d \in Nat \ {0} : d = 100 * Parts
    BY UnitAssumption
  <2>2. Nearest(a) \in Int /\ Nearest(a) >= 0
    BY <1>1, <2>1, HalfUnit
  <2>3. Nearest(b) \in Int
    BY <2>1, HalfUnit
  <2> QED BY <2>2, <2>3
<1> QED BY <1>1, <1>2, <1>3 DEF Volts

\* An upper limit that stays where it is, and one that moves.
LEMMA UpperMoves ==
  ASSUME NEW v \in Nat, NEW now \in Nat
  PROVE  /\ ~(100 * Parts * now < 110 * v) => Nearest(103 * v) <= now
         /\ ~(100 * Parts * now < 103 * v) => Nearest(100 * v) <= now
         /\ 100 * Parts * now < 110 * v => now <= Nearest(110 * v)
         /\ 100 * Parts * now < 103 * v => now <= Nearest(103 * v)
<1>1. PICK n \in Int : n = 100 * Parts * now
  BY UnitAssumption
<1>2. /\ ~(n < 110 * v) => 103 * v <= n
      /\ ~(n < 103 * v) => 100 * v <= n
  OBVIOUS
<1> QED BY <1>1, <1>2, Beside

\* A lower limit that stays where it is, and one that moves.
LEMMA LowerMoves ==
  ASSUME NEW v \in Nat, NEW now \in Nat
  PROVE  /\ ~(100 * Parts * now > 90 * v) => now <= Nearest(97 * v)
         /\ ~(100 * Parts * now > 97 * v) => now <= Nearest(100 * v)
         /\ 100 * Parts * now > 90 * v => Nearest(90 * v) <= now
         /\ 100 * Parts * now > 97 * v => Nearest(97 * v) <= now
<1>1. PICK n \in Int : n = 100 * Parts * now
  BY UnitAssumption
<1>2. /\ ~(n > 90 * v) => n <= 97 * v
      /\ ~(n > 97 * v) => n <= 100 * v
  OBVIOUS
<1> QED BY <1>1, <1>2, Beside

\* Which way the output moves, in units.
LEMMA Direction ==
  ASSUME NEW v \in Int, NEW c \in Int
  PROVE  /\ v > Parts * c => c <= Nearest(100 * v)
         /\ ~(v > Parts * c) => Nearest(100 * v) <= c
<1>1. PICK k \in Int : k = Parts * c /\ 100 * Parts * c = 100 * k
  BY UnitAssumption
<1> QED BY <1>1, Beside

\* The requests to a rail with a range fit, and stay within half a unit.
LEMMA RangeFits == ASSUME NEW r \in Limited PROVE Tame(r)
<1> SUFFICES ASSUME NEW v \in Requests, InRange(r, v)
             PROVE  v \in Nat /\ Nearest(110 * v) \in Volts
  BY DEF Tame
<1>1. PICK lo \in Nat, hi \in Nat :
        lo = MinVolt[r] /\ hi = MaxVolt[r] /\ Nearest(110 * hi) \in Volts
  BY RangeAssumption
<1>2. v \in Int /\ lo <= v /\ v <= hi
  BY <1>1, UnitAssumption DEF InRange
<1>3. PICK a \in Int, b \in Int :
        a = 110 * v /\ b = 110 * hi /\ 0 <= a /\ a <= b
  BY <1>1, <1>2
<1>4. PICK d \in Nat \ {0} : d = 100 * Parts
  BY UnitAssumption
<1>5. Nearest(a) \in Int /\ Nearest(a) >= 0
  BY <1>3, <1>4, HalfUnit
<1>6. Nearest(a) <= Nearest(b)
  BY <1>3, Monotone
<1> QED BY <1>1, <1>2, <1>3, <1>5, <1>6 DEF Volts

LEMMA RangeKept ==
  ASSUME NEW r \in Rails, NEW v \in Int, InRange(r, v)
  PROVE  Within(r, Nearest(100 * v))
<1> SUFFICES ASSUME r \in Limited
             PROVE  /\ 2 * MinVolt[r] - Parts
                         <= 2 * Parts * Nearest(100 * v)
                    /\ 2 * Parts * Nearest(100 * v)
                         <= 2 * MaxVolt[r] + Parts
  BY DEF Within
<1>1. PICK lo \in Nat, hi \in Nat : lo = MinVolt[r] /\ hi = MaxVolt[r]
  BY RangeAssumption
<1>2. lo <= v /\ v <= hi
  BY <1>1 DEF InRange
<1>3. PICK d \in Nat \ {0}, p \in Nat \ {0} : p = Parts /\ d = 100 * p
  BY UnitAssumption
<1>4. PICK n \in Int : n = 100 * v
  OBVIOUS
<1>5. PICK q \in Int :
        /\ q = Nearest(n)
        /\ 2 * n - d <= 2 * (d * q) /\ 2 * (d * q) <= 2 * n + d
  BY <1>3, HalfUnit
<1>6. d * q = 100 * (p * q)
  BY <1>3
<1>7. 2 * v - p <= 2 * (p * q) /\ 2 * (p * q) <= 2 * v + p
  <2>1. PICK z \in Int : z = p * q
    OBVIOUS
  <2> QED BY <1>3, <1>4, <1>5, <1>6, <2>1
<1>8. 2 * p * q = 2 * (p * q)
  OBVIOUS
<1> QED BY <1>1, <1>2, <1>3, <1>4, <1>5, <1>7, <1>8

\* The margin of a voltage that is not negative needs no clip.
LEMMA NoClip ==
  ASSUME call.volts \in Nat, NEW pct \in Nat
  PROVE  Target(pct) = pct * call.volts
<1>1. PICK v \in Nat : v = call.volts
  OBVIOUS
<1>2. pct * v >= 0
  OBVIOUS
<1> QED BY <1>1, <1>2 DEF Target

\* A new limit is a number.
LEMMA TargetInt ==
  ASSUME call.volts \in Int, NEW pct \in Nat
  PROVE  Target(pct) \in Int /\ Nearest(Target(pct)) \in Int
<1>1. Target(pct) \in Int
  BY DEF Target
<1> QED BY <1>1, HalfUnit, UnitAssumption

-----------------------------------------------------------------------------
(* The initial states and the steps, one lemma for each kind of step.      *)

\* The power-up settings are sound, and no call is in progress.
LEMMA InitIInv == Init => IInv
<1> SUFFICES ASSUME Init PROVE IInv
  OBVIOUS
<1>1. Readable \subseteq Registers
  BY DEF Readable, Registers, Volts, Words
<1>2. \A r \in Rails : chip[r] \in Readable
  BY PowerUpAssumption DEF Init
<1>3. chip \in [Rails -> Registers]
  <2>1. PowerUp \in [Rails -> Registers]
    BY <1>1, PowerUpAssumption
  <2> QED BY <2>1 DEF Init
<1>4. TypeOK
  BY <1>2, <1>3 DEF Init, TypeOK, Labels, Shorts
<1>5. \A r \in Rails : Sound(r, chip[r])
  <2> TAKE r \in Rails
  <2>1. /\ PowerUp[r] \in Readable /\ Within(r, PowerUp[r].vout)
        /\ PowerUp[r].lim["uvf"] <= PowerUp[r].lim["uvw"]
        /\ PowerUp[r].vout <= PowerUp[r].lim["ovw"]
        /\ PowerUp[r].lim["ovw"] <= PowerUp[r].lim["ovf"]
    BY PowerUpAssumption
  <2> QED
    BY <2>1 DEF Init, Sound
<1>6. pc = "idle"
  BY DEF Init
<1> QED
  BY <1>4, <1>5, <1>6 DEF IInv, OnPage, Setting, Dark, Covered, ReadWell,
     FaultMoved, Tight, Commanded, Writing

\* A call that returns leaves only the registers to look at.
LEMMA Returned ==
  ASSUME IInv, pc' = "idle", page' \in Rails, call' \in Calls,
         cur' \in Shorts, ret' \in {"none", "ok", "error"},
         chip' \in [Rails -> Registers],
         \A r \in Rails : Sound(r, chip'[r])
  PROVE  IInv'
<1>1. TypeOK'
  BY DEF TypeOK, Labels, Sound
<1>2. (\A r \in Rails : Sound(r, chip[r]))'
  BY DEF Sound
<1> QED
  BY <1>1, <1>2 DEF IInv, OnPage, Setting, Dark, Covered, ReadWell,
     FaultMoved, Tight, Commanded, Writing

\* A register write that leaves the rail sound leaves the chip sound.
LEMMA SoundWrite ==
  ASSUME IInv, NEW reg \in Registers, Sound(page, reg), Write(reg)
  PROVE  /\ chip' \in [Rails -> Registers]
         /\ chip'[page] = reg
         /\ \A r \in Rails : Sound(r, chip'[r])
<1>1. /\ page \in Rails /\ chip \in [Rails -> Registers]
      /\ \A r \in Rails : Sound(r, chip[r])
  BY DEF IInv, TypeOK
<1>2. chip' = [chip EXCEPT ![page] = reg]
  BY DEF Write
<1> QED
  BY <1>1, <1>2

\* The failure branches of the transactions.
LEMMA FailReadIInv == ASSUME IInv, FailRead PROVE IInv'
<1>1. /\ pc' = "idle" /\ ret' = "error"
      /\ page' = page /\ chip' = chip /\ call' = call /\ cur' = cur
  BY DEF FailRead, Return
<1>2. /\ page \in Rails /\ call \in Calls /\ cur \in Shorts
      /\ chip \in [Rails -> Registers] /\ \A r \in Rails : Sound(r, chip[r])
  BY DEF IInv, TypeOK
<1> QED
  BY <1>1, <1>2, Returned

\* A write that fails, whether or not it reached the register.
LEMMA FailWriteIInv ==
  ASSUME IInv, NEW reg \in Registers, Sound(page, reg), FailWrite(reg)
  PROVE  IInv'
<1>1. /\ pc' = "idle" /\ ret' = "error"
      /\ Write(reg) \/ UNCHANGED chip
      /\ page' = page /\ call' = call /\ cur' = cur
  BY DEF FailWrite, Return
<1>2. /\ page \in Rails /\ call \in Calls /\ cur \in Shorts
      /\ chip \in [Rails -> Registers] /\ \A r \in Rails : Sound(r, chip[r])
  BY DEF IInv, TypeOK
<1>3. chip' \in [Rails -> Registers] /\ \A r \in Rails : Sound(r, chip'[r])
  <2>1. CASE Write(reg)
    BY <2>1, SoundWrite
  <2>2. CASE UNCHANGED chip
    BY <1>2, <2>2
  <2> QED
    BY <1>1, <2>1, <2>2
<1> QED
  BY <1>1, <1>2, <1>3, Returned

\* A call begins with its range check, and touches nothing.
LEMMA StartIInv ==
  ASSUME IInv, NEW c \in Calls, Start(c)
  PROVE  IInv'
<1>1. TypeOK'
  BY DEF IInv, TypeOK, Start, Labels, FirstStep, AfterPage
<1>2. (\A r \in Rails : Sound(r, chip[r]))'
  BY DEF IInv, Start, Sound
<1>3. pc' \in {"idle", "page", "mode", "vout"}
  BY DEF Start, FirstStep, AfterPage
<1>5. Setting'
  BY <1>3 DEF Setting, Start, Accepted, InRange, Writing
<1>4. OnPage'
  <2>1. CASE Paged
    BY <2>1 DEF OnPage, Start, FirstStep
  <2>2. CASE ~Paged
    BY <2>2, RailsAssumption DEF OnPage, Start, IInv, TypeOK, Calls
  <2> QED
    BY <2>1, <2>2
<1> QED
  BY <1>1, <1>2, <1>3, <1>4, <1>5 DEF IInv, Dark, Covered, ReadWell,
     FaultMoved, Tight, Commanded, Writing

\* The daemon dies, or the bus device cannot be opened.
LEMMA GiveUpIInv ==
  ASSUME IInv, Die \/ \E c \in Calls : OpenFails(c)
  PROVE  IInv'
<1>1. /\ pc' = "idle" /\ ret' \in {"none", "error"} /\ call' \in Calls
      /\ page' = page /\ chip' = chip /\ cur' = cur
  BY DEF Die, OpenFails, IInv, TypeOK
<1>2. /\ page \in Rails /\ cur \in Shorts
      /\ chip \in [Rails -> Registers] /\ \A r \in Rails : Sound(r, chip[r])
  BY DEF IInv, TypeOK
<1>3. ret' \in {"none", "ok", "error"}
  BY <1>1
<1> QED
  BY <1>1, <1>2, <1>3, Returned

\* Steps that go on and write no register.
LEMMA Moved ==
  ASSUME IInv, pc' \in Labels, call' = call, ret' = ret, page' = page,
         chip' = chip, cur' \in Shorts
  PROVE  TypeOK' /\ (\A r \in Rails : Sound(r, chip[r]))'
BY DEF IInv, TypeOK, Sound

\* The page of the rail asked for is selected, or the call ends.
LEMMA SelectPageIInv == ASSUME IInv, SelectPage PROVE IInv'
<1>1. CASE page' = call.rail /\ Goto(AfterPage) /\ UNCHANGED <<chip, cur>>
  <2>1. pc' \in {"mode", "vout"}
    BY <1>1 DEF Goto, AfterPage
  <2>2. TypeOK' /\ (\A r \in Rails : Sound(r, chip[r]))'
    BY <1>1, <2>1 DEF IInv, TypeOK, Sound, Goto, Labels, Calls
  <2>3. OnPage'
    BY <1>1 DEF OnPage, Goto
  <2>4. Setting'
    BY <1>1, <2>1
    DEF IInv, Setting, SelectPage, Goto, Accepted, InRange, Writing
  <2> QED
    BY <2>1, <2>2, <2>3, <2>4 DEF IInv, Dark, Covered, ReadWell, FaultMoved,
       Tight, Commanded, Writing
<1>2. CASE /\ Return("error") /\ page' \in {page, call.rail}
           /\ UNCHANGED <<chip, cur>>
  <2>1. /\ pc' = "idle" /\ ret' = "error" /\ chip' = chip /\ call' = call
        /\ cur' = cur
    BY <1>2 DEF Return
  <2>2. /\ page' \in Rails /\ call \in Calls /\ cur \in Shorts
        /\ chip \in [Rails -> Registers] /\ \A r \in Rails : Sound(r, chip[r])
    BY <1>2 DEF IInv, TypeOK, Calls
  <2> QED
    BY <2>1, <2>2, Returned
<1> QED
  BY <1>1, <1>2 DEF SelectPage

\* Reading the data format changes nothing.
LEMMA ReadModeIInv == ASSUME IInv, ReadMode PROVE IInv'
<1>1. CASE Goto("vout") /\ UNCHANGED <<page, chip, cur>>
  <2>1. pc = "mode" /\ pc' = "vout"
    BY <1>1 DEF ReadMode, Goto
  <2>2. TypeOK' /\ (\A r \in Rails : Sound(r, chip[r]))'
    BY <1>1, Moved DEF IInv, TypeOK, Goto, Labels
  <2>3. OnPage'
    BY <1>1, <2>1 DEF IInv, OnPage, Goto
  <2>4. Setting'
    BY <1>1, <2>1 DEF IInv, Setting, Goto, Accepted, InRange, Writing
  <2> QED
    BY <2>1, <2>2, <2>3, <2>4 DEF IInv, Dark, Covered, ReadWell, FaultMoved,
       Tight, Commanded, Writing
<1> QED
  BY <1>1, FailReadIInv DEF ReadMode

\* Reading the limits changes nothing.
LEMMA ReadLimitsIInv == ASSUME IInv, ReadLimits PROVE IInv'
<1>1. CASE Return("ok") /\ UNCHANGED <<page, chip, cur>>
  <2>1. /\ pc' = "idle" /\ ret' = "ok"
        /\ page' = page /\ chip' = chip /\ call' = call /\ cur' = cur
    BY <1>1 DEF Return
  <2>2. /\ page \in Rails /\ call \in Calls /\ cur \in Shorts
        /\ chip \in [Rails -> Registers] /\ \A r \in Rails : Sound(r, chip[r])
    BY DEF IInv, TypeOK
  <2> QED
    BY <2>1, <2>2, Returned
<1> QED
  BY <1>1, FailReadIInv DEF ReadLimits

\* The reading is under the overvoltage warning of the rail.
LEMMA ReadCurrentIInv == ASSUME IInv, ReadCurrent PROVE IInv'
<1> DEFINE now == ReadVout
<1>1. /\ chip[page] \in Registers /\ Sound(page, chip[page])
      /\ page \in Rails /\ call \in Calls
  BY DEF IInv, TypeOK
<1>2. now \in Words /\ Signed16(now) \in Shorts
  <2>1. now \in Words
    BY <1>1 DEF ReadVout, Registers, Words
  <2> QED BY <2>1, ReadShort
<1>3. ASSUME Tame(page)
      PROVE  /\ now \in Volts /\ Signed16(now) = now
             /\ Software => now <= chip[page].lim["ovw"]
  <2>1. chip[page] \in Readable
    BY <1>1, <1>3 DEF Sound
  <2>2. chip[page].lim["ovw"] \in Nat /\ chip[page].vout \in Volts
    BY <2>1 DEF Readable, Volts, Limits
  <2>3. CASE chip[page].on
    BY <1>1, <1>3, <2>2, <2>3, ReadBack DEF ReadVout, Sound
  <2>4. CASE ~chip[page].on
    <3>1. now = 0 /\ 0 \in Volts
      BY <2>4 DEF ReadVout, Volts
    <3> QED BY <2>2, <3>1, ReadBack
  <2> QED
    BY <2>3, <2>4
<1>4. CASE cur' = Signed16(now) /\ call.access = "get" /\ Return("ok")
           /\ UNCHANGED <<page, chip>>
  <2>1. /\ pc' = "idle" /\ ret' = "ok" /\ cur' \in Shorts
        /\ page' = page /\ chip' = chip /\ call' = call
    BY <1>2, <1>4 DEF Return
  <2>2. /\ chip \in [Rails -> Registers]
        /\ \A r \in Rails : Sound(r, chip[r])
    BY DEF IInv, TypeOK
  <2> QED
    BY <1>1, <2>1, <2>2, Returned
<1>5. ASSUME NEW next \in {"off", "limits"}, cur' = Signed16(now), Goto(next),
             UNCHANGED <<page, chip>>, pc = "vout",
             next = "off" => call.access = "set"
      PROVE  IInv'
  <2>1. TypeOK' /\ (\A r \in Rails : Sound(r, chip[r]))'
    BY <1>2, <1>5, Moved DEF Goto, Labels
  <2>2. OnPage'
    BY <1>5 DEF IInv, OnPage, Goto
  <2>3. Setting'
    BY <1>5 DEF IInv, Setting, Goto, Accepted, InRange, Writing
  <2>4. Covered' /\ ReadWell'
    BY <1>3, <1>5 DEF Covered, ReadWell, Goto, Software
  <2> QED
    BY <1>5, <2>1, <2>2, <2>3, <2>4 DEF IInv, Dark, FaultMoved, Tight,
       Commanded, Writing, Goto
<1> QED
  BY <1>4, <1>5, FailReadIInv DEF ReadCurrent

\* What is known of the request and of the rail while a set is under way.
LEMMA UnderWay ==
  ASSUME IInv, pc \in Writing
  PROVE  /\ call.volts \in Int /\ InRange(page, call.volts)
         /\ page \in Rails /\ page = call.rail /\ cur \in Shorts
         /\ chip[page] \in Registers /\ Sound(page, chip[page])
<1>1. /\ page \in Rails /\ chip[page] \in Registers
      /\ Sound(page, chip[page]) /\ cur \in Shorts
      /\ call \in Calls /\ pc \notin {"idle", "page"}
  BY DEF IInv, TypeOK, Writing
<1>2. page = call.rail /\ call.access = "set" /\ Accepted(call)
  BY <1>1 DEF IInv, OnPage, Setting
<1>3. call.volts \in Requests /\ InRange(page, call.volts)
  BY <1>1, <1>2 DEF Calls, Accepted
<1> QED
  BY <1>1, <1>2, <1>3, UnitAssumption

\* What is known besides when the requests to that rail fit its registers.
LEMMA Fitting ==
  ASSUME IInv, pc \in Writing, Tame(page)
  PROVE  /\ call.volts \in Nat /\ cur \in Volts
         /\ Nearest(110 * call.volts) \in Volts
         /\ Nearest(103 * call.volts) \in Volts
         /\ Nearest(100 * call.volts) \in Volts
         /\ chip[page] \in Readable
         /\ \A l \in Limits : chip[page].lim[l] \in Volts
<1>1. page \in Rails /\ call \in Calls /\ call.access = "set"
      /\ InRange(page, call.volts)
  BY UnderWay DEF IInv, TypeOK, Setting
<1>2. call.volts \in Requests
  BY <1>1 DEF Calls
<1>3. call.volts \in Nat /\ Nearest(110 * call.volts) \in Volts
  BY <1>1, <1>2 DEF Tame
<1>4. cur \in Volts /\ chip[page] \in Readable
  BY <1>1 DEF IInv, ReadWell, Sound
<1> QED
  BY <1>3, <1>4, UpperLimits DEF Readable

\* A rail whose requests do not all fit has no range, and nothing to keep.
LEMMA Wild ==
  ASSUME NEW r, ~Tame(r), NEW reg
  PROVE  Sound(r, reg)
BY RangeFits DEF Sound, Within

\* The rail is disabled before anything else is written.
LEMMA DisableIInv == ASSUME IInv, Disable PROVE IInv'
<1> DEFINE reg == [chip[page] EXCEPT !.on = FALSE]
<1>1. pc = "off" /\ pc \in Writing
  BY DEF Disable, Writing
<1>2. reg \in Registers /\ Sound(page, reg) /\ ~reg.on
      /\ reg.lim = chip[page].lim
  BY <1>1, UnderWay DEF Sound, Registers, Readable
<1>3. CASE Write(reg) /\ Goto(AfterDisable) /\ UNCHANGED <<page, cur>>
  <2>1. /\ chip' \in [Rails -> Registers] /\ chip'[page] = reg
        /\ \A r \in Rails : Sound(r, chip'[r])
    BY <1>2, <1>3, SoundWrite
  <2>2. pc' \in {"command", "fault?"} /\ (pc' = "command" => ~Software)
    BY <1>3, KindAssumption DEF Goto, AfterDisable, Software, Formats
  <2>3. TypeOK' /\ (\A r \in Rails : Sound(r, chip[r]))'
    BY <1>3, <2>1, <2>2 DEF IInv, TypeOK, Goto, Labels, Sound
  <2>5. OnPage' /\ Setting'
    BY <1>1, <1>3, <2>2 DEF IInv, OnPage, Setting, Goto, Accepted, InRange,
       Writing
  <2>6. Dark' /\ ReadWell'
    BY <1>1, <1>2, <1>3, <2>1 DEF IInv, Dark, ReadWell
  <2>7. Covered'
    BY <1>1, <1>2, <1>3, <2>1, <2>2 DEF IInv, Covered, Software
  <2> QED
    BY <2>2, <2>3, <2>5, <2>6, <2>7 DEF IInv, FaultMoved, Tight,
       Commanded
<1> QED
  BY <1>2, <1>3, FailWriteIInv DEF Disable

\* The reading of a fault limit decides whether it is written.
LEMMA ReadFaultIInv == ASSUME IInv, ReadFault PROVE IInv'
<1> DEFINE next == IF MustMove(FaultLimit, FaultPct) THEN "fault!" ELSE "warn?"
<1>1. pc = "fault?" /\ pc \in Writing
  BY DEF ReadFault, ReadLimit, Writing
<1>2. CASE Goto(next) /\ UNCHANGED <<page, chip, cur>>
  <2>1. pc' = next /\ next \in {"fault!", "warn?"}
    BY <1>2 DEF Goto
  <2>2. TypeOK' /\ (\A r \in Rails : Sound(r, chip[r]))'
    BY <1>2, <2>1, Moved DEF IInv, TypeOK, Goto, Labels
  <2>3. OnPage' /\ Setting' /\ Dark' /\ Covered' /\ ReadWell'
    BY <1>1, <1>2, <2>1 DEF IInv, OnPage, Setting, Dark, Covered, ReadWell,
       Goto, Accepted, InRange, Writing, Software
  <2>4. Tight'
    BY <1>2, <2>1 DEF Tight, Goto, MustMove, FaultLimit, FaultPct, Up, Target
  <2>5. FaultMoved'
    <3>1. CASE MustMove(FaultLimit, FaultPct)
      BY <1>2, <2>1, <3>1 DEF FaultMoved
    <3>2. CASE ~MustMove(FaultLimit, FaultPct)
      <4> SUFFICES ASSUME Tame(page)
                   PROVE  IF Up THEN Nearest(103 * call.volts)
                                       <= chip[page].lim["ovf"]
                                ELSE chip[page].lim["uvf"]
                                       <= Nearest(97 * call.volts)
        BY <1>2 DEF FaultMoved, Up, Goto
      <4>1. /\ call.volts \in Nat
            /\ \A l \in Limits : chip[page].lim[l] \in Volts
        BY <1>1, Fitting
      <4>2. PICK v \in Nat : v = call.volts
        BY <4>1
      <4>3. CASE Up
        <5>1. PICK now \in Nat : now = chip[page].lim["ovf"]
                                 /\ Signed16(now) = now
          BY <4>1, ReadBack DEF Limits
        <5>2. ~(100 * Parts * now < 110 * v)
          BY <3>2, <4>1, <4>2, <4>3, <5>1, NoClip
          DEF MustMove, FaultLimit, FaultPct
        <5> QED
          BY <4>2, <4>3, <5>1, <5>2, UpperMoves
      <4>4. CASE ~Up
        <5>1. PICK now \in Nat : now = chip[page].lim["uvf"]
                                 /\ Signed16(now) = now
          BY <4>1, ReadBack DEF Limits
        <5>2. ~(100 * Parts * now > 90 * v)
          BY <3>2, <4>1, <4>2, <4>4, <5>1, NoClip
          DEF MustMove, FaultLimit, FaultPct
        <5> QED
          BY <4>2, <4>4, <5>1, <5>2, LowerMoves
      <4> QED
        BY <4>3, <4>4
    <3> QED
      BY <3>1, <3>2
  <2> QED
    BY <2>1, <2>2, <2>3, <2>4, <2>5 DEF IInv, Commanded
<1> QED
  BY <1>2, FailReadIInv DEF ReadFault, ReadLimit

\* The word for a fault limit lies outside the limit it replaces, and
\* outside the new warning limit.
LEMMA FaultWord ==
  ASSUME IInv, pc = "fault!", Tame(page),
         NEW w \in Sent(Nearest(Target(FaultPct)))
  PROVE  /\ w \in Volts
         /\ Up => /\ chip[page].lim["ovf"] <= w
                  /\ Nearest(103 * call.volts) <= w
         /\ ~Up => /\ w <= chip[page].lim["uvf"]
                   /\ w <= Nearest(97 * call.volts)
<1>1. /\ call.volts \in Nat
      /\ Nearest(110 * call.volts) \in Volts
      /\ Nearest(100 * call.volts) \in Volts
      /\ \A l \in Limits : chip[page].lim[l] \in Volts
  BY Fitting DEF Writing
<1>2. MustMove(FaultLimit, FaultPct)
  BY DEF IInv, Tight
<1>3. PICK v \in Nat : v = call.volts
  BY <1>1
<1>4. CASE Up
  <2>1. PICK now \in Nat : now = chip[page].lim["ovf"]
                           /\ Signed16(now) = now
    BY <1>1, ReadBack DEF Limits
  <2>2. Target(110) = 110 * v /\ FaultPct = 110
    BY <1>1, <1>3, <1>4, NoClip DEF FaultPct
  <2>3. 100 * Parts * now < 110 * v
    BY <1>2, <1>4, <2>1, <2>2 DEF MustMove, FaultLimit
  <2>4. w = Nearest(110 * v)
    BY <1>1, <1>3, <2>2, ReadBack
  <2> QED
    BY <1>1, <1>3, <1>4, <2>1, <2>3, <2>4, UpperMoves, UpperLimits
<1>5. CASE ~Up
  <2>1. PICK now \in Nat : now = chip[page].lim["uvf"]
                           /\ Signed16(now) = now
    BY <1>1, ReadBack DEF Limits
  <2>2. Target(90) = 90 * v /\ FaultPct = 90
    BY <1>1, <1>3, <1>5, NoClip DEF FaultPct
  <2>3. 100 * Parts * now > 90 * v
    BY <1>2, <1>5, <2>1, <2>2 DEF MustMove, FaultLimit
  <2>4. Nearest(90 * v) \in Volts /\ Nearest(90 * v) <= Nearest(97 * v)
    BY <1>1, <1>3, LowerLimits
  <2>5. w = Nearest(90 * v)
    BY <2>2, <2>4, ReadBack
  <2> QED
    BY <1>3, <1>5, <2>1, <2>3, <2>4, <2>5, LowerMoves
<1> QED BY <1>4, <1>5

\* The fault limit moves outwards, over the warning limit.
LEMMA WriteFaultIInv == ASSUME IInv, WriteFault PROVE IInv'
<1>1. pc = "fault!" /\ pc \in Writing
  BY DEF WriteFault, WriteLimit, Writing
<1>2. PICK w \in Sent(Nearest(Target(FaultPct))) :
        LET reg == [chip[page] EXCEPT !.lim[FaultLimit] = w] IN
        \/ Write(reg) /\ Goto("warn?") /\ UNCHANGED <<page, cur>>
        \/ FailWrite(reg)
  BY DEF WriteFault, WriteLimit
<1> DEFINE reg == [chip[page] EXCEPT !.lim[FaultLimit] = w]
<1>3. /\ call.volts \in Int /\ page \in Rails /\ chip[page] \in Registers
      /\ Sound(page, chip[page])
  BY <1>1, UnderWay
<1>4. w \in Words
  <2>1. FaultPct \in Nat
    BY DEF FaultPct
  <2> QED BY <1>3, <2>1, TargetInt, TwoBytes
<1>5. ~chip[page].on
  BY <1>1 DEF IInv, Dark, Writing
<1>6. /\ reg \in Registers /\ ~reg.on /\ reg.vout = chip[page].vout
      /\ reg.lim = [chip[page].lim EXCEPT ![FaultLimit] = w]
  BY <1>3, <1>4, <1>5 DEF Registers, FaultLimit, Limits
<1>7. ASSUME Tame(page)
      PROVE  /\ Sound(page, reg) /\ reg.lim["ovw"] = chip[page].lim["ovw"]
             /\ Up => Nearest(103 * call.volts) <= reg.lim["ovf"]
             /\ ~Up => reg.lim["uvf"] <= Nearest(97 * call.volts)
  <2>1. /\ w \in Volts
        /\ Up => /\ chip[page].lim["ovf"] <= w
                 /\ Nearest(103 * call.volts) <= w
        /\ ~Up => /\ w <= chip[page].lim["uvf"]
                  /\ w <= Nearest(97 * call.volts)
    BY <1>1, <1>7, FaultWord
  <2>2. chip[page] \in Readable
    BY <1>3, <1>7 DEF Sound
  <2>3. /\ chip[page].lim \in [Limits -> Volts] /\ w \in Nat
        /\ chip[page].lim["ovw"] \in Nat /\ chip[page].lim["ovf"] \in Nat
        /\ chip[page].lim["uvw"] \in Nat /\ chip[page].lim["uvf"] \in Nat
    BY <2>1, <2>2 DEF Readable, Limits, Volts
  <2>4. reg \in Readable
    BY <2>1, <2>2 DEF Readable, FaultLimit, Limits
  <2>5. CASE Up
    <3>1. /\ reg.lim["ovf"] = w /\ reg.lim["ovw"] = chip[page].lim["ovw"]
          /\ reg.lim["uvw"] = chip[page].lim["uvw"]
          /\ reg.lim["uvf"] = chip[page].lim["uvf"]
      BY <1>6, <2>3, <2>5 DEF FaultLimit, Limits
    <3> QED
      BY <1>3, <1>6, <1>7, <2>1, <2>3, <2>4, <2>5, <3>1 DEF Sound
  <2>6. CASE ~Up
    <3>1. /\ reg.lim["uvf"] = w /\ reg.lim["ovw"] = chip[page].lim["ovw"]
          /\ reg.lim["uvw"] = chip[page].lim["uvw"]
          /\ reg.lim["ovf"] = chip[page].lim["ovf"]
      BY <1>6, <2>3, <2>6 DEF FaultLimit, Limits
    <3> QED
      BY <1>3, <1>6, <1>7, <2>1, <2>3, <2>4, <2>6, <3>1 DEF Sound
  <2> QED
    BY <2>5, <2>6
<1>8. Sound(page, reg)
  BY <1>7, Wild
<1>9. CASE Write(reg) /\ Goto("warn?") /\ UNCHANGED <<page, cur>>
  <2>1. /\ chip' \in [Rails -> Registers] /\ chip'[page] = reg
        /\ \A r \in Rails : Sound(r, chip'[r])
    BY <1>6, <1>8, <1>9, SoundWrite
  <2>2. TypeOK' /\ (\A r \in Rails : Sound(r, chip[r]))'
    BY <1>9, <2>1 DEF IInv, TypeOK, Goto, Labels, Sound
  <2>3. OnPage' /\ Setting'
    BY <1>1, <1>9 DEF IInv, OnPage, Setting, Goto, Accepted, InRange, Writing
  <2>4. Dark' /\ ReadWell'
    BY <1>1, <1>6, <1>9, <2>1 DEF IInv, Dark, ReadWell, Goto
  <2>5. Covered'
    BY <1>1, <1>7, <1>9, <2>1 DEF IInv, Covered, Goto, Software
  <2>6. FaultMoved'
    BY <1>7, <1>9, <2>1 DEF FaultMoved, Up, Goto
  <2> QED
    BY <1>9, <2>2, <2>3, <2>4, <2>5, <2>6 DEF IInv, Tight, Commanded, Goto
<1> QED
  BY <1>2, <1>6, <1>8, <1>9, FailWriteIInv

\* The reading of a warning limit decides whether it is written; one that
\* stays covers the new voltage.
LEMMA ReadWarnIInv == ASSUME IInv, ReadWarn PROVE IInv'
<1> DEFINE next == IF MustMove(WarnLimit, WarnPct) THEN "warn!" ELSE "command"
<1>1. pc = "warn?" /\ pc \in Writing
  BY DEF ReadWarn, ReadLimit, Writing
<1>2. CASE Goto(next) /\ UNCHANGED <<page, chip, cur>>
  <2>1. pc' = next /\ next \in {"warn!", "command"}
    BY <1>2 DEF Goto
  <2>2. TypeOK' /\ (\A r \in Rails : Sound(r, chip[r]))'
    BY <1>2, <2>1, Moved DEF IInv, TypeOK, Goto, Labels
  <2>3. OnPage' /\ Setting' /\ Dark' /\ ReadWell'
    BY <1>1, <1>2, <2>1 DEF IInv, OnPage, Setting, Dark, ReadWell, Goto,
       Accepted, InRange, Writing
  <2>4. Tight'
    BY <1>2, <2>1 DEF Tight, Goto, MustMove, WarnLimit, WarnPct, Up, Target
  <2>5. FaultMoved'
    BY <1>1, <1>2, <2>1 DEF IInv, FaultMoved, Up, Goto
  <2>6. Covered'
    <3>1. SUFFICES ASSUME Software, Tame(page)
                   PROVE  /\ cur <= chip[page].lim["ovw"]
                          /\ pc' = "command" => Nearest(100 * call.volts)
                                                 <= chip[page].lim["ovw"]
      BY <1>2, <2>1 DEF Covered, Software, Goto
    <3>2. cur <= chip[page].lim["ovw"]
      BY <1>1, <3>1 DEF IInv, Covered
    <3>3. CASE MustMove(WarnLimit, WarnPct)
      BY <2>1, <3>2, <3>3
    <3>4. CASE ~MustMove(WarnLimit, WarnPct)
      <4>1. /\ call.volts \in Nat /\ cur \in Volts
            /\ Nearest(100 * call.volts) \in Volts
            /\ chip[page].lim["ovw"] \in Volts
        BY <1>1, <3>1, Fitting DEF Limits
      <4>2. PICK v \in Nat, now \in Nat :
              v = call.volts /\ now = chip[page].lim["ovw"]
              /\ Signed16(now) = now
        BY <4>1, ReadBack
      <4>3. CASE Up
        <5>1. ~(100 * Parts * now < 103 * v)
          BY <3>4, <4>1, <4>2, <4>3, NoClip DEF MustMove, WarnLimit, WarnPct
        <5> QED
          BY <3>2, <4>2, <5>1, UpperMoves
      <4>4. CASE ~Up
        <5>1. cur \in Int /\ Nearest(100 * v) <= cur
          BY <4>1, <4>2, <4>4, Direction DEF Up, Volts
        <5> QED BY <3>2, <4>1, <4>2, <5>1 DEF Volts
      <4> QED
        BY <4>3, <4>4
    <3> QED
      BY <3>3, <3>4
  <2> QED
    BY <2>1, <2>2, <2>3, <2>4, <2>5, <2>6 DEF IInv, Commanded
<1> QED
  BY <1>2, FailReadIInv DEF ReadWarn, ReadLimit

\* The warning limit moves, and stays inside the fault limit.
LEMMA WriteWarnIInv == ASSUME IInv, WriteWarn PROVE IInv'
<1>1. pc = "warn!" /\ pc \in Writing
  BY DEF WriteWarn, WriteLimit, Writing
<1>2. PICK w \in Sent(Nearest(Target(WarnPct))) :
        LET reg == [chip[page] EXCEPT !.lim[WarnLimit] = w] IN
        \/ Write(reg) /\ Goto("command") /\ UNCHANGED <<page, cur>>
        \/ FailWrite(reg)
  BY DEF WriteWarn, WriteLimit
<1> DEFINE reg == [chip[page] EXCEPT !.lim[WarnLimit] = w]
<1>3. /\ call.volts \in Int /\ page \in Rails /\ chip[page] \in Registers
      /\ Sound(page, chip[page])
  BY <1>1, UnderWay
<1>4. w \in Words
  <2>1. WarnPct \in Nat
    BY DEF WarnPct
  <2> QED BY <1>3, <2>1, TargetInt, TwoBytes
<1>5. ~chip[page].on
  BY <1>1 DEF IInv, Dark, Writing
<1>6. /\ reg \in Registers /\ ~reg.on /\ reg.vout = chip[page].vout
      /\ reg.lim = [chip[page].lim EXCEPT ![WarnLimit] = w]
  BY <1>3, <1>4, <1>5 DEF Registers, WarnLimit, Limits
<1>7. ASSUME Tame(page)
      PROVE  /\ Sound(page, reg)
             /\ Software => /\ cur <= reg.lim["ovw"]
                            /\ Nearest(100 * call.volts) <= reg.lim["ovw"]
  <2>1. /\ call.volts \in Nat /\ cur \in Volts
        /\ Nearest(110 * call.volts) \in Volts
        /\ Nearest(103 * call.volts) \in Volts
        /\ Nearest(100 * call.volts) \in Volts
        /\ chip[page] \in Readable
    BY <1>1, <1>7, Fitting
  <2>2. /\ Up => Nearest(103 * call.volts) <= chip[page].lim["ovf"]
        /\ ~Up => chip[page].lim["uvf"] <= Nearest(97 * call.volts)
        /\ Software => cur <= chip[page].lim["ovw"]
    BY <1>1, <1>7 DEF IInv, FaultMoved, Covered
  <2>3. PICK v \in Nat : v = call.volts
    BY <2>1
  <2>4. /\ w \in Volts
        /\ Up => w = Nearest(103 * v) /\ Nearest(100 * v) <= w
        /\ ~Up => w = Nearest(97 * v)
    <3>1. CASE Up
      <4>1. Target(103) = 103 * v /\ WarnPct = 103
        BY <2>1, <2>3, <3>1, NoClip DEF WarnPct
      <4> QED BY <2>1, <2>3, <3>1, <4>1, UpperLimits, ReadBack
    <3>2. CASE ~Up
      <4>1. Target(97) = 97 * v /\ WarnPct = 97
        BY <2>1, <2>3, <3>2, NoClip DEF WarnPct
      <4> QED BY <2>1, <2>3, <3>2, <4>1, LowerLimits, ReadBack
    <3> QED BY <3>1, <3>2
  <2>5. /\ chip[page].lim \in [Limits -> Volts]
        /\ chip[page].lim["ovw"] \in Nat /\ chip[page].lim["ovf"] \in Nat
        /\ chip[page].lim["uvw"] \in Nat /\ chip[page].lim["uvf"] \in Nat
        /\ w \in Nat /\ cur \in Nat /\ Nearest(100 * v) \in Nat
    BY <2>1, <2>3, <2>4 DEF Readable, Limits, Volts
  <2>6. reg \in Readable
    BY <2>1, <2>4 DEF Readable, WarnLimit, Limits
  <2>7. CASE Up
    <3>1. /\ reg.lim["ovw"] = w /\ reg.lim["ovf"] = chip[page].lim["ovf"]
          /\ reg.lim["uvw"] = chip[page].lim["uvw"]
          /\ reg.lim["uvf"] = chip[page].lim["uvf"]
      BY <1>6, <2>5, <2>7 DEF WarnLimit, Limits
    <3>2. cur <= Nearest(100 * v)
      BY <2>3, <2>5, <2>7, Direction DEF Up
    <3> QED
      BY <1>3, <1>6, <1>7, <2>2, <2>3, <2>4, <2>5, <2>6, <2>7, <3>1, <3>2
      DEF Sound
  <2>8. CASE ~Up
    <3>1. /\ reg.lim["uvw"] = w /\ reg.lim["ovw"] = chip[page].lim["ovw"]
          /\ reg.lim["uvf"] = chip[page].lim["uvf"]
          /\ reg.lim["ovf"] = chip[page].lim["ovf"]
      BY <1>6, <2>5, <2>8 DEF WarnLimit, Limits
    <3>2. Nearest(100 * v) <= cur
      BY <2>3, <2>5, <2>8, Direction DEF Up
    <3> QED
      BY <1>3, <1>6, <1>7, <2>2, <2>3, <2>4, <2>5, <2>6, <2>8, <3>1, <3>2
      DEF Sound
  <2> QED
    BY <2>7, <2>8
<1>8. Sound(page, reg)
  BY <1>7, Wild
<1>9. CASE Write(reg) /\ Goto("command") /\ UNCHANGED <<page, cur>>
  <2>1. /\ chip' \in [Rails -> Registers] /\ chip'[page] = reg
        /\ \A r \in Rails : Sound(r, chip'[r])
    BY <1>6, <1>8, <1>9, SoundWrite
  <2>2. TypeOK' /\ (\A r \in Rails : Sound(r, chip[r]))'
    BY <1>9, <2>1 DEF IInv, TypeOK, Goto, Labels, Sound
  <2>3. OnPage' /\ Setting'
    BY <1>1, <1>9 DEF IInv, OnPage, Setting, Goto, Accepted, InRange, Writing
  <2>4. Dark' /\ ReadWell'
    BY <1>1, <1>6, <1>9, <2>1 DEF IInv, Dark, ReadWell, Goto
  <2>5. Covered'
    BY <1>7, <1>9, <2>1 DEF Covered, Goto, Software
  <2> QED
    BY <1>9, <2>2, <2>3, <2>4, <2>5 DEF IInv, FaultMoved, Tight, Commanded,
       Goto
<1> QED
  BY <1>2, <1>6, <1>8, <1>9, FailWriteIInv

\* The voltage is written under the warning limit, with the rail off.
LEMMA SetVoutIInv == ASSUME IInv, SetVout PROVE IInv'
<1>1. pc = "command" /\ pc \in Writing
  BY DEF SetVout, Writing
<1>2. PICK w \in Sent(Nearest(100 * call.volts)) :
        LET reg == [chip[page] EXCEPT !.vout = w] IN
        \/ Write(reg) /\ Goto("on") /\ UNCHANGED <<page, cur>>
        \/ FailWrite(reg)
  BY DEF SetVout
<1> DEFINE reg == [chip[page] EXCEPT !.vout = w]
<1>3. /\ call.volts \in Int /\ page \in Rails /\ chip[page] \in Registers
      /\ Sound(page, chip[page]) /\ InRange(page, call.volts)
  BY <1>1, UnderWay
<1>4. w \in Words
  <2>1. 100 * call.volts \in Int
    BY <1>3
  <2> QED BY <2>1, HalfUnit, UnitAssumption, TwoBytes
<1>5. ~chip[page].on
  BY <1>1 DEF IInv, Dark, Writing
<1>6. /\ reg \in Registers /\ ~reg.on
      /\ reg.vout = w /\ reg.lim = chip[page].lim
  BY <1>3, <1>4, <1>5 DEF Registers
<1>7. ASSUME Tame(page) PROVE Sound(page, reg)
  <2>1. Nearest(100 * call.volts) \in Volts /\ chip[page] \in Readable
    BY <1>1, <1>7, Fitting
  <2>2. w = Nearest(100 * call.volts) /\ w \in Volts
    BY <2>1, ReadBack
  <2>3. reg \in Readable
    BY <2>1, <2>2 DEF Readable
  <2>4. Within(page, w)
    BY <1>3, <2>2, RangeKept
  <2> QED BY <1>3, <1>6, <1>7, <2>3, <2>4 DEF Sound
<1>8. Sound(page, reg)
  BY <1>7, Wild
<1>9. CASE Write(reg) /\ Goto("on") /\ UNCHANGED <<page, cur>>
  <2>1. /\ chip' \in [Rails -> Registers] /\ chip'[page] = reg
        /\ \A r \in Rails : Sound(r, chip'[r])
    BY <1>6, <1>8, <1>9, SoundWrite
  <2>2. TypeOK' /\ (\A r \in Rails : Sound(r, chip[r]))'
    BY <1>9, <2>1 DEF IInv, TypeOK, Goto, Labels, Sound
  <2>3. OnPage' /\ Setting'
    BY <1>1, <1>9 DEF IInv, OnPage, Setting, Goto, Accepted, InRange, Writing
  <2>4. Dark' /\ Covered' /\ ReadWell'
    BY <1>1, <1>6, <1>9, <2>1
    DEF IInv, Dark, Covered, ReadWell, Goto, Software
  <2>5. Commanded'
    BY <1>6, <1>9, <2>1 DEF Commanded, Goto
  <2> QED
    BY <1>9, <2>2, <2>3, <2>4, <2>5 DEF IInv, FaultMoved, Tight, Goto
<1> QED
  BY <1>2, <1>6, <1>8, <1>9, FailWriteIInv

\* The rail is enabled again, under its limits.
LEMMA EnableIInv == ASSUME IInv, Enable PROVE IInv'
<1> DEFINE reg == [chip[page] EXCEPT !.on = TRUE]
<1>1. pc = "on" /\ pc \in Writing
  BY DEF Enable, Writing
<1>2. /\ chip[page] \in Registers /\ Sound(page, chip[page])
      /\ page \in Rails
      /\ chip[page].vout \in Sent(Nearest(100 * call.volts))
  BY <1>1, UnderWay DEF IInv, Commanded
<1>3. reg \in Registers
  BY <1>2 DEF Registers
<1>4. ASSUME Tame(page) PROVE Sound(page, reg)
  <2>1. Nearest(100 * call.volts) \in Volts /\ chip[page] \in Readable
    BY <1>1, <1>4, Fitting
  <2>2. chip[page].vout = Nearest(100 * call.volts)
    BY <1>2, <2>1, ReadBack
  <2>3. Software => chip[page].vout <= chip[page].lim["ovw"]
    BY <1>1, <1>4, <2>2 DEF IInv, Covered
  <2>4. /\ reg \in Readable
        /\ reg.vout = chip[page].vout /\ reg.lim = chip[page].lim
    BY <2>1 DEF Readable
  <2> QED BY <1>2, <1>4, <2>3, <2>4 DEF Sound
<1>5. Sound(page, reg)
  BY <1>4, Wild
<1>6. CASE Write(reg) /\ Return("ok") /\ UNCHANGED <<page, cur>>
  <2>1. /\ chip' \in [Rails -> Registers]
        /\ \A r \in Rails : Sound(r, chip'[r])
    BY <1>3, <1>5, <1>6, SoundWrite
  <2>2. /\ pc' = "idle" /\ ret' = "ok" /\ page' = page /\ call' = call
        /\ cur' = cur /\ page \in Rails /\ call \in Calls
        /\ cur \in Shorts
    BY <1>6 DEF IInv, TypeOK, Return
  <2> QED
    BY <2>1, <2>2, Returned
<1> QED
  BY <1>3, <1>5, <1>6, FailWriteIInv DEF Enable

-----------------------------------------------------------------------------
(* The theorems.                                                           *)

\* Every step of every call keeps the invariant.
LEMMA NextIInv == IInv /\ [Next]_vars => IInv'
<1> SUFFICES ASSUME IInv, [Next]_vars PROVE IInv'
  OBVIOUS
<1>1. CASE Next
  BY <1>1, StartIInv, GiveUpIInv, SelectPageIInv, ReadModeIInv,
     ReadCurrentIInv, ReadLimitsIInv, DisableIInv, ReadFaultIInv,
     WriteFaultIInv, ReadWarnIInv, WriteWarnIInv, SetVoutIInv, EnableIInv
     DEF Next, Step
<1>2. CASE UNCHANGED vars
  BY <1>2 DEF vars, IInv, TypeOK, OnPage, Setting, Dark, Covered, ReadWell,
     FaultMoved, Tight, Commanded, Sound, Accepted, InRange, Up, MustMove,
     Target, FaultLimit, FaultPct, WarnLimit, WarnPct, Software
<1> QED
  BY <1>1, <1>2

\* The invariant holds in every state, whatever fails and wherever the
\* daemon dies.
THEOREM Inductive == Spec => []IInv
BY InitIInv, NextIInv, PTL DEF Spec

(***************************************************************************)
(* Whatever is asked for, the board file giving a range or not, a register *)
(* always holds two bytes; those of a rail whose requests fit read back as *)
(* they were written.                                                      *)
(***************************************************************************)
THEOREM TypeCorrect == Spec => []TypeOK
<1>1. IInv => TypeOK
  BY DEF IInv
<1> QED
  BY <1>1, Inductive, PTL

(***************************************************************************)
(* Whatever transactions fail and wherever the daemon dies, an enabled     *)
(* rail stands at or under its overvoltage limits: every rail with a range *)
(* in the board file (RangeFits), and every other whose requests fit.      *)
(***************************************************************************)
THEOREM OvervoltageSafe == Spec => []OverLimits
<1>1. IInv => OverLimits
  BY DEF IInv, Sound, OverLimits
<1> QED
  BY <1>1, Inductive, PTL

(***************************************************************************)
(* In every state of every call, cut short or not, the warning limits lie  *)
(* inside the fault limits, of a rail whose requests fit, and the output   *)
(* of a rail with a range is within half a register unit of that range.    *)
(***************************************************************************)
THEOREM NeverOutOfBounds == Spec => []Bounded
<1>1. IInv => Bounded
  BY DEF IInv, Sound, Bounded, WarnBeforeFault, OutputInRange
<1> QED
  BY <1>1, Inductive, PTL

\* A step writes at most the page the chip is on, and only within a set; an
\* enabled rail is only written to disable it.
LEMMA WritesOne ==
  ASSUME IInv, Next, NEW r \in Rails, chip'[r] # chip[r]
  PROVE  /\ r = call.rail
         /\ chip[r].on => chip'[r] = [chip[r] EXCEPT !.on = FALSE]
<1>1. CASE Disable
  <2>1. pc = "off" /\ pc \in Writing
    BY <1>1 DEF Disable, Writing
  <2> QED
    BY <1>1, <2>1, UnderWay
       DEF Disable, Write, FailWrite, IInv, TypeOK
<1>2. CASE WriteFault \/ WriteWarn \/ SetVout \/ Enable
  <2>1. pc \in Writing \ {"off"}
    BY <1>2 DEF WriteFault, WriteWarn, WriteLimit, SetVout, Enable, Writing
  <2>2. page = call.rail /\ page \in Rails /\ ~chip[page].on
    BY <2>1, UnderWay DEF IInv, Dark
  <2>3. \E reg : chip' = [chip EXCEPT ![page] = reg]
    BY <1>2 DEF WriteFault, WriteWarn, WriteLimit, SetVout, Enable, Write,
       FailWrite
  <2> QED
    BY <2>2, <2>3 DEF IInv, TypeOK
<1>3. CASE \/ \E c \in Calls : Start(c) \/ OpenFails(c)
           \/ SelectPage \/ ReadMode \/ ReadCurrent \/ ReadLimits
           \/ ReadFault \/ ReadWarn \/ Die
  <2>1. chip' = chip
    BY <1>3 DEF Start, OpenFails, SelectPage, ReadMode, ReadCurrent,
       ReadLimits, ReadFault, ReadWarn, ReadLimit, Die, FailRead
  <2> QED
    BY <2>1
<1> QED
  BY <1>1, <1>2, <1>3 DEF Next, Step

\* A call for one rail never changes a register of another page.
THEOREM OthersUntouched == Spec => OnlyTheRailAsked
<1>1. IInv /\ [Next]_vars =>
        [\A r \in Rails : chip'[r] # chip[r] => r = call.rail]_vars
  BY WritesOne
<1> QED
  BY <1>1, Inductive, PTL DEF Spec, OnlyTheRailAsked

\* Voltage and limits are written only while the output is disabled.
THEOREM DarkWrites == Spec => NeverWrittenLive
<1>1. IInv /\ [Next]_vars =>
        [\A r \in Rails : chip[r].on =>
           chip'[r] \in {chip[r], [chip[r] EXCEPT !.on = FALSE]}]_vars
  BY WritesOne
<1> QED
  BY <1>1, Inductive, PTL DEF Spec, NeverWrittenLive

-----------------------------------------------------------------------------
(* What a call that succeeds has done.                                     *)

\* Only the call for all readings gets to the limits.
PromiseInv == /\ Promise
              /\ pc = "limits" => call.access = "all"

\* A set that ends with success has enabled the rail at the voltage asked for.
LEMMA EnablePromises == ASSUME IInv, Enable PROVE PromiseInv'
<1>1. pc = "on" /\ pc \in Writing /\ pc' = "idle" /\ call' = call
  BY DEF Enable, Writing, Return, FailWrite
<1>2. /\ page \in Rails /\ page = call.rail /\ call.access = "set"
      /\ chip \in [Rails -> Registers]
      /\ chip[page].vout \in Sent(Nearest(100 * call.volts))
  BY <1>1, UnderWay DEF IInv, TypeOK, Setting, Commanded
<1>3. ASSUME ret' = "ok"
      PROVE  chip'[page].on /\ chip'[page].vout = chip[page].vout
  <2>1. Write([chip[page] EXCEPT !.on = TRUE])
    BY <1>3 DEF Enable, FailWrite, Return
  <2>2. chip'[page] = [chip[page] EXCEPT !.on = TRUE]
    BY <1>2, <2>1 DEF Write
  <2> QED BY <1>2, <2>2 DEF Registers
<1> QED BY <1>1, <1>2, <1>3 DEF PromiseInv, Promise

\* A get that ends with success has read the page of the rail asked for.
LEMMA ReadPromises == ASSUME IInv, ReadCurrent PROVE PromiseInv'
<1>1. pc = "vout" /\ page \in Rails /\ chip[page] \in Registers
  BY DEF ReadCurrent, IInv, TypeOK
<1>2. page = call.rail
  BY <1>1 DEF IInv, OnPage
<1>4. CASE cur' = Signed16(ReadVout) /\ call.access = "get" /\ Return("ok")
           /\ UNCHANGED <<page, chip>>
  BY <1>2, <1>4 DEF PromiseInv, Promise, Return, ReadVout
<1>5. CASE call.access = "set" /\ Goto("off")
  BY <1>5 DEF PromiseInv, Promise, Goto
<1>6. CASE call.access = "all" /\ Goto("limits")
  BY <1>6 DEF PromiseInv, Promise, Goto
<1>7. CASE FailRead
  BY <1>7 DEF PromiseInv, Promise, FailRead, Return
<1> QED BY <1>4, <1>5, <1>6, <1>7 DEF ReadCurrent

\* Of the other steps only the last reading ends a call with success.
LEMMA OthersPromise ==
  ASSUME IInv, PromiseInv, Next, ~Enable, ~ReadCurrent
  PROVE  PromiseInv'
<1>1. CASE \E c \in Calls : Start(c) \/ OpenFails(c)
  BY <1>1
  DEF Start, OpenFails, FirstStep, AfterPage, PromiseInv, Promise
<1>2. CASE Die \/ SelectPage \/ ReadMode
  BY <1>2
  DEF Die, SelectPage, ReadMode, FailRead, Goto, Return, AfterPage,
      PromiseInv, Promise
<1>3. CASE ReadLimits
  BY <1>3 DEF ReadLimits, FailRead, Return, PromiseInv, Promise
<1>4. CASE Disable \/ ReadFault \/ WriteFault \/ ReadWarn \/ WriteWarn
           \/ SetVout
  <2>1. \/ pc' \notin {"idle", "limits"}
        \/ (pc' = "idle" /\ ret' = "error")
    BY <1>4
    DEF Disable, AfterDisable, ReadFault, ReadWarn, ReadLimit, WriteFault,
        WriteWarn, WriteLimit, SetVout, FailRead, FailWrite, Goto, Return
  <2> QED BY <2>1 DEF PromiseInv, Promise
<1> QED BY <1>1, <1>2, <1>3, <1>4 DEF Next, Step

(***************************************************************************)
(* For every chip and board file, a set that returns success has left its  *)
(* rail enabled at what two bytes hold of the voltage asked for, and a get *)
(* has answered for its own rail, whatever was cut short before and        *)
(* wherever the page was left.                                             *)
(***************************************************************************)
THEOREM PromiseKept == Spec => []Promise
<1>1. Init => PromiseInv
  BY DEF Init, PromiseInv, Promise
<1>2. IInv /\ PromiseInv /\ [Next]_vars => PromiseInv'
  <2>1. ASSUME UNCHANGED vars, PromiseInv PROVE PromiseInv'
    BY <2>1 DEF vars, PromiseInv, Promise
  <2> QED BY <2>1, EnablePromises, ReadPromises, OthersPromise
<1>3. PromiseInv => Promise
  BY DEF PromiseInv
<1> QED
  BY <1>1, <1>2, <1>3, Inductive, PTL DEF Spec

-----------------------------------------------------------------------------
(* The undervoltage warning, as long as no call was cut short.             *)

\* A rail is off only inside a set of its own.
OnlyOwnOff ==
  \A r \in Rails : ~chip[r].on => pc \in Writing /\ r = call.rail

\* The mirror image of Covered.
Carried == pc \in Writing /\ Tame(page) =>
  /\ chip[page].lim["uvw"] <= cur
  /\ pc \in {"command", "on"} =>
       chip[page].lim["uvw"] <= Nearest(100 * call.volts)

LowInv == Software /\ ~failed => UnderLimitsHold /\ OnlyOwnOff /\ Carried

\* Until something fails, no step ends a call but with success.
LEMMA Uncut ==
  ASSUME FaultsNext, ~failed'
  PROVE  ~failed /\ ~(pc # "idle" /\ pc' = "idle" /\ ret' # "ok")
BY DEF FaultsNext, Remember, CutShort

\* A rail that is read under way is on, and stands over its warning.
LEMMA ReadCarries ==
  ASSUME IInv, LowInv, Software, ~failed, ReadCurrent,
         ~(pc' = "idle" /\ ret' # "ok")
  PROVE  UnderLimitsHold' /\ OnlyOwnOff' /\ Carried'
<1>1. /\ pc = "vout" /\ page \in Rails /\ Sound(page, chip[page])
      /\ UnderLimitsHold /\ OnlyOwnOff
  BY DEF ReadCurrent, IInv, TypeOK, LowInv
<1>2. chip[page].on /\ \A r \in Rails : chip[r].on
  BY <1>1 DEF OnlyOwnOff, Writing
<1>3. /\ chip' = chip /\ page' = page
      /\ cur' = Signed16(ReadVout)
  BY DEF ReadCurrent, FailRead, Return
<1>4. ASSUME Tame(page) PROVE cur' = chip[page].vout
  <2>1. ReadVout = chip[page].vout /\ chip[page].vout \in Volts
    BY <1>1, <1>2, <1>4 DEF ReadVout, Sound, Readable
  <2> QED BY <1>3, <2>1, ReadBack
<1>5. Tame(page) => chip[page].lim["uvw"] <= chip[page].vout
  BY <1>1, <1>2 DEF UnderLimitsHold, Software
<1>6. pc' \in {"idle", "off", "limits"}
  BY DEF ReadCurrent, FailRead, Goto, Return
<1> QED
  BY <1>1, <1>2, <1>3, <1>4, <1>5, <1>6
  DEF UnderLimitsHold, OnlyOwnOff, Carried

\* A write within a set leaves the other rails alone.
LEMMA WriteCarries ==
  ASSUME IInv, LowInv, Software, ~failed, pc \in Writing,
         NEW reg \in Registers, Write(reg), page' = page, call' = call,
         cur' = cur, ~reg.on => pc' \in Writing,
         Tame(page) => /\ reg.lim["uvw"] <= cur
                       /\ reg.on => reg.lim["uvw"] <= reg.vout
                       /\ pc' \in {"command", "on"} =>
                            reg.lim["uvw"] <= Nearest(100 * call.volts)
  PROVE  UnderLimitsHold' /\ OnlyOwnOff' /\ Carried'
<1>1. /\ page \in Rails /\ page = call.rail
      /\ UnderLimitsHold /\ OnlyOwnOff
  BY UnderWay DEF LowInv
<1>2. /\ chip'[page] = reg
      /\ \A r \in Rails \ {page} : chip'[r] = chip[r] /\ chip[r].on
  BY <1>1 DEF IInv, TypeOK, Write, OnlyOwnOff
<1>3. UnderLimitsHold'
  BY <1>1, <1>2 DEF UnderLimitsHold, Software
<1>4. OnlyOwnOff'
  BY <1>1, <1>2 DEF OnlyOwnOff
<1>5. Carried'
  BY <1>2 DEF Carried
<1> QED BY <1>3, <1>4, <1>5

\* The steps of a set that write.
LEMMA SetCarries ==
  ASSUME IInv, LowInv, Software, ~failed,
         Disable \/ WriteFault \/ WriteWarn \/ SetVout \/ Enable,
         ~(pc' = "idle" /\ ret' # "ok")
  PROVE  UnderLimitsHold' /\ OnlyOwnOff' /\ Carried'
<1>1. pc \in Writing /\ page' = page /\ call' = call /\ cur' = cur
  BY DEF Disable, WriteFault, WriteWarn, WriteLimit, SetVout, Enable,
     FailWrite, Goto, Return, Writing
<1>2. /\ call.volts \in Int /\ chip[page] \in Registers /\ Carried
  BY <1>1, UnderWay DEF LowInv
<1>3. ASSUME Tame(page)
      PROVE  /\ call.volts \in Nat /\ cur \in Volts
             /\ Nearest(100 * call.volts) \in Volts
             /\ Nearest(110 * call.volts) \in Volts
             /\ \A l \in Limits : chip[page].lim[l] \in Volts
  BY <1>1, <1>3, Fitting
<1>4. CASE Disable
  <2>1. PICK reg : reg = [chip[page] EXCEPT !.on = FALSE]
    OBVIOUS
  <2>2. Write(reg) /\ pc' = "fault?"
    BY <1>4, <2>1 DEF Disable, FailWrite, Goto, Return, AfterDisable, Software
  <2>3. reg \in Registers /\ ~reg.on /\ reg.lim = chip[page].lim
    BY <1>2, <2>1 DEF Registers
  <2> QED
    BY <1>1, <1>2, <2>2, <2>3, WriteCarries DEF Carried, Writing
<1>5. CASE WriteFault
  <2>0. PICK w \in Sent(Nearest(Target(FaultPct))) :
          Write([chip[page] EXCEPT !.lim[FaultLimit] = w]) /\ pc' = "warn?"
    BY <1>5 DEF WriteFault, WriteLimit, FailWrite, Goto, Return
  <2>1. PICK reg : reg = [chip[page] EXCEPT !.lim[FaultLimit] = w]
                   /\ Write(reg) /\ pc' = "warn?"
    BY <2>0
  <2>2. w \in Words
    <3>1. FaultPct \in Nat
      BY DEF FaultPct
    <3> QED BY <1>2, <3>1, TargetInt, TwoBytes
  <2>3. /\ reg \in Registers /\ reg.on = chip[page].on
        /\ reg.lim["uvw"] = chip[page].lim["uvw"]
    BY <1>2, <2>1, <2>2 DEF Registers, FaultLimit, Limits
  <2>4. ~reg.on
    BY <1>5, <2>3 DEF IInv, Dark, WriteFault, WriteLimit, Writing
  <2> QED
    BY <1>1, <1>2, <2>1, <2>3, <2>4, WriteCarries DEF Carried, Writing
<1>6. CASE WriteWarn
  <2>0. PICK w \in Sent(Nearest(Target(WarnPct))) :
          Write([chip[page] EXCEPT !.lim[WarnLimit] = w]) /\ pc' = "command"
    BY <1>6 DEF WriteWarn, WriteLimit, FailWrite, Goto, Return
  <2>1. PICK reg : reg = [chip[page] EXCEPT !.lim[WarnLimit] = w]
                   /\ Write(reg) /\ pc' = "command"
    BY <2>0
  <2>2. w \in Words
    <3>1. WarnPct \in Nat
      BY DEF WarnPct
    <3> QED BY <1>2, <3>1, TargetInt, TwoBytes
  <2>3. /\ reg \in Registers /\ reg.on = chip[page].on
        /\ reg.lim = [chip[page].lim EXCEPT ![WarnLimit] = w]
    BY <1>2, <2>1, <2>2 DEF Registers, WarnLimit, Limits
  <2>4. ~reg.on
    BY <1>6, <2>3 DEF IInv, Dark, WriteWarn, WriteLimit, Writing
  <2>5. ASSUME Tame(page)
        PROVE  /\ reg.lim["uvw"] <= cur
               /\ reg.lim["uvw"] <= Nearest(100 * call.volts)
    <3>1. PICK v \in Nat, n \in Nat :
            v = call.volts /\ n = Nearest(100 * v) /\ n \in Volts
      BY <1>3, <2>5, ReadBack
    <3>2. /\ cur \in Nat /\ chip[page].lim["uvw"] \in Nat
          /\ chip[page].lim["uvw"] <= cur
      BY <1>1, <1>2, <1>3, <2>5 DEF Volts, Limits, Carried
    <3>3. CASE Up
      <4>1. reg.lim["uvw"] = chip[page].lim["uvw"]
        BY <1>2, <2>3, <3>3 DEF WarnLimit, Limits, Registers
      <4>2. cur <= n
        BY <3>1, <3>2, <3>3, Direction DEF Up
      <4> QED BY <3>1, <3>2, <4>1, <4>2
    <3>4. CASE ~Up
      <4>1. Target(97) = 97 * v /\ WarnPct = 97
        BY <1>3, <2>5, <3>1, <3>4, NoClip DEF WarnPct
      <4>2. w = Nearest(97 * v) /\ w \in Nat /\ w <= n
        <5>1. Nearest(97 * v) \in Volts /\ Nearest(97 * v) <= n
          BY <3>1, LowerLimits
        <5> QED BY <2>0, <4>1, <5>1, ReadBack
      <4>3. reg.lim["uvw"] = w
        BY <1>2, <2>3, <3>4 DEF WarnLimit, Limits, Registers
      <4>4. n <= cur
        BY <3>1, <3>2, <3>4, Direction DEF Up
      <4> QED BY <3>1, <3>2, <4>2, <4>3, <4>4
    <3> QED BY <3>3, <3>4
  <2> QED
    BY <1>1, <2>1, <2>3, <2>4, <2>5, WriteCarries DEF Writing
<1>7. CASE SetVout
  <2>0. PICK w \in Sent(Nearest(100 * call.volts)) :
          Write([chip[page] EXCEPT !.vout = w]) /\ pc = "command" /\ pc' = "on"
    BY <1>7 DEF SetVout, FailWrite, Goto, Return
  <2>1. PICK reg : reg = [chip[page] EXCEPT !.vout = w]
                   /\ Write(reg) /\ pc = "command" /\ pc' = "on"
    BY <2>0
  <2>2. w \in Words
    <3>1. 100 * call.volts \in Int
      BY <1>2
    <3> QED BY <3>1, HalfUnit, UnitAssumption, TwoBytes
  <2>3. reg \in Registers /\ reg.on = chip[page].on /\ reg.lim = chip[page].lim
    BY <1>2, <2>1, <2>2 DEF Registers
  <2>4. ~reg.on
    BY <2>1, <2>3 DEF IInv, Dark, Writing
  <2> QED
    BY <1>1, <1>2, <2>1, <2>3, <2>4, WriteCarries DEF Carried, Writing
<1>8. CASE Enable
  <2>1. PICK reg : reg = [chip[page] EXCEPT !.on = TRUE]
    OBVIOUS
  <2>2. Write(reg) /\ pc = "on" /\ pc' = "idle"
    BY <1>8, <2>1 DEF Enable, FailWrite, Return
  <2>3. /\ reg \in Registers /\ reg.on /\ reg.lim = chip[page].lim
        /\ reg.vout \in Sent(Nearest(100 * call.volts))
    BY <1>2, <2>1, <2>2 DEF Registers, IInv, Commanded
  <2>4. Tame(page) => reg.vout = Nearest(100 * call.volts)
    BY <1>3, <2>3, ReadBack
  <2> QED
    BY <1>1, <1>2, <2>2, <2>3, <2>4, WriteCarries DEF Carried
<1> QED BY <1>4, <1>5, <1>6, <1>7, <1>8

\* A warning limit that stays lies under the voltage that is written next.
LEMMA LimitsCarry ==
  ASSUME IInv, LowInv, Software, ~failed, ReadFault \/ ReadWarn,
         ~(pc' = "idle" /\ ret' # "ok")
  PROVE  UnderLimitsHold' /\ OnlyOwnOff' /\ Carried'
<1>1. /\ pc \in Writing /\ pc' \in Writing /\ pc' # "on"
      /\ page' = page /\ call' = call /\ cur' = cur /\ chip' = chip
  BY DEF ReadFault, ReadWarn, ReadLimit, FailRead, Goto, Return, Writing
<1>2. /\ page \in Rails /\ UnderLimitsHold /\ OnlyOwnOff /\ Carried
  BY <1>1, UnderWay DEF LowInv
<1>3. ASSUME pc' = "command", Tame(page)
      PROVE  chip[page].lim["uvw"] <= Nearest(100 * call.volts)
  <2>1. ~MustMove(WarnLimit, WarnPct)
    BY <1>3 DEF ReadFault, ReadWarn, ReadLimit, FailRead, Goto, Return
  <2>2. /\ call.volts \in Nat /\ cur \in Nat
        /\ chip[page].lim["uvw"] \in Volts
        /\ Nearest(100 * call.volts) \in Volts
    BY <1>1, <1>3, Fitting, ReadBack DEF Limits
  <2>3. PICK v \in Nat, c \in Nat, now \in Nat, n \in Nat :
          /\ v = call.volts /\ c = cur /\ now = chip[page].lim["uvw"]
          /\ Signed16(now) = now /\ now <= c /\ n = Nearest(100 * v)
    BY <1>1, <1>2, <1>3, <2>2, ReadBack DEF Carried
  <2>4. CASE Up
    BY <2>3, <2>4, Direction DEF Up
  <2>5. CASE ~Up
    <3>1. ~(100 * Parts * now > 97 * v)
      BY <2>1, <2>2, <2>3, <2>5, NoClip DEF MustMove, WarnLimit, WarnPct
    <3> QED BY <2>3, <3>1, LowerMoves
  <2> QED BY <2>4, <2>5
<1>4. UnderLimitsHold' /\ OnlyOwnOff'
  BY <1>1, <1>2 DEF UnderLimitsHold, OnlyOwnOff, Software
<1>5. Carried'
  BY <1>1, <1>2, <1>3 DEF Carried
<1> QED BY <1>4, <1>5

\* Steps outside a set, with every rail on.
LEMMA OutsideCarries ==
  ASSUME IInv, LowInv, Software, ~failed,
         \/ \E c \in Calls : Start(c) \/ OpenFails(c)
         \/ SelectPage \/ ReadMode \/ ReadLimits \/ UNCHANGED vars,
         ~(pc # "idle" /\ pc' = "idle" /\ ret' # "ok")
  PROVE  UnderLimitsHold' /\ OnlyOwnOff' /\ Carried'
<1>1. UnderLimitsHold /\ OnlyOwnOff /\ Carried
  BY DEF LowInv
<1>2. CASE UNCHANGED vars
  BY <1>1, <1>2
  DEF vars, UnderLimitsHold, OnlyOwnOff, Carried, Software
<1>3. ASSUME ~UNCHANGED vars
      PROVE  chip' = chip /\ pc \notin Writing /\ pc' \notin Writing
  BY <1>3
  DEF Start, OpenFails, SelectPage, ReadMode, ReadLimits, FailRead, Goto,
      Return, FirstStep, AfterPage, Writing
<1>4. ASSUME ~UNCHANGED vars PROVE UnderLimitsHold' /\ OnlyOwnOff' /\ Carried'
  BY <1>1, <1>3, <1>4 DEF UnderLimitsHold, OnlyOwnOff, Carried, Software
<1> QED BY <1>2, <1>4

\* A run of the specification with the history variable is one without it.
LEMMA FaultsRefine == FaultsSpec => Spec
<1>1. FaultsInit => Init
  BY DEF FaultsInit
<1>2. [FaultsNext]_allvars => [Next]_vars
  BY DEF FaultsNext, allvars
<1> QED BY <1>1, <1>2, PTL DEF FaultsSpec, Spec

(***************************************************************************)
(* Until a first call is cut short, by a failed transaction or by the end  *)
(* of the daemon, no enabled rail of any chip in the absolute format       *)
(* stands below its undervoltage warning.  What the failure changes is     *)
(* that the output is off and reads 0 V, so that the next set takes the    *)
(* output to rise and leaves the lower limits where they are.              *)
(***************************************************************************)
THEOREM UndervoltageSafe == FaultsSpec => []UnderLimits
<1>1. FaultsInit => LowInv
  BY PowerUpAssumption
  DEF FaultsInit, Init, LowInv, UnderLimitsHold, OnlyOwnOff, Carried, Writing
<1>2. IInv /\ LowInv /\ [FaultsNext]_allvars => LowInv'
  <2> SUFFICES ASSUME IInv, LowInv, [FaultsNext]_allvars, Software, ~failed'
               PROVE  UnderLimitsHold' /\ OnlyOwnOff' /\ Carried'
    BY DEF LowInv, Software
  <2>1. CASE FaultsNext
    <3>1. Next /\ ~failed
          /\ ~(pc # "idle" /\ pc' = "idle" /\ ret' # "ok")
      BY <2>1, Uncut DEF FaultsNext
    <3>2. ~Die
      BY <3>1 DEF Die
    <3>3. CASE \/ \E c \in Calls : Start(c) \/ OpenFails(c)
               \/ SelectPage \/ ReadMode \/ ReadLimits
      BY <3>1, <3>3, OutsideCarries
    <3>4. CASE ReadCurrent
      <4>1. pc # "idle"
        BY <3>4 DEF ReadCurrent
      <4> QED BY <3>1, <3>4, <4>1, ReadCarries
    <3>5. CASE Disable \/ WriteFault \/ WriteWarn \/ SetVout \/ Enable
      <4>1. pc # "idle"
        BY <3>5
        DEF Disable, WriteFault, WriteWarn, WriteLimit, SetVout, Enable
      <4> QED BY <3>1, <3>5, <4>1, SetCarries
    <3>6. CASE ReadFault \/ ReadWarn
      <4>1. pc # "idle"
        BY <3>6 DEF ReadFault, ReadWarn, ReadLimit
      <4> QED BY <3>1, <3>6, <4>1, LimitsCarry
    <3> QED BY <3>1, <3>2, <3>3, <3>4, <3>5, <3>6 DEF Next, Step
  <2>2. CASE UNCHANGED allvars
    <3>1. UNCHANGED vars /\ ~failed
      BY <2>2 DEF allvars
    <3> QED BY <3>1, OutsideCarries DEF vars
  <2> QED BY <2>1, <2>2
<1>3. LowInv => UnderLimits
  BY DEF LowInv, UnderLimits, UnderLimitsHold
<1> QED
  BY <1>1, <1>2, <1>3, FaultsRefine, Inductive, PTL DEF FaultsSpec

=============================================================================
