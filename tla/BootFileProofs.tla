--------------------------- MODULE BootFileProofs ---------------------------
(***************************************************************************)
(* Proofs about BootFile, for any devices, ranges, values and files of     *)
(* any length, for failing devices, refused changes, kills and losses of   *)
(* power: what the files keep, and that they implement BootSettings.       *)
(***************************************************************************)
EXTENDS BootFile, SequenceTheorems, WellFoundedInduction, TLAPS

-----------------------------------------------------------------------------
(* Numbers and positions.                                                  *)

\* A set of numbers has a least one.
LEMMA Smallest ==
  ASSUME NEW T \in SUBSET Nat, T # {}
  PROVE  \E x \in T : \A y \in T : x <= y
<1> DEFINE R == {ss \in Nat \X Nat : ss[1] < ss[2]}
<1>1. IsWellFoundedOn(R, Nat)
  BY NatLessThanWellFounded DEF OpToRel
<1> HIDE DEF R
<1>2. PICK x \in T : \A y \in T : ~ (<<y, x>> \in R)
  BY <1>1, WFMin
<1>3. ASSUME NEW y \in T PROVE x <= y
  <2>1. x \in Nat /\ y \in Nat /\ ~ (<<y, x>> \in R)
    BY <1>2
  <2>2. ~ (y < x)
    BY <2>1, Zenon DEF R
  <2> QED BY <2>1, <2>2
<1> QED BY <1>3

\* Some of the first positions of a file have a last one.
LEMMA Largest ==
  ASSUME NEW n \in Nat, NEW T \in SUBSET (1 .. n), T # {}
  PROVE  Max(T) \in T /\ \A y \in T : y <= Max(T)
<1> DEFINE B == {u \in Nat : \A y \in T : y <= u}
<1>1. n \in B
  OBVIOUS
<1>2. B \in SUBSET Nat /\ B # {}
  BY <1>1
<1>3. PICK m \in B : \A u \in B : m <= u
  BY <1>2, Smallest
<1>4. m \in Nat /\ \A y \in T : y \in Nat /\ y <= m
  OBVIOUS
<1>5. m \in T
  <2> SUFFICES ASSUME m \notin T PROVE FALSE
    OBVIOUS
  <2>1. PICK z \in T : TRUE
    OBVIOUS
  <2>6. z \in Nat /\ z # 0
    OBVIOUS
  <2>2. m # 0
    BY <1>4, <2>6
  <2>3. PICK k \in Nat : m = k + 1
    BY <1>4, <2>2
  <2>4. \A y \in T : y <= k
    BY <1>4, <2>3
  <2>5. m <= k
    BY <1>3, <2>4
  <2> QED BY <2>3, <2>5
<1> QED BY <1>4, <1>5 DEF Max

-----------------------------------------------------------------------------
(* The entry that counts.                                                  *)

\* What the first k lines of a file set n to.
UpTo(f, k, n) ==
  LET at == {i \in 1 .. k : f[i].name = n} IN
  IF at = {} THEN None ELSE f[Max(at)].value

\* The whole file is all of its lines, and no line is none.
LEMMA UpToEnds ==
  ASSUME NEW f \in Seq(Entries), NEW n
  PROVE  UpTo(f, Len(f), n) = Entry(f, n) /\ UpTo(f, 0, n) = None
<1>1. DOMAIN f = 1 .. Len(f)
  BY LenProperties
<1>2. \A i \in 1 .. 0 : FALSE
  OBVIOUS
<1> QED BY <1>1, <1>2 DEF UpTo, Entry

\* One more line counts for its own name, and for no other.
LEMMA UpToNext ==
  ASSUME NEW f, NEW k \in Nat, NEW n
  PROVE  UpTo(f, k + 1, n) = IF f[k + 1].name = n THEN f[k + 1].value
                                                  ELSE UpTo(f, k, n)
<1> DEFINE old == {i \in 1 .. k : f[i].name = n}
           new == {i \in 1 .. k + 1 : f[i].name = n}
<1>1. CASE f[k + 1].name = n
  <2>1. k + 1 \in new /\ new \in SUBSET (1 .. k + 1)
    BY <1>1
  <2>2. k + 1 \in Nat
    OBVIOUS
  <2>4. Max(new) \in new /\ k + 1 <= Max(new)
    BY <2>1, <2>2, Largest
  <2>3. Max(new) = k + 1
    BY <2>1, <2>4
  <2> QED BY <1>1, <2>1, <2>3 DEF UpTo
<1>2. CASE f[k + 1].name # n
  <2>1. new = old
    BY <1>2
  <2> QED BY <1>2, <2>1 DEF UpTo
<1> QED BY <1>1, <1>2

\* Only the lines themselves matter, not what comes after them.
LEMMA UpToAlike ==
  ASSUME NEW f, NEW g, NEW k \in Nat, \A i \in 1 .. k : f[i] = g[i], NEW n
  PROVE  UpTo(f, k, n) = UpTo(g, k, n)
<1> DEFINE at == {i \in 1 .. k : f[i].name = n}
<1>1. at = {i \in 1 .. k : g[i].name = n}
  OBVIOUS
<1>2. CASE at = {}
  BY <1>1, <1>2 DEF UpTo
<1>3. CASE at # {}
  <2>1. at \in SUBSET (1 .. k)
    OBVIOUS
  <2>2. Max(at) \in 1 .. k
    BY <1>3, <2>1, Largest
  <2> QED BY <1>1, <1>3, <2>2 DEF UpTo
<1> QED BY <1>2, <1>3

\* A line is added at the end.
LEMMA Added ==
  ASSUME NEW S, NEW s \in Seq(S), NEW e \in S
  PROVE  /\ Append(s, e) \in Seq(S) /\ Len(s) \in Nat
         /\ Len(Append(s, e)) = Len(s) + 1
         /\ \A i \in 1 .. Len(s) : Append(s, e)[i] = s[i]
         /\ Append(s, e)[Len(s) + 1] = e
         /\ DOMAIN Append(s, e) = 1 .. Len(s) + 1 /\ DOMAIN s = 1 .. Len(s)
OBVIOUS

\* A line at the end of a file is the one that counts for its name.
LEMMA EntryAppend ==
  ASSUME NEW f \in Seq(Entries), NEW e \in Entries, NEW n
  PROVE  Entry(Append(f, e), n) = IF e.name = n THEN e.value ELSE Entry(f, n)
<1>1. PICK g, k : g = Append(f, e) /\ k = Len(f)
  OBVIOUS
<1>2. /\ g \in Seq(Entries) /\ Len(g) = k + 1 /\ g[k + 1] = e /\ k \in Nat
      /\ \A i \in 1 .. k : g[i] = f[i]
  BY <1>1, Added
<1>3. Entry(g, n) = UpTo(g, k + 1, n) /\ Entry(f, n) = UpTo(f, k, n)
  BY <1>1, <1>2, UpToEnds
<1>4. UpTo(g, k, n) = UpTo(f, k, n)
  BY <1>2, UpToAlike
<1>5. UpTo(g, k + 1, n) = IF g[k + 1].name = n THEN g[k + 1].value
                                               ELSE UpTo(g, k, n)
  BY <1>2, UpToNext
<1> QED BY <1>1, <1>2, <1>3, <1>4, <1>5

\* The empty file sets nothing.
LEMMA EntryEmpty ==
  ASSUME NEW n
  PROVE  <<>> \in Seq(Entries) /\ Len(<<>>) = 0 /\ Entry(<<>>, n) = None
<1>1. <<>> \in Seq(Entries) /\ Len(<<>>) = 0
  BY EmptySeq
<1> QED BY <1>1, UpToEnds

\* An entry that counts is the value of one of the lines.
LEMMA EntryIn ==
  ASSUME NEW f \in Seq(Entries), NEW n
  PROVE  \/ Entry(f, n) = None /\ \A i \in DOMAIN f : f[i].name # n
         \/ \E i \in DOMAIN f : f[i].name = n /\ Entry(f, n) = f[i].value
<1> DEFINE at == {i \in DOMAIN f : f[i].name = n}
<1>1. CASE at = {}
  BY <1>1 DEF Entry
<1>2. CASE at # {}
  <2>1. Len(f) \in Nat /\ at \in SUBSET (1 .. Len(f))
    BY LenProperties
  <2>2. Max(at) \in at
    BY <1>2, <2>1, Largest
  <2> QED BY <1>2, <2>2 DEF Entry
<1> QED BY <1>1, <1>2

-----------------------------------------------------------------------------
(* The lines that sed leaves.                                              *)

\* g[i] is what sed has written after the first i lines of f.
Writes(f, n, m, g) ==
  g = [i \in 0 .. m |-> IF i = 0 THEN <<>>
                        ELSE IF f[i].name = n THEN g[i - 1]
                                              ELSE Append(g[i - 1], f[i])]

\* What sed has written after the first i lines.
Kept(f, n, i, s) ==
  /\ s \in Seq(Entries) /\ Len(s) <= i
  /\ \A j \in DOMAIN s : \E l \in 1 .. i : s[j] = f[l]
  /\ \A x : Entry(s, x) = IF x = n THEN None ELSE UpTo(f, i, x)

\* After a line it has written one more, or the same.
LEMMA KeptNext ==
  ASSUME NEW f \in Seq(Entries), NEW n, NEW i \in Nat, i < Len(f), NEW s,
         Kept(f, n, i, s)
  PROVE  Kept(f, n, i + 1, IF f[i + 1].name = n THEN s
                           ELSE Append(s, f[i + 1]))
<1>1. /\ s \in Seq(Entries) /\ Len(s) <= i /\ Len(s) \in Nat
      /\ \A j \in DOMAIN s : \E l \in 1 .. i : s[j] = f[l]
      /\ \A x : Entry(s, x) = IF x = n THEN None ELSE UpTo(f, i, x)
  BY LenProperties DEF Kept
<1>2. PICK e \in Entries : e = f[i + 1]
  <2>1. i + 1 \in 1 .. Len(f)
    BY LenProperties
  <2> QED BY <2>1, ElementOfSeq
<1>3. \A x : UpTo(f, i + 1, x) = IF e.name = x THEN e.value
                                 ELSE UpTo(f, i, x)
  BY <1>2, UpToNext
<1>4. \A j \in DOMAIN s : \E l \in 1 .. i + 1 : s[j] = f[l]
  BY <1>1
<1>5. CASE e.name = n
  <2>1. \A x : Entry(s, x) = IF x = n THEN None ELSE UpTo(f, i + 1, x)
    BY <1>1, <1>3, <1>5
  <2>2. Len(s) <= i + 1
    BY <1>1
  <2> QED BY <1>1, <1>2, <1>4, <1>5, <2>1, <2>2 DEF Kept
<1>6. CASE e.name # n
  <2>1. PICK t : t = Append(s, e)
    OBVIOUS
  <2>2. /\ t \in Seq(Entries) /\ Len(t) = Len(s) + 1
        /\ \A j \in 1 .. Len(s) : t[j] = s[j]
        /\ t[Len(s) + 1] = e
        /\ DOMAIN t = 1 .. Len(s) + 1 /\ DOMAIN s = 1 .. Len(s)
    BY <1>1, <2>1, Added
  <2>3. ASSUME NEW j \in DOMAIN t PROVE \E l \in 1 .. i + 1 : t[j] = f[l]
    <3>1. CASE j \in 1 .. Len(s)
      BY <1>4, <2>2, <3>1
    <3>2. CASE j = Len(s) + 1
      <4>1. i + 1 \in 1 .. i + 1 /\ t[j] = f[i + 1]
        BY <1>2, <2>2, <3>2
      <4> QED BY <4>1
    <3>3. j \in 1 .. Len(s) \/ j = Len(s) + 1
      BY <1>1, <2>2
    <3> QED BY <3>1, <3>2, <3>3
  <2>4. ASSUME NEW x
        PROVE  Entry(t, x) = IF x = n THEN None ELSE UpTo(f, i + 1, x)
    <3>1. Entry(t, x) = IF e.name = x THEN e.value ELSE Entry(s, x)
      BY <1>1, <2>1, EntryAppend
    <3> QED BY <1>1, <1>3, <1>6, <3>1
  <2>5. Len(t) <= i + 1
    BY <1>1, <2>2
  <2>6. Kept(f, n, i + 1, t)
    BY <2>2, <2>3, <2>4, <2>5 DEF Kept
  <2> QED BY <1>2, <1>6, <2>1, <2>6
<1> QED BY <1>5, <1>6

\* So it has after every line.
LEMMA WritesKept ==
  ASSUME NEW f \in Seq(Entries), NEW n, NEW g, Writes(f, n, Len(f), g)
  PROVE  Kept(f, n, Len(f), g[Len(f)])
<1>1. Len(f) \in Nat
  BY LenProperties
<1> DEFINE Bad == {i \in Nat : i <= Len(f) /\ ~Kept(f, n, i, g[i])}
<1>2. SUFFICES ASSUME Bad # {} PROVE FALSE
  BY <1>1
<1>3. Bad \in SUBSET Nat
  OBVIOUS
<1>4. PICK m \in Bad : \A i \in Bad : m <= i
  BY <1>2, <1>3, Smallest
<1>5. m \in Nat /\ m <= Len(f) /\ ~Kept(f, n, m, g[m])
  BY <1>4
<1>6. \A i \in 0 .. Len(f) :
        g[i] = IF i = 0 THEN <<>>
               ELSE IF f[i].name = n THEN g[i - 1]
                                     ELSE Append(g[i - 1], f[i])
  BY Zenon DEF Writes
<1>7. CASE m = 0
  <2>1. g[0] = <<>>
    BY <1>1, <1>6
  <2>2. <<>> \in Seq(Entries) /\ Len(<<>>) = 0
        /\ \A x : Entry(<<>>, x) = None
    BY EntryEmpty
  <2>3. \A x : UpTo(f, 0, x) = None
    BY UpToEnds
  <2>4. DOMAIN <<>> = {}
    OBVIOUS
  <2>5. Kept(f, n, 0, <<>>)
    BY <2>2, <2>3, <2>4 DEF Kept
  <2> QED BY <1>5, <1>7, <2>1, <2>5
<1>8. CASE m # 0
  <2>1. PICK i \in Nat : m = i + 1
    BY <1>5, <1>8
  <2>2. i < Len(f) /\ i \notin Bad
    BY <1>1, <1>4, <1>5, <2>1
  <2>3. Kept(f, n, i, g[i])
    BY <1>1, <2>2
  <2>4. g[m] = IF f[m].name = n THEN g[i] ELSE Append(g[i], f[m])
    <3>1. m \in 0 .. Len(f) /\ m - 1 = i
      BY <1>1, <1>5, <2>1
    <3> QED BY <1>6, <1>8, <3>1
  <2> QED BY <1>5, <2>1, <2>2, <2>3, <2>4, KeptNext
<1> QED BY <1>7, <1>8

\* And there is such a function.
LEMMA WritesExists ==
  ASSUME NEW f \in Seq(Entries), NEW n
  PROVE  \E g : Writes(f, n, Len(f), g)
<1>1. Len(f) \in Nat
  BY LenProperties
<1> DEFINE Bad == {m \in Nat : m <= Len(f) /\ ~\E g : Writes(f, n, m, g)}
<1>2. SUFFICES ASSUME Bad # {} PROVE FALSE
  BY <1>1
<1>3. Bad \in SUBSET Nat
  OBVIOUS
<1>4. PICK m \in Bad : \A i \in Bad : m <= i
  BY <1>2, <1>3, Smallest
<1>5. m \in Nat /\ m <= Len(f) /\ ~\E g : Writes(f, n, m, g)
  BY <1>4
<1>6. CASE m = 0
  <2> DEFINE g0 == [i \in 0 .. m |-> <<>>]
  <2>1. \A i \in 0 .. m : i = 0
    BY <1>6
  <2>2. Writes(f, n, m, g0)
    BY <2>1 DEF Writes
  <2> QED BY <1>5, <2>2
<1>7. CASE m # 0
  <2>1. PICK k \in Nat : m = k + 1
    BY <1>5, <1>7
  <2>2. k <= Len(f) /\ k \notin Bad
    BY <1>1, <1>4, <1>5, <2>1
  <2>3. PICK g : Writes(f, n, k, g)
    BY <2>2
  <2> DEFINE Out(h, i) == IF f[i].name = n THEN h[i - 1]
                                           ELSE Append(h[i - 1], f[i])
             h0 == [i \in 0 .. m |-> IF i = m THEN Out(g, m) ELSE g[i]]
  <2>4. \A i \in 0 .. k : g[i] = IF i = 0 THEN <<>> ELSE Out(g, i)
    BY <2>3, Zenon DEF Writes
  <2>5. ASSUME NEW i \in 0 .. m
        PROVE  h0[i] = IF i = 0 THEN <<>> ELSE Out(h0, i)
    <3>1. CASE i = m
      <4>1. i - 1 \in 0 .. m /\ i - 1 # m /\ i # 0
        BY <2>1, <3>1
      <4>2. h0[i - 1] = g[i - 1]
        BY <4>1
      <4> QED BY <3>1, <4>1, <4>2
    <3>2. CASE i # m
      <4>1. i \in 0 .. k
        BY <2>1, <3>2
      <4>2. h0[i] = g[i]
        BY <3>2
      <4>3. i # 0 => i - 1 \in 0 .. m /\ i - 1 # m
        BY <2>1, <4>1
      <4>4. i # 0 => h0[i - 1] = g[i - 1]
        BY <4>3
      <4> QED BY <2>4, <4>1, <4>2, <4>4
    <3> QED BY <3>1, <3>2
  <2>6. h0 = [i \in 0 .. m |-> IF i = 0 THEN <<>> ELSE Out(h0, i)]
    <3>1. \A i \in 0 .. m : h0[i] = IF i = 0 THEN <<>> ELSE Out(h0, i)
      BY <2>5
    <3> HIDE DEF Out
    <3> QED BY <3>1
  <2>7. Writes(f, n, m, h0)
    BY <2>6, Zenon DEF Writes
  <2> QED BY <1>5, <2>7
<1> QED BY <1>6, <1>7

\* What is left of a file: other lines of it, with their settings.
LEMMA WithoutLines ==
  ASSUME NEW f \in Seq(Entries), NEW n
  PROVE  Kept(f, n, Len(f), Without(f, n))
<1>1. PICK g : Writes(f, n, Len(f), g)
  BY WritesExists
<1>2. \E h : Writes(f, n, Len(f), h) /\ Without(f, n) = h[Len(f)]
  BY <1>1, Zenon DEF Writes, Without
<1> QED BY <1>2, WritesKept

\* The settings of the other devices stay.
LEMMA WithoutSettings ==
  ASSUME NEW f \in Seq(Entries), NEW n
  PROVE  /\ Without(f, n) \in Seq(Entries) /\ Len(Without(f, n)) <= Len(f)
         /\ \A j \in DOMAIN Without(f, n) :
              \E l \in DOMAIN f : Without(f, n)[j] = f[l]
         /\ \A x : Entry(Without(f, n), x) = IF x = n THEN None
                                                      ELSE Entry(f, x)
<1>1. DOMAIN f = 1 .. Len(f)
  BY LenProperties
<1>2. \A x : UpTo(f, Len(f), x) = Entry(f, x)
  BY UpToEnds
<1> QED BY <1>1, <1>2, WithoutLines DEF Kept

-----------------------------------------------------------------------------
(* The inductive invariants.                                               *)

\* A file that can be kept, of lines that start-up accepts.
Sound(f) ==
  /\ f \in Seq(Entries) /\ Len(f) <= MaxEntries
  /\ \A i \in DOMAIN f : f[i].value % 10 = 0
Accepted(f) ==
  \A i \in DOMAIN f : f[i].name \in Ranged => InRange(f[i].name, f[i].value)
Fine(f) == Sound(f) /\ Accepted(f)

\* Start-up has a line to read, or has just read the last one.
Reading == IF pc = "boot" THEN pos <= Len(file) + 1 ELSE pos = 1

\* A command that is under way was accepted, and goes the way of its kind.
Asked ==
  /\ pc \in {"device", "remove", "append", "sync", "clean", "flush"} =>
       ~Refused(call) /\ ~FixedClock(call)
  /\ pc \in {"remove", "append", "sync"} => call.op = "setboot"
  /\ pc \in {"clean", "flush"} => call.op = "restore"

FileInv == TypeOK /\ Fine(file) /\ Fine(disk) /\ Reading /\ Asked

\* A clock without a range has no setting.
Free(f) ==
  kind = "clock" => \A n \in Known \ Ranged : Entry(f, n) = None

\* What a command that no change was refused to has come to.
Stored(f) == Entry(f, call.name) = Rounded(call.value)
Cleared(f) == Entry(f, call.name) = None
Written ==
  ~refused =>
    /\ pc = "sync" => Stored(file)
    /\ Succeeded("setboot") => Stored(file) /\ Stored(disk)
    /\ pc = "flush" => Cleared(file)
    /\ Succeeded("restore") => Cleared(file) /\ Cleared(disk)

DurableInv == Free(file) /\ Free(disk) /\ Written

\* Every line is about a device that the daemon knows.
OnlyKnown(f) == \A i \in DOMAIN f : f[i].name \in Known

\* The devices have what the lines read so far say.
SoFar ==
  pc = "boot" => \A n \in Known : UpTo(file, pos - 1, n) # None =>
                                    dev[n] = UpTo(file, pos - 1, n)

BootInv == OnlyKnown(file) /\ OnlyKnown(disk) /\ SoFar /\ Booted

-----------------------------------------------------------------------------
(* Devices, values and lines.                                              *)

\* The devices of either kind, and what commands ask for them.
LEMMA KnownTypes ==
  ASSUME kind \in Kinds
  PROVE  /\ Known \subseteq Names /\ Known \cap Retired = {}
         /\ \A n \in Known : Default[n] \in Nat /\ PowerUp[n] \in Nat
<1>1. Known \subseteq Names
  BY DEF Known, Names, Kinds
<1>2. Known \cap Retired = {}
  BY NamesAssumption DEF Known
<1>3. Known \subseteq Names \ Retired
  BY <1>1, <1>2
<1> QED BY <1>1, <1>2, <1>3, ValuesAssumption

LEMMA CallTypes ==
  ASSUME kind \in Kinds, NEW c \in Calls
  PROVE  /\ c.name \in Known /\ c.value \in Nat
         /\ c.op \in {"set", "setboot", "restore"}
<1>1. CASE c \in [op : {"set", "setboot"}, name : Known, value : Requests]
  BY <1>1, ValuesAssumption
<1>2. CASE \E n \in Known :
             c = [op |-> "restore", name |-> n, value |-> Default[n]]
  BY <1>2, KnownTypes
<1> QED BY <1>1, <1>2 DEF Calls

\* Rounding to the unit of the file does not leave a range given in it.
LEMMA RoundedFits ==
  ASSUME NEW v \in Nat
  PROVE  /\ Rounded(v) \in Nat /\ Rounded(v) % 10 = 0
         /\ \A l, h \in Nat : l % 10 = 0 /\ h % 10 = 0 /\ l <= v /\ v <= h =>
                                l <= Rounded(v) /\ Rounded(v) <= h
<1>1. PICK q \in Nat : q = (v + 5) \div 10
  OBVIOUS
<1>2. 10 * q <= v + 5 /\ v + 5 < 10 * q + 10
  BY <1>1
<1>3. Rounded(v) = 10 * q
  BY <1>1 DEF Rounded
<1>4. 10 * q \in Nat /\ (10 * q) % 10 = 0
  OBVIOUS
<1>5. ASSUME NEW l \in Nat, NEW h \in Nat, l % 10 = 0, h % 10 = 0, l <= v,
             v <= h
      PROVE  l <= 10 * q /\ 10 * q <= h
  <2>1. PICK a \in Nat : l = 10 * a
    BY <1>5
  <2>2. PICK b \in Nat : h = 10 * b
    BY <1>5
  <2> QED BY <1>2, <1>5, <2>1, <2>2
<1> QED BY <1>3, <1>4, <1>5

\* What sed leaves of a fine file is fine.
LEMMA FineWithout ==
  ASSUME NEW f, Fine(f), NEW n
  PROVE  Fine(Without(f, n))
<1>1. f \in Seq(Entries) /\ Len(f) <= MaxEntries /\ MaxEntries \in Nat
  BY ValuesAssumption DEF Fine, Sound
<1>2. PICK g : g = Without(f, n)
  OBVIOUS
<1>3. /\ g \in Seq(Entries) /\ Len(g) <= Len(f)
      /\ \A j \in DOMAIN g : \E l \in DOMAIN f : g[j] = f[l]
  BY <1>1, <1>2, WithoutSettings
<1>4. Len(g) <= MaxEntries
  BY <1>1, <1>3, LenProperties
<1> QED BY <1>2, <1>3, <1>4 DEF Fine, Sound, Accepted

\* The line that a command appends.
Line(c) == [name |-> c.name, value |-> Rounded(c.value)]

\* It is fine when the command was not refused.
LEMMA FineAppend ==
  ASSUME kind \in Kinds, NEW c \in Calls, ~Refused(c),
         NEW f, Fine(f), Len(f) < MaxEntries
  PROVE  Line(c) \in Entries /\ Fine(Append(f, Line(c)))
<1>1. PICK n, v, w : n = c.name /\ v = c.value /\ w = Rounded(v)
  OBVIOUS
<1>2. n \in Known /\ n \in Names /\ v \in Nat
  BY <1>1, CallTypes, KnownTypes
<1>3. /\ w \in Nat /\ w % 10 = 0
      /\ \A l, h \in Nat : l % 10 = 0 /\ h % 10 = 0 /\ l <= v /\ v <= h =>
                             l <= w /\ w <= h
  BY <1>1, <1>2, RoundedFits
<1>4. n \in Ranged => InRange(n, w)
  <2>1. ASSUME n \in Ranged PROVE InRange(n, w)
    <3>1. InRange(n, v)
      BY <1>1, <2>1 DEF Refused
    <3>2. PICK l \in Nat, h \in Nat : /\ l = Low[n] /\ h = High[n]
                                      /\ l % 10 = 0 /\ h % 10 = 0
      BY <2>1, RangeAssumption
    <3> QED BY <1>3, <3>1, <3>2 DEF InRange
  <2> QED BY <2>1
<1>5. PICK e : e = Line(c)
  OBVIOUS
<1>6. e \in Entries /\ e.name = n /\ e.value = w
  BY <1>1, <1>2, <1>3, <1>5 DEF Line, Entries
<1>7. PICK g : g = Append(f, e)
  OBVIOUS
<1>8. /\ f \in Seq(Entries) /\ \A i \in DOMAIN f : f[i].value % 10 = 0
      /\ MaxEntries \in Nat
  BY ValuesAssumption DEF Fine, Sound
<1>9. /\ g \in Seq(Entries) /\ Len(g) = Len(f) + 1 /\ Len(f) \in Nat
      /\ \A i \in DOMAIN f : g[i] = f[i]
      /\ g[Len(f) + 1] = e
      /\ DOMAIN g = DOMAIN f \cup {Len(f) + 1}
  <2>1. /\ g \in Seq(Entries) /\ Len(g) = Len(f) + 1 /\ Len(f) \in Nat
        /\ \A i \in 1 .. Len(f) : g[i] = f[i]
        /\ g[Len(f) + 1] = e
        /\ DOMAIN g = 1 .. Len(f) + 1 /\ DOMAIN f = 1 .. Len(f)
    BY <1>6, <1>7, <1>8, Added
  <2>2. 1 .. Len(f) + 1 = (1 .. Len(f)) \cup {Len(f) + 1}
    BY <2>1
  <2> QED BY <2>1, <2>2
<1>10. Sound(g)
  BY <1>3, <1>6, <1>8, <1>9 DEF Sound
<1>11. Accepted(g)
  BY <1>4, <1>6, <1>9 DEF Accepted, Fine
<1> QED BY <1>5, <1>6, <1>7, <1>10, <1>11 DEF Fine

\* And the setting of its device alone is another one.
LEMMA AppendSettings ==
  ASSUME kind \in Kinds, NEW c \in Calls, ~Refused(c),
         NEW f, Fine(f), Len(f) < MaxEntries, NEW x
  PROVE  Entry(Append(f, Line(c)), x) =
           IF x = c.name THEN Rounded(c.value) ELSE Entry(f, x)
<1>1. Line(c) \in Entries /\ f \in Seq(Entries)
  BY FineAppend DEF Fine, Sound
<1>2. Line(c).name = c.name /\ Line(c).value = Rounded(c.value)
  BY DEF Line
<1> QED BY <1>1, <1>2, EntryAppend

-----------------------------------------------------------------------------
(* Files stay fine, by action.                                             *)

\* What the start-up or the end of a command leaves alone.
LEMMA SameKind ==
  ASSUME kind' = kind
  PROVE  Known' = Known /\ Calls' = Calls
BY DEF Known, Calls

LEMMA InitFile ==
  ASSUME Init
  PROVE  FileInv
<1> USE DEF Init
<1>1. kind \in Kinds
  OBVIOUS
<1>2. file \in Files /\ Fine(file)
  BY FilesAssumption DEF Fine, Sound, Accepted
<1>3. dev \in [Known -> Nat \cup {Off}]
  BY <1>1, KnownTypes
<1>4. /\ file \in Seq(Entries) /\ disk \in Seq(Entries)
      /\ \A i \in DOMAIN file : file[i].value % 10 = 0
  BY <1>2 DEF Fine, Sound
<1>5. pos \in 1 .. MaxEntries + 1
  BY ValuesAssumption
<1>6. /\ pc \in Labels /\ last \in Known \cup {None} /\ refused \in BOOLEAN
      /\ ret \in {"none", "ok", "error", "booted"} /\ call \in Calls
  BY DEF Labels
<1>7. TypeOK
  BY <1>1, <1>3, <1>4, <1>5, <1>6, Zenon DEF TypeOK
<1> QED BY <1>2, <1>7 DEF FileInv, Reading, Asked

\* A command begins, or is refused.
LEMMA StartFile ==
  ASSUME FileInv, NEW c \in Calls, Start(c)
  PROVE  FileInv'
<1>1. Known' = Known /\ Calls' = Calls
  BY SameKind DEF Start
<1>2. TypeOK'
  BY <1>1 DEF FileInv, TypeOK, Start, Return, Labels
<1>3. Reading'
  BY DEF FileInv, Reading, Start, Return
<1>4. Asked'
  <2>1. CASE pc' = "device"
    <3>1. ~Refused(c) /\ ~FixedClock(c) /\ call' = c /\ kind' = kind
      BY <2>1, Zenon DEF Start, Return
    <3>2. ~Refused(call') /\ ~FixedClock(call')
      BY <3>1
    <3> QED BY <2>1, <3>1, <3>2 DEF Asked, Refused, FixedClock
  <2>2. CASE pc' = "idle"
    BY <2>2 DEF Asked
  <2> QED BY <2>1, <2>2, Zenon DEF Start, Return
<1>5. Fine(file)' /\ Fine(disk)'
  BY DEF FileInv, Start, Fine, Sound, Accepted
<1> QED BY <1>2, <1>3, <1>4, <1>5 DEF FileInv

\* The device is set, or the access fails.
LEMMA SetDeviceFile ==
  ASSUME FileInv, SetDevice
  PROVE  FileInv'
<1>1. Known' = Known /\ Calls' = Calls
  BY SameKind DEF SetDevice
<1>2. call.name \in Known /\ call.value \in Nat /\ kind \in Kinds
  BY CallTypes DEF FileInv, TypeOK
<1>3. dev' \in [Known -> Nat \cup {Off}]
  <2>1. PICK v \in Nat \cup {Off} \cup {dev[call.name]} :
          dev' = [dev EXCEPT ![call.name] = v]
    BY <1>2 DEF SetDevice, Left
  <2>2. dev \in [Known -> Nat \cup {Off}]
    BY DEF FileInv, TypeOK
  <2>3. v \in Nat \cup {Off}
    BY <1>2, <2>2
  <2> QED BY <1>2, <2>1, <2>2, <2>3
<1>4. pc' \in Labels /\ ret' \in {"none", "ok", "error", "booted"}
  BY DEF SetDevice, Return, Goto, Labels, FileInv, TypeOK
<1>5. TypeOK'
  BY <1>1, <1>3, <1>4 DEF FileInv, TypeOK, SetDevice
<1>6. Reading'
  BY DEF FileInv, Reading, SetDevice, Return, Goto
<1>7. Asked'
  <2>1. ~Refused(call) /\ ~FixedClock(call) /\ kind' = kind /\ call' = call
    BY DEF SetDevice, FileInv, Asked
  <2>2. ~Refused(call)' /\ ~FixedClock(call)'
    BY <2>1 DEF Refused, FixedClock
  <2>3. \/ pc' = "idle" \/ (pc' = "remove" /\ call.op = "setboot")
        \/ (pc' = "clean" /\ call.op = "restore")
    BY DEF SetDevice, Return, Goto
  <2> QED BY <2>1, <2>2, <2>3 DEF Asked
<1>8. Fine(file)' /\ Fine(disk)'
  BY DEF FileInv, SetDevice, Fine, Sound, Accepted
<1> QED BY <1>5, <1>6, <1>7, <1>8 DEF FileInv

\* What is left to show of a step on the files.
LEMMA FilesStep ==
  ASSUME FileInv, Fine(file'), Fine(disk'), pc' \in Labels,
         ret' \in {"none", "ok", "error", "booted"}, refused' \in BOOLEAN,
         UNCHANGED <<kind, dev, call, pos, last>>, Asked', pc # "boot",
         pc' # "boot"
  PROVE  FileInv'
<1>1. Known' = Known /\ Calls' = Calls
  BY SameKind
<1>2. TypeOK'
  BY <1>1 DEF FileInv, TypeOK, Fine, Sound
<1>3. Reading'
  BY DEF FileInv, Reading
<1>4. Fine(file)' /\ Fine(disk)'
  BY DEF Fine, Sound, Accepted
<1> QED BY <1>2, <1>3, <1>4 DEF FileInv

\* A command goes on to its next step.
LEMMA AskedStep ==
  ASSUME Asked, UNCHANGED <<kind, call>>,
         \/ pc = "remove" /\ pc' \in {"append", "idle"}
         \/ pc = "append" /\ pc' \in {"sync", "idle"}
         \/ pc = "clean" /\ pc' = "flush"
         \/ pc' = "idle"
  PROVE  Asked'
<1>1. CASE pc' = "idle"
  BY <1>1 DEF Asked
<1>2. CASE pc' # "idle"
  <2>1. ~Refused(call) /\ ~FixedClock(call)
    BY <1>2 DEF Asked
  <2>2. ~Refused(call)' /\ ~FixedClock(call)'
    BY <2>1 DEF Refused, FixedClock
  <2> QED BY <1>2, <2>2 DEF Asked
<1> QED BY <1>1, <1>2

\* Each of them leaves fine files.
LEMMA CommandFile ==
  ASSUME FileInv, Remove \/ AppendEntry \/ Sync \/ Clean \/ Flush
  PROVE  FileInv'
<1>1. Fine(file) /\ Fine(disk) /\ Asked /\ kind \in Kinds /\ call \in Calls
      /\ refused \in BOOLEAN /\ ret \in {"none", "ok", "error", "booted"}
  BY DEF FileInv, TypeOK
<1>2. CASE Remove
  <2>1. Fine(file')
    BY <1>1, <1>2, FineWithout DEF Remove, Keeps
  <2>2. Asked'
    BY <1>1, <1>2, AskedStep DEF Remove, Goto
  <2> QED BY <1>1, <1>2, <2>1, <2>2, FilesStep
          DEF Remove, Keeps, Goto, Labels
<1>3. CASE AppendEntry
  <2>1. Fine(file')
    <3>1. ~Refused(call)
      BY <1>1, <1>3 DEF AppendEntry, Asked
    <3>2. file' = Append(file, Line(call)) \/ file' = file
      BY <1>3, Zenon DEF AppendEntry, Keeps, Line
    <3>3. Len(file) < MaxEntries
      BY <1>3 DEF AppendEntry
    <3> QED BY <1>1, <3>1, <3>2, <3>3, FineAppend
  <2>2. pc = "append" /\ pc' \in {"sync", "idle"} /\ refused' \in BOOLEAN
        /\ ret' \in {"none", "ok", "error", "booted"}
        /\ UNCHANGED <<kind, dev, disk, call, pos, last>>
    BY <1>1, <1>3 DEF AppendEntry, Keeps, Goto, Return
  <2>3. Asked'
    BY <1>1, <2>2, AskedStep
  <2> QED BY <1>1, <2>1, <2>2, <2>3, FilesStep DEF Labels
<1>4. CASE Sync
  <2>1. Fine(disk')
    BY <1>1, <1>4 DEF Sync, Keeps
  <2>2. Asked'
    BY <1>1, <1>4, AskedStep DEF Sync, Return
  <2> QED BY <1>1, <1>4, <2>1, <2>2, FilesStep
          DEF Sync, Keeps, Return, Labels
<1>5. CASE Clean
  <2>1. Fine(file')
    BY <1>1, <1>5, FineWithout DEF Clean, Keeps
  <2>2. Asked'
    BY <1>1, <1>5, AskedStep DEF Clean, Goto, Return
  <2> QED BY <1>1, <1>5, <2>1, <2>2, FilesStep
          DEF Clean, Keeps, Goto, Return, Labels
<1>6. CASE Flush
  <2>1. Fine(disk')
    BY <1>1, <1>6 DEF Flush, Keeps
  <2>2. Asked'
    BY <1>1, <1>6, AskedStep DEF Flush, Return
  <2> QED BY <1>1, <1>6, <2>1, <2>2, FilesStep
          DEF Flush, Keeps, Return, Labels
<1> QED BY <1>2, <1>3, <1>4, <1>5, <1>6

\* A line of the file at start-up: one more, or the daemon ends.
LEMMA BootLineFile ==
  ASSUME FileInv, BootLine
  PROVE  FileInv'
<1>1. /\ kind \in Kinds /\ file \in Seq(Entries) /\ Len(file) <= MaxEntries
      /\ dev \in [Known -> Nat \cup {Off}] /\ last \in Known \cup {None}
      /\ pos \in 1 .. MaxEntries + 1 /\ MaxEntries \in Nat
  BY ValuesAssumption DEF FileInv, TypeOK, Fine, Sound
<1>2. /\ Known' = Known /\ Calls' = Calls
      /\ UNCHANGED <<kind, file, disk, call, refused>>
      /\ pc = "boot" /\ pos <= Len(file)
  BY SameKind DEF BootLine
<1>3. PICK e : e = file[pos]
  OBVIOUS
<1>4. e \in Entries
  <2>1. pos \in 1 .. Len(file) /\ Len(file) \in Nat
    BY <1>1, <1>2, LenProperties
  <2> QED BY <1>1, <1>3, <2>1, ElementOfSeq
<1>5. PICK n : n = Named(e)
  OBVIOUS
<1>6. e.value \in Nat /\ n \in Known \cup {None}
  BY <1>1, <1>4, <1>5 DEF Named, Entries
<1>7. \/ /\ Ended /\ UNCHANGED dev /\ pc' = "down" /\ ret' = "error"
      \/ /\ n # None /\ UNCHANGED <<pc, ret>>
         /\ dev' = [dev EXCEPT ![n] = e.value]
         /\ pos' = pos + 1 /\ last' = n
      \/ /\ n # None /\ Ended /\ pc' = "down" /\ ret' = "error"
         /\ \E v \in Left(n, e.value) : dev' = [dev EXCEPT ![n] = v]
  BY <1>3, <1>5 DEF BootLine, BootRefuses
<1>8. dev' \in [Known -> Nat \cup {Off}]
  <2>1. CASE UNCHANGED dev
    BY <1>1, <2>1
  <2>2. CASE n # None /\ dev' = [dev EXCEPT ![n] = e.value]
    BY <1>1, <1>6, <2>2
  <2>3. CASE n # None /\ \E v \in Left(n, e.value) :
                           dev' = [dev EXCEPT ![n] = v]
    <3>1. PICK v \in Left(n, e.value) : dev' = [dev EXCEPT ![n] = v]
      BY <2>3
    <3>2. n \in Known
      BY <1>6, <2>3
    <3>3. v \in Nat \cup {Off}
      BY <1>1, <1>6, <3>1, <3>2 DEF Left
    <3> QED BY <1>1, <3>1, <3>2, <3>3
  <2> QED BY <1>7, <2>1, <2>2, <2>3
<1>9. pos' \in 1 .. MaxEntries + 1 /\ Reading'
  <2>1. Len(file) \in Nat
    BY <1>1, LenProperties
  <2> QED BY <1>1, <1>2, <1>7, <2>1 DEF Reading, Ended
<1>10. /\ last' \in Known \cup {None} /\ pc' \in Labels
       /\ ret' \in {"none", "ok", "error", "booted"}
  BY <1>2, <1>6, <1>7 DEF Ended, Labels, FileInv, TypeOK
<1>11. TypeOK'
  BY <1>2, <1>8, <1>9, <1>10 DEF FileInv, TypeOK
<1>12. Asked'
  BY <1>2, <1>7 DEF Asked
<1>13. Fine(file)' /\ Fine(disk)'
  BY <1>2 DEF FileInv, Fine, Sound, Accepted
<1> QED BY <1>9, <1>11, <1>12, <1>13 DEF FileInv

\* Start-up begins or is over, the daemon is killed, the file is written.
LEMMA DaemonFile ==
  ASSUME FileInv, Restart \/ BootDone \/ Die \/ WriteBack
  PROVE  FileInv'
<1>1. /\ Known' = Known /\ Calls' = Calls
      /\ UNCHANGED <<kind, dev, file, call, refused>>
  BY SameKind DEF Restart, BootDone, Die, WriteBack
<1>2. Fine(file)' /\ Fine(disk)'
  BY <1>1 DEF Restart, BootDone, Die, WriteBack, FileInv, Fine, Sound,
              Accepted
<1>3. MaxEntries \in Nat /\ pos \in 1 .. MaxEntries + 1
      /\ file \in Seq(Entries)
  BY ValuesAssumption DEF FileInv, TypeOK
<1>4. pos' \in 1 .. MaxEntries + 1 /\ Reading'
  <2>1. Len(file) \in Nat
    BY <1>3, LenProperties
  <2> QED BY <1>1, <1>3, <2>1 DEF FileInv, Reading, Restart, BootDone, Die,
                                  WriteBack, Ended, Return
<1>5. /\ last' \in Known \cup {None} /\ pc' \in Labels
      /\ ret' \in {"none", "ok", "error", "booted"}
  BY DEF FileInv, TypeOK, Labels, Restart, BootDone, Die, WriteBack, Ended,
         Return
<1>6. TypeOK'
  BY <1>1, <1>2, <1>4, <1>5 DEF FileInv, TypeOK, Fine, Sound
<1>7. Asked'
  <2>1. CASE pc' = pc
    <3>1. Asked /\ UNCHANGED <<kind, call>>
      BY <1>1 DEF FileInv
    <3> QED BY <2>1, <3>1 DEF Asked, Refused, FixedClock
  <2>2. CASE pc' \in {"boot", "idle", "down"}
    BY <2>2 DEF Asked
  <2> QED BY <2>1, <2>2 DEF Restart, BootDone, Die, WriteBack, Return
<1> QED BY <1>2, <1>4, <1>6, <1>7 DEF FileInv

\* The board loses power.
LEMMA PowerCycleFile ==
  ASSUME FileInv, PowerCycle
  PROVE  FileInv'
<1>1. /\ Known' = Known /\ Calls' = Calls /\ file' = disk
      /\ UNCHANGED <<kind, disk, call, refused>> /\ pc' = "down"
      /\ dev' = [n \in Known |-> PowerUp[n]]
  BY SameKind DEF PowerCycle
<1>2. Fine(file)' /\ Fine(disk)'
  BY <1>1 DEF FileInv, Fine, Sound, Accepted
<1>3. dev' \in [Known -> Nat \cup {Off}]
  BY <1>1, KnownTypes DEF FileInv, TypeOK
<1>4. pos' \in 1 .. MaxEntries + 1 /\ pos' = 1
  BY ValuesAssumption DEF PowerCycle, Ended
<1>5. /\ last' \in Known \cup {None} /\ pc' \in Labels
      /\ ret' \in {"none", "ok", "error", "booted"}
  BY DEF Labels, PowerCycle, Ended
<1>6. TypeOK'
  BY <1>1, <1>2, <1>3, <1>4, <1>5 DEF FileInv, TypeOK, Fine, Sound
<1> QED BY <1>1, <1>2, <1>4, <1>6 DEF FileInv, Reading, Asked

LEMMA FileStep ==
  ASSUME FileInv, [Next]_vars
  PROVE  FileInv'
<1>1. ASSUME NEW c \in Calls, Start(c) PROVE FileInv'
  BY <1>1, StartFile
<1>2. CASE UNCHANGED vars
  <2> USE <1>2 DEF vars
  <2>1. Known' = Known /\ Calls' = Calls
    BY SameKind
  <2>2. TypeOK'
    BY <2>1 DEF FileInv, TypeOK
  <2>3. Fine(file)' /\ Fine(disk)' /\ Reading'
    BY DEF FileInv, Fine, Sound, Accepted, Reading
  <2>4. Asked'
    BY DEF FileInv, Asked, Refused, FixedClock
  <2> QED BY <2>2, <2>3, <2>4 DEF FileInv
<1> QED BY <1>1, <1>2, SetDeviceFile, CommandFile, BootLineFile, DaemonFile,
           PowerCycleFile, Zenon DEF Next

LEMMA FileInductive == Spec => []FileInv
<1>1. Init => FileInv
  BY InitFile
<1>2. FileInv /\ [Next]_vars => FileInv'
  BY FileStep
<1> QED BY <1>1, <1>2, PTL DEF Spec

(***************************************************************************)
(* The devices, the files and the command in progress are what they can    *)
(* be: every stored value is one that the file can keep.                   *)
(***************************************************************************)
THEOREM TypeCorrect == Spec => []TypeOK
<1>1. FileInv => TypeOK
  BY DEF FileInv
<1> QED BY <1>1, FileInductive, PTL

(***************************************************************************)
(* No line that commands, failures, kills and losses of power can leave is *)
(* out of the range of its device: what setbootvoltage or setbootclock     *)
(* stored is never refused by Boot_Set_Voltages.                           *)
(***************************************************************************)
THEOREM StoredIsAccepted == Spec => []NeverLocksOut
<1>1. FileInv => NeverLocksOut
  BY DEF FileInv, Fine, Accepted, NeverLocksOut
<1> QED BY <1>1, FileInductive, PTL

-----------------------------------------------------------------------------
(* The files implement the boot settings.                                  *)

\* What counts for a device is a value, or nothing.
LEMMA EntryType ==
  ASSUME NEW f \in Seq(Entries), NEW n
  PROVE  Entry(f, n) \in Nat \cup {None}
<1>1. \A i \in DOMAIN f : f[i].value \in Nat
  <2>1. \A i \in 1 .. Len(f) : f[i] \in Entries
    BY ElementOfSeq
  <2>2. DOMAIN f = 1 .. Len(f)
    BY LenProperties
  <2> QED BY <2>1, <2>2 DEF Entries
<1> QED BY <1>1, EntryIn

\* A setting that a crash or a loss of power cannot take back.
Settled(n) == n \notin Changing /\ Entry(file, n) = Entry(disk, n)

\* A step that settles settings, and changes none that is settled.
LEMMA ChangeStep ==
  ASSUME \A n \in Names : Settled(n) => n \notin Changing',
         \A n \in Names : Settled(n) =>
           /\ Entry(file', n) = Entry(disk', n)
           /\ Entry(file', n) = Entry(file, n)
  PROVE  Settings!Change
<1>1. {n \in Names \ Changing : Entry(file, n) = Entry(disk, n)}
        \subseteq {n \in Names \ Changing' : Entry(file', n) = Entry(disk', n)}
  BY DEF Settled
<1>2. ASSUME NEW n \in Names, Entry(file', n) # Entry(file, n)
      PROVE  n \notin {m \in Names \ Changing :
                         Entry(file, m) = Entry(disk, m)}
  BY <1>2 DEF Settled
<1>3. \A n \in Names :
        [m \in Names |-> Entry(file', m)][n] = Entry(file', n)
        /\ [m \in Names |-> Entry(file, m)][n] = Entry(file, n)
  OBVIOUS
<1> QED BY <1>1, <1>2, <1>3 DEF Settings!Change

\* A step that leaves the files alone, and begins no command on them.
LEMMA SameFiles ==
  ASSUME UNCHANGED <<file, disk>>, Changing' \subseteq Changing
  PROVE  Settings!Change
<1>1. \A n \in Names : Settled(n) => n \notin Changing'
  BY DEF Settled
<1>2. \A n \in Names : Settled(n) =>
        Entry(file', n) = Entry(disk', n) /\ Entry(file', n) = Entry(file, n)
  BY DEF Settled
<1> QED BY <1>1, <1>2, ChangeStep

\* A command on a boot setting is where the setting may be lost.
LEMMA StartSettings ==
  ASSUME FileInv, NEW c \in Calls, Start(c)
  PROVE  Settings!Change \/ \E n \in Names : Settings!Begin(n)
<1>1. /\ pc = "idle" /\ call' = c /\ UNCHANGED <<kind, file, disk>>
      /\ pc' \in {"idle", "device"}
  BY DEF Start, Return
<1>2. Changing = {}
  BY <1>1 DEF Changing
<1>3. CASE pc' = "idle" \/ c.op = "set"
  <2>1. Changing' = {}
    BY <1>1, <1>3 DEF Changing
  <2> QED BY <1>1, <2>1, SameFiles
<1>4. CASE pc' = "device" /\ c.op # "set"
  <2>1. Changing' = {c.name}
    BY <1>1, <1>4 DEF Changing
  <2>2. c.name \in Names
    <3>1. kind \in Kinds
      BY DEF FileInv, TypeOK
    <3> QED BY <3>1, CallTypes, KnownTypes
  <2>3. {n \in Names \ Changing' : Entry(file', n) = Entry(disk', n)} =
        {n \in Names \ Changing : Entry(file, n) = Entry(disk, n)} \ {c.name}
    BY <1>1, <1>2, <2>1
  <2>4. [n \in Names |-> Entry(file', n)] = [n \in Names |-> Entry(file, n)]
    BY <1>1
  <2>5. Settings!Begin(c.name)
    BY <2>3, <2>4 DEF Settings!Begin
  <2> QED BY <2>2, <2>5
<1> QED BY <1>1, <1>3, <1>4

\* A step on the file is one on the setting of the command in progress.
LEMMA CommandSettings ==
  ASSUME FileInv, Remove \/ AppendEntry \/ Clean
  PROVE  Settings!Change
<1>1. /\ kind \in Kinds /\ call \in Calls /\ Fine(file)
      /\ file \in Seq(Entries) /\ Asked
  BY DEF FileInv, TypeOK
<1>2. /\ pc \in {"remove", "append", "clean"} /\ call.op # "set"
      /\ UNCHANGED <<disk, call>>
      /\ pc' \in {"append", "sync", "flush", "idle"}
  BY <1>1 DEF Remove, AppendEntry, Clean, Goto, Return, Asked
<1>3. Changing = {call.name}
  BY <1>2 DEF Changing
<1>4. Changing' \subseteq {call.name}
  BY <1>2 DEF Changing
<1>5. ASSUME NEW n \in Names, n # call.name
      PROVE  Entry(file', n) = Entry(file, n)
  <2>1. CASE file' = Without(file, call.name)
    BY <1>1, <1>5, <2>1, WithoutSettings
  <2>2. CASE AppendEntry /\ file' # file
    <3>1. ~Refused(call) /\ Len(file) < MaxEntries
      BY <1>1, <2>2 DEF Asked, AppendEntry
    <3>2. file' = Append(file, Line(call))
      BY <2>2, Zenon DEF AppendEntry, Keeps, Line
    <3> QED BY <1>1, <1>5, <3>1, <3>2, AppendSettings
  <2> QED BY <2>1, <2>2 DEF Remove, Clean, AppendEntry, Keeps
<1>6. \A n \in Names : Settled(n) => n # call.name
  BY <1>3 DEF Settled
<1>7. \A n \in Names : Settled(n) => n \notin Changing'
  BY <1>4, <1>6
<1>8. \A n \in Names : Settled(n) =>
        Entry(file', n) = Entry(disk', n) /\ Entry(file', n) = Entry(file, n)
  BY <1>2, <1>5, <1>6 DEF Settled
<1> QED BY <1>7, <1>8, ChangeStep

\* After a step that writes the disk the two files are the same.
LEMMA DiskSettings ==
  ASSUME FileInv, Sync \/ Flush \/ WriteBack \/ PowerCycle
  PROVE  Settings!Change
<1>1. Changing' \subseteq Changing
  <2>1. CASE pc' = pc /\ call' = call
    BY <2>1 DEF Changing
  <2>2. CASE pc' \in {"idle", "down"}
    BY <2>2 DEF Changing
  <2> QED BY <2>1, <2>2 DEF Sync, Flush, WriteBack, PowerCycle, Return
<1>2. CASE UNCHANGED <<file, disk>>
  BY <1>1, <1>2, SameFiles
<1>3. CASE UNCHANGED file /\ disk' = file
  <2>1. \A n \in Names : Settled(n) => n \notin Changing'
    BY <1>1 DEF Settled
  <2> QED BY <1>3, <2>1, ChangeStep
<1>4. CASE UNCHANGED disk /\ file' = disk
  <2>1. \A n \in Names : Settled(n) => n \notin Changing'
    BY <1>1 DEF Settled
  <2>2. \A n \in Names : Settled(n) => Entry(disk, n) = Entry(file, n)
    BY DEF Settled
  <2> QED BY <1>4, <2>1, <2>2, ChangeStep
<1> QED BY <1>2, <1>3, <1>4
        DEF Sync, Flush, WriteBack, PowerCycle, Keeps

LEMMA SettingsStep ==
  ASSUME FileInv, [Next]_vars
  PROVE  [Settings!Next]_(Settings!settings)
<1>1. SUFFICES Settings!Change \/ \E n \in Names : Settings!Begin(n)
  BY DEF Settings!Next
<1>2. ASSUME NEW c \in Calls, Start(c)
      PROVE  Settings!Change \/ \E n \in Names : Settings!Begin(n)
  BY <1>2, StartSettings
<1>3. CASE Remove \/ AppendEntry \/ Clean
  BY <1>3, CommandSettings
<1>4. CASE Sync \/ Flush \/ WriteBack \/ PowerCycle
  BY <1>4, DiskSettings
<1>5. CASE SetDevice
  <2>1. Changing' \subseteq Changing
    BY <1>5 DEF SetDevice, Return, Goto, Changing
  <2>2. UNCHANGED <<file, disk>>
    BY <1>5 DEF SetDevice
  <2> QED BY <2>1, <2>2, SameFiles
<1>6. CASE Restart \/ BootLine \/ BootDone \/ Die
  <2>1. UNCHANGED <<file, disk>> /\ pc' \in {"down", "boot", "idle"}
    BY <1>6 DEF Restart, BootLine, BootDone, Die, Return
  <2>2. Changing' = {}
    BY <2>1 DEF Changing
  <2> QED BY <2>1, <2>2, SameFiles
<1>7. CASE UNCHANGED vars
  <2>1. UNCHANGED <<file, disk>> /\ Changing' = Changing
    BY <1>7 DEF vars, Changing
  <2> QED BY <2>1, SameFiles
<1> QED BY <1>2, <1>3, <1>4, <1>5, <1>6, <1>7, Zenon DEF Next

(***************************************************************************)
(* The boot files implement BootSettings, step by step: a step of a        *)
(* command, its failure, a kill, a loss of power or the kernel writing     *)
(* back changes no setting but that of the command in progress.            *)
(***************************************************************************)
THEOREM FilesImplement == Spec => Implements
<1>1. Init => Settings!Init
  <2> SUFFICES ASSUME Init PROVE Settings!Init
    OBVIOUS
  <2>1. pc = "down" /\ file = disk /\ file \in Seq(Entries)
    BY InitFile DEF Init, FileInv, TypeOK
  <2>2. Changing = {}
    BY <2>1 DEF Changing
  <2>3. {n \in Names \ Changing : Entry(file, n) = Entry(disk, n)} = Names
    BY <2>1, <2>2
  <2>4. [n \in Names |-> Entry(file, n)] \in [Names -> Nat \cup {None}]
    BY <2>1, EntryType
  <2> QED BY <2>3, <2>4 DEF Settings!Init
<1>2. FileInv /\ [Next]_vars => [Settings!Next]_(Settings!settings)
  BY SettingsStep
<1> QED BY <1>1, <1>2, FileInductive, PTL
        DEF Spec, Implements, Settings!Spec

-----------------------------------------------------------------------------
(* Successful commands are durable.                                        *)

\* No clock without a range has a line, in the file the daemon finds first.
NoFixedClock ==
  kind = "clock" =>
    \A i \in DOMAIN file : file[i].name \in Known => file[i].name \in Ranged

\* After a loss of power, a kill, or the end of a command with an error
\* nothing is claimed; nor while a command is on its way to the file.
LEMMA WrittenEnds ==
  ASSUME \/ pc' \notin {"sync", "flush", "idle"}
         \/ pc' = "idle" /\ ret' # "ok"
         \/ pc' = "idle" /\ call.op = "set" /\ call' = call
  PROVE  Written'
BY DEF Written, Succeeded

\* Settings of clocks without a range are neither written nor read back.
LEMMA FreeStep ==
  ASSUME FileInv, Free(file), Free(disk), [Next]_vars
  PROVE  Free(file') /\ Free(disk') /\ kind' = kind /\ Known' = Known
<1>1. kind' = kind
  BY Zenon DEF Next, Start, SetDevice, Remove, AppendEntry, Sync, Clean,
     Flush, Restart, BootLine, BootDone, Die, PowerCycle, WriteBack, vars
<1>2. /\ kind \in Kinds /\ call \in Calls /\ Fine(file)
      /\ file \in Seq(Entries) /\ Asked
  BY DEF FileInv, TypeOK
<1>3. disk' \in {file, disk}
  BY DEF Next, Start, SetDevice, Remove, AppendEntry, Sync, Clean,
     Flush, Restart, BootLine, BootDone, Die, PowerCycle, WriteBack, vars,
     Keeps
<1>4. CASE file' \in {file, disk}
  BY <1>1, <1>3, <1>4, SameKind
<1>5. CASE file' = Without(file, call.name)
  <2>1. \A n : Entry(file, n) = None => Entry(file', n) = None
    BY <1>2, <1>5, WithoutSettings
  <2> QED BY <1>1, <1>3, <2>1, SameKind DEF Free
<1>6. CASE AppendEntry /\ file' # file
  <2>1. ~Refused(call) /\ ~FixedClock(call) /\ Len(file) < MaxEntries
    BY <1>2, <1>6 DEF Asked, AppendEntry
  <2>2. file' = Append(file, Line(call))
    BY <1>6, Zenon DEF AppendEntry, Keeps, Line
  <2>3. kind = "clock" => call.name \in Ranged
    BY <2>1 DEF FixedClock
  <2>4. \A n : n # call.name => Entry(file', n) = Entry(file, n)
    BY <1>2, <2>1, <2>2, AppendSettings
  <2>5. Free(file')
    BY <2>3, <2>4 DEF Free
  <2> QED BY <1>1, <1>3, <2>5, SameKind
<1>7. file' \in {file, disk, Without(file, call.name)} \/ AppendEntry
  BY DEF Next, Start, SetDevice, Remove, Sync, Clean,
     Flush, Restart, BootLine, BootDone, Die, PowerCycle, WriteBack, vars,
     Keeps
<1> QED BY <1>4, <1>5, <1>6, <1>7

\* A command without a change to make is a restore of such a clock.
LEMMA StartWritten ==
  ASSUME FileInv, Free(file), Free(disk), NEW c \in Calls, Start(c)
  PROVE  Written'
<1>1. CASE pc' = "idle" /\ ret' = "ok"
  <2>1. ~Refused(c) /\ FixedClock(c) /\ call' = c /\ UNCHANGED <<file, disk>>
    BY <1>1, Zenon DEF Start, Return
  <2>2. kind = "clock" /\ c.name \notin Ranged /\ c.op = "restore"
    BY <2>1 DEF Refused, FixedClock
  <2>3. c.name \in Known
    BY CallTypes DEF FileInv, TypeOK
  <2>4. Entry(file, c.name) = None /\ Entry(disk, c.name) = None
    BY <2>2, <2>3 DEF Free
  <2> QED BY <1>1, <2>1, <2>2, <2>4 DEF Written, Succeeded, Cleared
<1>2. CASE ~(pc' = "idle" /\ ret' = "ok")
  <2>1. pc' \in {"idle", "device"}
    BY DEF Start, Return
  <2> QED BY <1>2, <2>1, WrittenEnds
<1> QED BY <1>1, <1>2

LEMMA CommandWritten ==
  ASSUME FileInv, Written,
         SetDevice \/ Remove \/ AppendEntry \/ Sync \/ Clean \/ Flush
  PROVE  Written'
<1>1. /\ kind \in Kinds /\ call \in Calls /\ Fine(file)
      /\ file \in Seq(Entries) /\ Asked /\ refused \in BOOLEAN
  BY DEF FileInv, TypeOK
<1>2. call' = call
  BY DEF SetDevice, Remove, AppendEntry, Sync, Clean, Flush
<1>3. CASE SetDevice
  BY <1>2, <1>3, WrittenEnds DEF SetDevice, Return, Goto
<1>4. CASE Remove
  BY <1>4, WrittenEnds DEF Remove, Goto
<1>5. CASE AppendEntry
  <2>1. CASE pc' = "idle"
    BY <1>5, <2>1, WrittenEnds DEF AppendEntry, Return, Goto
  <2>2. CASE pc' # "idle" /\ ~refused'
    <3>1. ~Refused(call) /\ Len(file) < MaxEntries
      BY <1>1, <1>5 DEF Asked, AppendEntry
    <3>2. file' = Append(file, Line(call)) /\ pc' = "sync"
      BY <1>5, <2>2 DEF AppendEntry, Keeps, Line, Goto, Return
    <3>3. Entry(file', call.name) = Rounded(call.value)
      BY <1>1, <3>1, <3>2, AppendSettings
    <3> QED BY <1>2, <3>2, <3>3 DEF Written, Succeeded, Stored
  <2> QED BY <2>1, <2>2 DEF Written
<1>6. CASE Sync
  <2>1. CASE ~refused'
    <3>1. /\ pc = "sync" /\ ~refused /\ pc' = "idle" /\ file' = file
          /\ disk' = file /\ call.op = "setboot"
      BY <1>1, <1>6, <2>1 DEF Sync, Keeps, Return, Asked
    <3>2. Entry(file, call.name) = Rounded(call.value)
      BY <3>1 DEF Written, Stored
    <3> QED BY <1>2, <3>1, <3>2 DEF Written, Succeeded, Stored
  <2> QED BY <2>1 DEF Written
<1>7. CASE Clean
  <2>1. CASE ~refused'
    <3>1. file' = Without(file, call.name) /\ pc' = "flush"
      BY <1>7, <2>1 DEF Clean, Keeps, Goto, Return
    <3>2. Entry(file', call.name) = None
      BY <1>1, <3>1, WithoutSettings
    <3> QED BY <1>2, <3>1, <3>2 DEF Written, Succeeded, Cleared
  <2> QED BY <2>1 DEF Written
<1>8. CASE Flush
  <2>1. CASE ~refused'
    <3>1. /\ pc = "flush" /\ ~refused /\ pc' = "idle" /\ file' = file
          /\ disk' = file /\ call.op = "restore"
      BY <1>1, <1>8, <2>1 DEF Flush, Keeps, Return, Asked
    <3>2. Entry(file, call.name) = None
      BY <3>1 DEF Written, Cleared
    <3> QED BY <1>2, <3>1, <3>2 DEF Written, Succeeded, Cleared
  <2> QED BY <2>1 DEF Written
<1> QED BY <1>3, <1>4, <1>5, <1>6, <1>7, <1>8

LEMMA DurableStep ==
  ASSUME FileInv, DurableInv, [Next]_vars
  PROVE  DurableInv'
<1>1. Free(file) /\ Free(disk) /\ Written
  BY DEF DurableInv
<1>2. Free(file)' /\ Free(disk)'
  BY <1>1, FreeStep DEF Free
<1>3. SUFFICES Written'
  BY <1>2 DEF DurableInv
<1>4. ASSUME NEW c \in Calls, Start(c) PROVE Written'
  BY <1>1, <1>4, StartWritten
<1>5. CASE SetDevice \/ Remove \/ AppendEntry \/ Sync \/ Clean \/ Flush
  BY <1>1, <1>5, CommandWritten
<1>6. CASE Restart \/ BootLine \/ BootDone \/ Die \/ PowerCycle
  <2>1. pc' \in {"boot", "down"} \/ (pc' = "idle" /\ ret' = "booted")
    BY <1>6 DEF Restart, BootLine, BootDone, Die, PowerCycle, Return
  <2> QED BY <2>1, WrittenEnds
<1>7. CASE WriteBack
  BY <1>1, <1>7 DEF WriteBack, Written, Succeeded, Stored, Cleared
<1>8. CASE UNCHANGED vars
  BY <1>1, <1>8 DEF vars, Written, Succeeded, Stored, Cleared
<1> QED BY <1>4, <1>5, <1>6, <1>7, <1>8, Zenon DEF Next

(***************************************************************************)
(* A setboot that succeeds is on the disk, and a restore that succeeds has *)
(* cleared the file and the disk, unless a change was refused to it; given *)
(* that no earlier release left a line of a clock without a range: that    *)
(* restoreclock answers such a clock before it looks at the file.          *)
(***************************************************************************)
THEOREM SettingsSurvive == Spec /\ NoFixedClock => []Durable
<1>1. Init /\ NoFixedClock => DurableInv
  <2> SUFFICES ASSUME Init, NoFixedClock PROVE DurableInv
    OBVIOUS
  <2>1. file = disk /\ file \in Seq(Entries) /\ pc = "down"
    BY InitFile DEF Init, FileInv, TypeOK
  <2>2. ASSUME kind = "clock", NEW n \in Known \ Ranged
        PROVE  Entry(file, n) = None
    <3>1. \A i \in DOMAIN file : file[i].name # n
      BY <2>2 DEF NoFixedClock
    <3> QED BY <2>1, <3>1, EntryIn
  <2> QED BY <2>1, <2>2 DEF DurableInv, Free, Written, Succeeded
<1>2. FileInv /\ DurableInv /\ [Next]_vars => DurableInv'
  BY DurableStep
<1>3. DurableInv => Durable
  BY DEF DurableInv, Written, Durable, Stored, Cleared, Gone
<1> QED BY <1>1, <1>2, <1>3, FileInductive, PTL DEF Spec

-----------------------------------------------------------------------------
(* Start-up applies the file.                                              *)

\* The file that the daemon finds first is about devices that it knows.
NoRetired == OnlyKnown(file)

\* Commands write lines of such devices only.
LEMMA OnlyKnownStep ==
  ASSUME FileInv, OnlyKnown(file), OnlyKnown(disk), [Next]_vars
  PROVE  OnlyKnown(file') /\ OnlyKnown(disk') /\ Known' = Known
<1>1. kind' = kind
  BY Zenon DEF Next, Start, SetDevice, Remove, AppendEntry, Sync, Clean,
     Flush, Restart, BootLine, BootDone, Die, PowerCycle, WriteBack, vars
<1>2. /\ kind \in Kinds /\ call \in Calls /\ Fine(file)
      /\ file \in Seq(Entries) /\ Asked
  BY DEF FileInv, TypeOK
<1>3. disk' \in {file, disk}
  BY DEF Next, Start, SetDevice, Remove, AppendEntry, Sync, Clean,
     Flush, Restart, BootLine, BootDone, Die, PowerCycle, WriteBack, vars,
     Keeps
<1>4. CASE file' \in {file, disk}
  BY <1>1, <1>3, <1>4, SameKind
<1>5. CASE file' = Without(file, call.name)
  <2>1. \A j \in DOMAIN file' : \E l \in DOMAIN file : file'[j] = file[l]
    BY <1>2, <1>5, WithoutSettings
  <2> QED BY <1>1, <1>3, <2>1, SameKind DEF OnlyKnown
<1>6. CASE AppendEntry /\ file' # file
  <2>1. PICK e : e = Line(call)
    OBVIOUS
  <2>2. e \in Entries /\ e.name \in Known
    BY <1>2, <1>6, <2>1, FineAppend, CallTypes
       DEF Asked, AppendEntry, Line
  <2>3. file' = Append(file, e)
    BY <1>6, <2>1, Zenon DEF AppendEntry, Keeps, Line
  <2>4. /\ DOMAIN file' = 1 .. Len(file) + 1 /\ DOMAIN file = 1 .. Len(file)
        /\ Len(file) \in Nat
        /\ \A i \in 1 .. Len(file) : file'[i] = file[i]
        /\ file'[Len(file) + 1] = e
    BY <1>2, <2>2, <2>3, Added
  <2>5. \A i \in DOMAIN file' : i \in DOMAIN file \/ i = Len(file) + 1
    BY <2>4
  <2>6. OnlyKnown(file')
    BY <2>2, <2>4, <2>5 DEF OnlyKnown
  <2> QED BY <1>1, <1>3, <2>6, SameKind
<1>7. file' \in {file, disk, Without(file, call.name)} \/ AppendEntry
  BY DEF Next, Start, SetDevice, Remove, Sync, Clean,
     Flush, Restart, BootLine, BootDone, Die, PowerCycle, WriteBack, vars,
     Keeps
<1> QED BY <1>4, <1>5, <1>6, <1>7

\* A line read: its device has its value, the others what they had.
LEMMA BootLineSoFar ==
  ASSUME FileInv, OnlyKnown(file), SoFar, BootLine
  PROVE  SoFar' /\ Booted'
<1>1. /\ pc = "boot" /\ pos \in Nat \ {0} /\ pos <= Len(file)
      /\ pos \in DOMAIN file /\ dev \in [Known -> Nat \cup {Off}]
      /\ UNCHANGED <<kind, file>>
  <2>1. file \in Seq(Entries) /\ pos \in 1 .. MaxEntries + 1
        /\ MaxEntries \in Nat /\ pos <= Len(file)
    BY ValuesAssumption DEF FileInv, TypeOK, BootLine
  <2>2. Len(file) \in Nat /\ DOMAIN file = 1 .. Len(file)
    BY <2>1, LenProperties
  <2> QED BY <2>1, <2>2 DEF FileInv, TypeOK, BootLine
<1>2. PICK e, m : e = file[pos] /\ m = e.name /\ m \in Known
  BY <1>1 DEF OnlyKnown
<1>3. CASE pc' = "down"
  BY <1>3 DEF SoFar, Booted
<1>4. CASE pc' # "down"
  <2>1. /\ pc' = "boot" /\ pos' = pos + 1
        /\ dev' = [dev EXCEPT ![m] = e.value]
    BY <1>1, <1>2, <1>4 DEF BootLine, Named
  <2>2. PICK k \in Nat : pos = k + 1 /\ pos - 1 = k /\ pos' - 1 = k + 1
    BY <1>1, <2>1
  <2>3. ASSUME NEW n \in Known, UpTo(file, k + 1, n) # None
        PROVE  dev'[n] = UpTo(file, k + 1, n)
    <3>1. UpTo(file, k + 1, n) = IF m = n THEN e.value ELSE UpTo(file, k, n)
      BY <1>2, <2>2, UpToNext
    <3>2. dev'[n] = IF m = n THEN e.value ELSE dev[n]
      BY <1>1, <1>2, <2>1
    <3>3. m # n => dev[n] = UpTo(file, k, n)
      BY <1>1, <2>2, <2>3, <3>1 DEF SoFar
    <3> QED BY <3>1, <3>2, <3>3
  <2>4. Known' = Known
    BY <1>1, SameKind
  <2>5. SoFar'
    BY <1>1, <2>2, <2>3, <2>4 DEF SoFar
  <2> QED BY <2>1, <2>5 DEF Booted
<1> QED BY <1>3, <1>4

LEMMA BootStep ==
  ASSUME FileInv, BootInv, [Next]_vars
  PROVE  BootInv'
<1>1. /\ OnlyKnown(file) /\ OnlyKnown(disk) /\ SoFar /\ Booted
      /\ file \in Seq(Entries) /\ Known' = Known
  BY OnlyKnownStep DEF BootInv, FileInv, TypeOK
<1>2. OnlyKnown(file)' /\ OnlyKnown(disk)'
  BY <1>1, OnlyKnownStep DEF OnlyKnown
<1>3. SUFFICES SoFar' /\ Booted'
  BY <1>2 DEF BootInv
<1>4. ASSUME NEW c \in Calls, Start(c) PROVE SoFar' /\ Booted'
  BY <1>4 DEF Start, Return, SoFar, Booted
<1>5. CASE SetDevice \/ Remove \/ AppendEntry \/ Sync \/ Clean \/ Flush
  <2>1. pc' # "boot" /\ (pc' = "idle" => ret' # "booted")
    BY <1>5 DEF SetDevice, Remove, AppendEntry, Sync, Clean, Flush, Return,
                Goto
  <2> QED BY <2>1 DEF SoFar, Booted
<1>6. CASE Restart
  <2>1. pc' = "boot" /\ pos' = 1 /\ file' = file
    BY <1>6 DEF Restart, FileInv, Reading
  <2>2. \A n : UpTo(file, 0, n) = None
    BY <1>1, UpToEnds
  <2>3. pos' - 1 = 0
    BY <2>1
  <2> QED BY <2>1, <2>2, <2>3 DEF SoFar, Booted
<1>7. CASE BootLine
  BY <1>1, <1>7, BootLineSoFar
<1>8. CASE BootDone
  <2>1. pos - 1 = Len(file) /\ pc = "boot" /\ pc' = "idle"
        /\ UNCHANGED <<file, dev>>
    <3>1. Len(file) \in Nat
      BY <1>1, LenProperties
    <3>2. pos \in Int
      BY ValuesAssumption DEF FileInv, TypeOK
    <3> QED BY <1>8, <3>1, <3>2 DEF BootDone, Return, FileInv, Reading
  <2>2. \A n : UpTo(file, pos - 1, n) = Entry(file, n)
    BY <1>1, <2>1, UpToEnds
  <2>3. \A n \in Known : Entry(file, n) # None => dev[n] = Entry(file, n)
    BY <1>1, <2>1, <2>2 DEF SoFar
  <2> QED BY <1>1, <2>1, <2>3 DEF SoFar, Booted
<1>9. CASE Die \/ PowerCycle
  BY <1>9 DEF Die, PowerCycle, SoFar, Booted
<1>10. CASE WriteBack \/ UNCHANGED vars
  BY <1>1, <1>10 DEF WriteBack, vars, SoFar, Booted
<1> QED BY <1>4, <1>5, <1>6, <1>7, <1>8, <1>9, <1>10, Zenon DEF Next

(***************************************************************************)
(* After start-up every device has the setting of its last line, whatever  *)
(* crashes and failures have left in the file; given that the file the     *)
(* daemon found first had no line of a device that it does not know, for   *)
(* which Boot_Set_Voltages and Boot_Set_Clocks set the one before.         *)
(***************************************************************************)
THEOREM BootApplies == Spec /\ NoRetired => []Booted
<1>1. Init /\ NoRetired => BootInv
  BY DEF Init, NoRetired, BootInv, OnlyKnown, SoFar, Booted
<1>2. FileInv /\ BootInv /\ [Next]_vars => BootInv'
  BY BootStep
<1>3. BootInv => Booted
  BY DEF BootInv
<1> QED BY <1>1, <1>2, <1>3, FileInductive, PTL DEF Spec

=============================================================================
