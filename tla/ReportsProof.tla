----------------------------- MODULE ReportsProof -----------------------------
(***************************************************************************)
(* The reports, for every memory map, stack, table and number: tp0's       *)
(* list is the map, a trace starts with the active calls, the lines of the *)
(* GDT are what was asked for, and a number is written as its numeral.     *)
(***************************************************************************)
EXTENDS Reports, SequenceTheorems, WellFoundedInduction, TLAPS

-----------------------------------------------------------------------------
(* tp0's memory map *)

\* A region of the map, and its line
Region == [addr : Nat, len : Nat \ {0}, type : Nat]
RegionLine == {M!Line(e) : e \in Region}

\* What has been walked is what is listed
Walked(map, mmap_length, entry, lines, at) ==
    /\ map \in Seq(Region) /\ mmap_length = 24 * Len(map)
    /\ lines \in Seq(RegionLine) /\ Len(lines) <= Len(map)
    /\ entry = 24 * Len(lines)
    /\ \A i \in 1 .. Len(lines) : lines[i] = M!Line(map[i])
    /\ at # "walk" => Len(lines) = Len(map)

MapInv == Walked(v1, v2, v3, v4, v7)

\* Nothing is listed before the walk.
LEMMA MapInit ==
  ASSUME M!Init
  PROVE  MapInv
<1>1. /\ v1 \in Seq(Region) /\ v2 = 24 * Len(v1) /\ v3 = 0 /\ v4 = << >> /\ v7 = "walk"
  BY MapAssumption DEF M!Init, M!MapsAssumption, M!SIZEOF, Region
<1>2. Len(v1) \in Nat
  BY <1>1, LenProperties
<1>3. << >> \in Seq(RegionLine) /\ Len(<< >>) = 0 /\ 0 <= Len(v1) /\ 0 = 24 * 0 /\ 1 .. 0 = {}
  BY <1>2, EmptySeq, SMT
<1> QED
  BY <1>1, <1>3 DEF MapInv, Walked

\* A turn of the walk lists the next region; the probes leave the list.
LEMMA MapNext ==
  ASSUME MapInv, M!Next
  PROVE  MapInv'
<1>1. /\ v1 \in Seq(Region) /\ v2 = 24 * Len(v1) /\ v4 \in Seq(RegionLine)
      /\ Len(v4) <= Len(v1) /\ v3 = 24 * Len(v4)
      /\ \A i \in 1 .. Len(v4) : v4[i] = M!Line(v1[i])
      /\ v7 # "walk" => Len(v4) = Len(v1)
  BY DEF MapInv, Walked
<1>2. Len(v1) \in Nat /\ Len(v4) \in Nat
  BY <1>1, LenProperties
<1>3. CASE M!Walk
  <2> DEFINE k == Len(v4) + 1
             l == M!Line(v1[k])
  <2>1. /\ v7 = "walk" /\ v3 < v2 /\ v4' = Append(v4, M!Line(M!Entry)) /\ v3' = v3 + 24
        /\ v1' = v1 /\ v2' = v2 /\ v7' = v7
    BY <1>3 DEF M!Walk, M!SIZEOF
  <2>2. 1 + (24 * Len(v4)) \div 24 = k
    BY <1>2, SMT
  <2>3. k \in 1 .. Len(v1) /\ v3' = 24 * k
    BY <1>1, <1>2, <2>1, SMT
  <2>4. M!Entry = v1[k]
    BY <1>1, <2>1, <2>2 DEF M!Entry, M!SIZEOF
  <2>5. v1[k] \in Region
    BY <1>1, <2>3, ElementOfSeq
  <2>6. l \in RegionLine /\ v4' = Append(v4, l)
    BY <2>1, <2>4, <2>5 DEF RegionLine
  <2> HIDE DEF l
  <2>7. /\ v4' \in Seq(RegionLine) /\ Len(v4') = k /\ v4'[k] = l
        /\ \A i \in 1 .. Len(v4) : v4'[i] = v4[i]
    BY <1>1, <1>2, <2>6, SMT
  <2>8. \A i \in 1 .. k : i = k \/ i \in 1 .. Len(v4)
    BY <1>2, SMT
  <2>9. \A i \in 1 .. k : v4'[i] = M!Line(v1[i])
    BY <1>1, <2>7, <2>8 DEF l
  <2>10. k <= Len(v1)
    BY <2>3, SMT
  <2> HIDE DEF k
  <2> QED
    BY <1>1, <2>1, <2>3, <2>7, <2>9, <2>10 DEF MapInv, Walked
<1>4. CASE M!EndWalk
  <2>1. v7 = "walk" /\ v3 >= v2 /\ UNCHANGED <<v1, v2, v3, v4>>
    BY <1>4 DEF M!EndWalk
  <2>2. Len(v4) = Len(v1)
    BY <1>1, <1>2, <2>1, SMT
  <2> QED
    BY <1>1, <2>1, <2>2 DEF MapInv, Walked
<1>5. CASE M!Probe
  BY <1>1, <1>5 DEF M!Probe, MapInv, Walked
<1> QED
  BY <1>3, <1>4, <1>5 DEF M!Next

\* Below 4 GB nothing of a line is cut.
LEMMA ListedThen ==
  ASSUME MapInv
  PROVE  M!MapListed
<1> SUFFICES ASSUME v7 # "walk" PROVE M!MapListed
  BY DEF M!MapListed
<1>1. /\ v1 \in Seq(Region) /\ Len(v4) = Len(v1) /\ DOMAIN v1 = 1 .. Len(v1)
      /\ \A i \in 1 .. Len(v4) : v4[i] = M!Line(v1[i])
  BY LenProperties DEF MapInv, Walked
<1>2. ASSUME NEW i \in DOMAIN v1, M!Below4GB(i)
      PROVE  v4[i].first = v1[i].addr /\ v4[i].last - v4[i].first + 1 = v1[i].len
  <2> DEFINE a == v1[i].addr
             n == v1[i].len
  <2>1. v4[i] = M!Line(v1[i]) /\ v1[i] \in Region
    BY <1>1, ElementOfSeq
  <2>2. v4[i].first = a % FOUR_GB /\ v4[i].last = (n + a - 1) % FOUR_GB
    BY <2>1 DEF M!Line, M!Uint32
  <2>3. a \in Nat /\ n \in Nat \ {0} /\ a + n <= FOUR_GB /\ FOUR_GB \in Nat \ {0}
    BY <1>2, <2>1, MapAssumption DEF M!Below4GB, M!MapsAssumption, Region
  <2> HIDE DEF a, n
  <2>4. a % FOUR_GB = a /\ (n + a - 1) % FOUR_GB = n + a - 1 /\ (n + a - 1) - a + 1 = n
    BY <2>3, SMT
  <2> QED
    BY <2>2, <2>4 DEF a, n
<1> QED
  BY <1>1, <1>2 DEF M!MapListed

-----------------------------------------------------------------------------
(* The stack trace *)

\* f is where the frames of the active calls are, from ebp up: each holds the frame of
\* its caller and, above, its return address
Framed(f, mem, esp, ebp, calls) ==
    /\ f \in [1 .. Len(calls) -> Below .. T!KernelStart - 2]
    /\ esp \in Below .. T!KernelStart - 2 /\ esp <= ebp /\ f[1] = ebp
    /\ \A i \in 1 .. Len(calls) : mem[f[i] + 1] = calls[i]
    /\ \A i \in 1 .. Len(calls) - 1 : mem[f[i]] = f[i + 1]
    /\ \A i, j \in 1 .. Len(calls) : i < j => f[i] + 2 <= f[j]

\* The trace is at the frame after the lines it has printed
Traced(f, calls, trace, lines, at) ==
    /\ lines \in Seq(Nat) /\ trace \in Nat
    /\ \A i \in 1 .. Len(lines) : i <= Len(calls) => lines[i] = calls[i]
    /\ at = "run" => lines = << >>
    /\ at = "trace" /\ Len(lines) < MaxLines /\ Len(lines) < Len(calls)
           => trace = f[Len(lines) + 1]
    /\ at = "panic" => Len(lines) >= (IF Len(calls) < MaxLines THEN Len(calls) ELSE MaxLines)

TraceInv ==
    /\ v1 \in [0 .. T!KernelStart -> Nat]
    /\ v4 \in Seq(Nat) /\ Len(v4) > 0
    /\ \E f : Framed(f, v1, v2, v3, v4) /\ Traced(f, v4, v5, v6, v7)

\* The stack has room for the first frame, above GRUB's words.
LEMMA StackRoom ==
  /\ Below \in Nat /\ Below > 0 /\ T!KernelStart \in Nat /\ Below <= T!KernelStart - 2
  /\ MaxLines \in Nat
<1>1. Below \in Nat \ {0} /\ Stack \in Nat /\ Stack >= 2 /\ MaxLines \in Nat
  BY TraceAssumption DEF T!StackAssumption
<1> QED
  BY <1>1, SMT DEF T!KernelStart

\* A frame is entered with two words.
EnteredAt(m, e, sp, bp, eip) ==
    /\ e \in [0 .. T!KernelStart -> Nat]
    /\ e[sp - 1] = eip /\ e[sp - 2] = bp
    /\ \A a \in 0 .. T!KernelStart : a >= sp => e[a] = m[a]

LEMMA EnteredWords ==
  \A m \in [0 .. T!KernelStart -> Nat], sp \in 2 .. T!KernelStart, bp \in Nat, eip \in Nat :
      EnteredAt(m, T!Entered(m, sp, bp, eip), sp, bp, eip)
<1> TAKE m \in [0 .. T!KernelStart -> Nat], sp \in 2 .. T!KernelStart, bp \in Nat, eip \in Nat
<1>1. /\ sp - 1 \in 0 .. T!KernelStart /\ sp - 2 \in 0 .. T!KernelStart /\ sp - 1 # sp - 2
  BY StackRoom, SMT
<1>2. \A a \in 0 .. T!KernelStart : a >= sp => a # sp - 1 /\ a # sp - 2
  BY StackRoom, SMT
<1> QED
  BY <1>1, <1>2 DEF T!Entered, EnteredAt

\* entry.s calls start: one frame, at the top of the stack.
LEMMA TraceInit ==
  ASSUME T!Init
  PROVE  TraceInv
<1> DEFINE K == T!KernelStart
<1>1. PICK b \in Boots :
        /\ v1 = T!Entered([a \in 0 .. K |-> IF a < Below THEN b.below[a] ELSE 0], K, b.ebp, T!Eip(0))
        /\ v2 = K - 2 /\ v3 = K - 2 /\ v4 = <<T!Eip(0)>>
        /\ v5 = 0 /\ v6 = << >> /\ v7 = "run"
  BY DEF T!Init
<1> DEFINE m == [a \in 0 .. K |-> IF a < Below THEN b.below[a] ELSE 0]
           c == T!Eip(0)
<1>2. b.ebp \in Nat /\ b.below \in [0 .. Below - 1 -> Nat]
  BY TraceAssumption DEF T!StackAssumption
<1>3. K \in Nat /\ K >= 2 /\ c \in Nat
  BY StackRoom, SMT DEF T!Eip
<1>4. m \in [0 .. K -> Nat]
  <2>1. ASSUME NEW a \in 0 .. K PROVE (IF a < Below THEN b.below[a] ELSE 0) \in Nat
    <3>1. a < Below => a \in 0 .. Below - 1
      BY StackRoom, <1>3, SMT
    <3> QED
      BY <1>2, <3>1
  <2> QED
    BY <2>1
<1>5. v1 \in [0 .. K -> Nat] /\ v1[K - 1] = c
  <2>1. K <= K /\ v1 = T!Entered(m, K, b.ebp, c)
    BY <1>1, <1>3, SMT
  <2>2. K \in 2 .. K /\ b.ebp \in Nat /\ c \in Nat /\ m \in [0 .. K -> Nat]
    BY <1>2, <1>3, <1>4, SMT
  <2> HIDE DEF m, c
  <2>3. EnteredAt(m, v1, K, b.ebp, c)
    BY <2>1, <2>2, EnteredWords
  <2>4. v1 \in [0 .. K -> Nat] /\ v1[K - 1] = c
    BY <2>3 DEF EnteredAt
  <2> QED
    BY <2>4
<1> HIDE DEF c, m
<1>6. v4 \in Seq(Nat) /\ Len(v4) = 1 /\ v4[1] = c
  BY <1>1, <1>3, SMT DEF c
<1>7. /\ 1 .. 1 = {1} /\ 1 .. 1 - 1 = {} /\ K - 2 + 1 = K - 1 /\ K - 2 <= K - 2
      /\ K - 2 \in Below .. K - 2 /\ 1 > 0
  BY StackRoom, <1>3, SMT
<1> DEFINE f == [i \in 1 .. 1 |-> K - 2]
<1>8. f \in [1 .. 1 -> Below .. K - 2] /\ f[1] = K - 2
  BY <1>7
<1> HIDE DEF f, K
<1>9. Framed(f, v1, v2, v3, v4)
  <2>1. \A i, j \in 1 .. 1 : ~(i < j)
    BY SMT
  <2> QED
    BY <1>1, <1>5, <1>6, <1>7, <1>8, <2>1 DEF Framed, K
<1>10. Traced(f, v4, v5, v6, v7)
  <2>1. << >> \in Seq(Nat) /\ 0 \in Nat /\ 1 .. Len(<< >>) = {}
    BY SMT
  <2> QED
    BY <1>1, <2>1 DEF Traced
<1> QED
  BY <1>5, <1>6, <1>7, <1>9, <1>10 DEF TraceInv, K

\* A call puts its frame below the others, in words they do not use.
LEMMA CallFramed ==
  ASSUME TraceInv, NEW l \in {0, 1}, T!Call(l)
  PROVE  TraceInv'
<1> DEFINE K == T!KernelStart
           sp == v2 - l
           eip == T!Eip(Len(v4))
           n == Len(v4)
<1>1. PICK f : Framed(f, v1, v2, v3, v4) /\ Traced(f, v4, v5, v6, v7)
  BY DEF TraceInv
<1>2. /\ v7 = "run" /\ sp - 2 >= Below
      /\ v1' = T!Entered(v1, sp, v3, eip) /\ v2' = sp - 2 /\ v3' = sp - 2
      /\ v4' = <<eip>> \o v4 /\ UNCHANGED <<v5, v6, v7>>
  BY DEF T!Call
<1>3. /\ v1 \in [0 .. K -> Nat] /\ v4 \in Seq(Nat) /\ n \in Nat /\ n > 0
      /\ f \in [1 .. n -> Below .. K - 2] /\ v2 \in Below .. K - 2 /\ v2 <= v3 /\ f[1] = v3
      /\ \A i \in 1 .. n : v1[f[i] + 1] = v4[i]
      /\ \A i \in 1 .. n - 1 : v1[f[i]] = f[i + 1]
      /\ \A i, j \in 1 .. n : i < j => f[i] + 2 <= f[j]
  BY <1>1, LenProperties DEF TraceInv, Framed
<1>4. 1 \in 1 .. n /\ K \in Nat /\ Below \in Nat /\ Below > 0
  BY <1>3, StackRoom, SMT
<1>5. v3 \in Below .. K - 2
  BY <1>3, <1>4
<1>6. /\ sp \in Nat /\ sp >= 2 /\ sp <= K /\ sp <= v2 /\ sp - 2 \in Below .. K - 2
      /\ v3 \in Nat /\ eip \in Nat /\ sp - 2 + 1 = sp - 1 /\ sp - 2 + 2 <= v3 /\ sp <= v3
  <2>1. eip \in Nat
    BY <1>3, <1>4, SMT DEF T!Eip
  <2> HIDE DEF K, eip
  <2>2. /\ v2 \in Nat /\ v3 \in Nat /\ v2 <= v3 /\ v2 <= K - 2
    BY <1>3, <1>4, <1>5, SMT
  <2>3. v2 - l - 2 >= Below
    BY <1>2
  <2> QED
    BY <1>4, <2>1, <2>2, <2>3, SMT
<1>7. /\ v1' \in [0 .. K -> Nat] /\ v1'[sp - 1] = eip /\ v1'[sp - 2] = v3
      /\ \A a \in 0 .. K : a >= sp => v1'[a] = v1[a]
  <2>1. v1' = T!Entered(v1, sp, v3, eip) /\ v1 \in [0 .. K -> Nat]
    BY <1>2, <1>3
  <2>2. sp \in 2 .. K /\ v3 \in Nat /\ eip \in Nat
    BY <1>4, <1>6, SMT
  <2>3. EnteredAt(v1, v1', sp, v3, eip)
    BY <2>1, <2>2, EnteredWords
  <2> QED
    BY <2>3 DEF EnteredAt
<1> HIDE DEF sp, eip, K
<1>8. /\ v4' \in Seq(Nat) /\ Len(v4') = n + 1 /\ v4'[1] = eip
      /\ \A i \in 1 .. n : v4'[i + 1] = v4[i]
  BY <1>2, <1>3, <1>6, SMT
<1> HIDE DEF n
<1> DEFINE g == [i \in 1 .. n + 1 |-> IF i = 1 THEN sp - 2 ELSE f[i - 1]]
<1>9. /\ g \in [1 .. n + 1 -> Below .. K - 2] /\ g[1] = sp - 2
      /\ \A i \in 1 .. n : g[i + 1] = f[i]
  <2>1. \A i \in 1 .. n + 1 : i = 1 \/ i - 1 \in 1 .. n
    BY <1>3, SMT
  <2>2. 1 \in 1 .. n + 1 /\ \A i \in 1 .. n : i + 1 \in 1 .. n + 1 /\ i + 1 # 1 /\ (i + 1) - 1 = i
    BY <1>3, SMT
  <2> QED
    BY <1>3, <1>6, <2>1, <2>2
<1> HIDE DEF g
<1>10. ASSUME NEW i \in 1 .. n
       PROVE  /\ f[i] >= sp /\ f[i] + 1 >= sp
              /\ v1'[f[i]] = v1[f[i]] /\ v1'[f[i] + 1] = v1[f[i] + 1]
  <2>1. f[i] \in Below .. K - 2 /\ v3 \in Nat /\ (i = 1 \/ 1 < i)
    BY <1>3, <1>6, SMT
  <2>3. v3 = f[i] \/ v3 + 2 <= f[i]
    BY <1>3, <1>4, <2>1
  <2>2. /\ f[i] \in 0 .. K /\ f[i] + 1 \in 0 .. K /\ f[i] >= sp /\ f[i] + 1 >= sp
    BY <1>4, <1>6, <2>1, <2>3, SMT
  <2> QED
    BY <1>7, <2>2
<1>11. ASSUME NEW i \in 1 .. n + 1
       PROVE  v1'[g[i] + 1] = v4'[i]
  <2>1. CASE i = 1
    BY <1>6, <1>7, <1>8, <1>9, <2>1
  <2>2. CASE i # 1
    <3> DEFINE j == i - 1
    <3>1. j \in 1 .. n /\ i = j + 1
      BY <1>3, <2>2, SMT
    <3> HIDE DEF j
    <3>2. g[i] = f[j] /\ v4'[i] = v4[j]
      BY <1>8, <1>9, <3>1
    <3> QED
      BY <1>3, <1>10, <3>1, <3>2
  <2> QED
    BY <2>1, <2>2
<1>12. ASSUME NEW i \in 1 .. (n + 1) - 1
       PROVE  v1'[g[i]] = g[i + 1]
  <2>1. i \in 1 .. n
    BY <1>3, SMT
  <2>2. CASE i = 1
    <3>1. g[1] = sp - 2 /\ g[1 + 1] = v3
      BY <1>3, <1>9, <2>1, <2>2
    <3> QED
      BY <1>7, <2>2, <3>1
  <2>3. CASE i # 1
    <3> DEFINE j == i - 1
    <3>1. j \in 1 .. n /\ j \in 1 .. n - 1 /\ i = j + 1
      BY <1>3, <2>1, <2>3, SMT
    <3> HIDE DEF j
    <3>2. g[i] = f[j] /\ g[i + 1] = f[j + 1]
      BY <1>9, <2>1, <3>1
    <3> QED
      BY <1>3, <1>10, <3>1, <3>2
  <2> QED
    BY <2>2, <2>3
<1>16. ASSUME NEW i \in 1 .. n + 1, NEW j \in 1 .. n + 1, i < j
       PROVE  g[i] + 2 <= g[j]
  <2> DEFINE k == j - 1
             h == i - 1
  <2>1. k \in 1 .. n /\ j = k + 1 /\ (i # 1 => h \in 1 .. n /\ i = h + 1 /\ h < k)
    BY <1>3, <1>16, SMT
  <2> HIDE DEF k, h
  <2>2. g[j] = f[k] /\ f[k] \in Below .. K - 2 /\ f[k] >= sp
    BY <1>3, <1>9, <1>10, <2>1
  <2>3. CASE i = 1
    BY <1>4, <1>6, <1>9, <2>2, <2>3, SMT
  <2>4. CASE i # 1
    BY <1>3, <1>9, <2>1, <2>2, <2>4
  <2> QED
    BY <2>3, <2>4
<1>13. sp - 2 <= sp - 2 /\ n + 1 > 0
  BY <1>3, <1>6, SMT
<1>14. Framed(g, v1', v2', v3', v4')
  BY <1>2, <1>6, <1>8, <1>9, <1>11, <1>12, <1>13, <1>16 DEF Framed, K
<1>15. Traced(g, v4', v5', v6', v7')
  <2>1. v6 = << >> /\ v6 \in Seq(Nat) /\ v5 \in Nat
    BY <1>1, <1>2 DEF Traced
  <2>2. 1 .. Len(<< >>) = {}
    BY SMT
  <2> QED
    BY <1>2, <2>1, <2>2 DEF Traced
<1> QED
  BY <1>7, <1>8, <1>13, <1>14, <1>15 DEF TraceInv, K

\* A return leaves the frames above it.
LEMMA ReturnFramed ==
  ASSUME TraceInv, T!Return
  PROVE  TraceInv'
<1> DEFINE K == T!KernelStart
           n == Len(v4)
<1>1. PICK f : Framed(f, v1, v2, v3, v4) /\ Traced(f, v4, v5, v6, v7)
  BY DEF TraceInv
<1>2. /\ v7 = "run" /\ n > 1 /\ v2' = v3 + 2 /\ v3' = v1[v3] /\ v4' = Tail(v4)
      /\ UNCHANGED <<v1, v5, v6, v7>>
  BY DEF T!Return
<1>3. /\ v1 \in [0 .. K -> Nat] /\ v4 \in Seq(Nat) /\ n \in Nat /\ n > 0
      /\ f \in [1 .. n -> Below .. K - 2] /\ v2 \in Below .. K - 2 /\ v2 <= v3 /\ f[1] = v3
      /\ \A i \in 1 .. n : v1[f[i] + 1] = v4[i]
      /\ \A i \in 1 .. n - 1 : v1[f[i]] = f[i + 1]
      /\ \A i, j \in 1 .. n : i < j => f[i] + 2 <= f[j]
  BY <1>1, LenProperties DEF TraceInv, Framed
<1>4. /\ 1 \in 1 .. n /\ 1 \in 1 .. n - 1 /\ 2 \in 1 .. n /\ 1 + 1 = 2 /\ 1 < 2
      /\ n - 1 \in Nat /\ n - 1 > 0 /\ 1 \in 1 .. n - 1
  BY <1>2, <1>3, SMT
<1>5. v3' = f[2] /\ v3 + 2 <= f[2] /\ v3 \in Below .. K - 2 /\ f[2] \in Below .. K - 2
  BY <1>2, <1>3, <1>4
<1>6. v3 + 2 \in Below .. K - 2
  <2> HIDE DEF K
  <2> QED
    BY <1>5, StackRoom, SMT DEF K
<1>7. /\ v4' \in Seq(Nat) /\ Len(v4') = n - 1 /\ \A i \in 1 .. n - 1 : v4'[i] = v4[i + 1]
  <2>1. v4 # << >>
    BY <1>3, SMT
  <2> QED
    BY <1>2, <1>3, <2>1, HeadTailProperties
<1> HIDE DEF n, K
<1> DEFINE g == [i \in 1 .. n - 1 |-> f[i + 1]]
<1>8. \A i \in 1 .. n - 1 : i + 1 \in 1 .. n
  BY <1>3, SMT
<1>9. g \in [1 .. n - 1 -> Below .. K - 2] /\ \A i \in 1 .. n - 1 : g[i] = f[i + 1]
  BY <1>3, <1>8
<1> HIDE DEF g
<1>10. g[1] = v3'
  BY <1>4, <1>5, <1>9
<1>11. ASSUME NEW i \in 1 .. n - 1
       PROVE  v1[g[i] + 1] = v4'[i]
  BY <1>3, <1>7, <1>8, <1>9
<1>12. ASSUME NEW i \in 1 .. (n - 1) - 1
       PROVE  v1[g[i]] = g[i + 1]
  <2>1. i \in 1 .. n - 1 /\ i + 1 \in 1 .. n - 1
    BY <1>3, SMT
  <2> QED
    BY <1>3, <1>9, <2>1
<1>13. ASSUME NEW i \in 1 .. n - 1, NEW j \in 1 .. n - 1, i < j
       PROVE  g[i] + 2 <= g[j]
  <2>1. i + 1 < j + 1
    BY <1>3, <1>13, SMT
  <2> QED
    BY <1>3, <1>8, <1>9, <2>1
<1>14. Framed(g, v1', v2', v3', v4')
  BY <1>2, <1>5, <1>6, <1>7, <1>9, <1>10, <1>11, <1>12, <1>13 DEF Framed, K
<1>15. Traced(g, v4', v5', v6', v7')
  <2>1. v6 = << >> /\ v6 \in Seq(Nat) /\ v5 \in Nat
    BY <1>1, <1>2 DEF Traced
  <2>2. 1 .. Len(<< >>) = {}
    BY SMT
  <2> QED
    BY <1>2, <2>1, <2>2 DEF Traced
<1> QED
  BY <1>2, <1>3, <1>4, <1>7, <1>14, <1>15 DEF TraceInv, K

\* The trace begins at the innermost frame.
LEMMA FaultTraced ==
  ASSUME TraceInv, T!Fault
  PROVE  TraceInv'
<1>1. PICK f : Framed(f, v1, v2, v3, v4) /\ Traced(f, v4, v5, v6, v7)
  BY DEF TraceInv
<1>2. v7 = "run" /\ v5' = v3 /\ v7' = "trace" /\ UNCHANGED <<v1, v2, v3, v4, v6>>
  BY DEF T!Fault
<1>3. v6 = << >> /\ v6 \in Seq(Nat)
  BY <1>1, <1>2 DEF Traced
<1>4. /\ v3 = f[1] /\ Len(v4) \in Nat /\ Len(v4) > 0
      /\ f \in [1 .. Len(v4) -> Below .. T!KernelStart - 2]
  BY <1>1, LenProperties DEF TraceInv, Framed
<1>5. f[1] \in Nat
  <2>1. 1 \in 1 .. Len(v4) /\ \A x \in Below .. T!KernelStart - 2 : x \in Nat
    BY <1>4, StackRoom, SMT
  <2> QED
    BY <1>4, <2>1
<1>6. Len(<< >>) = 0 /\ 1 .. 0 = {} /\ 0 + 1 = 1
  BY SMT
<1>7. Traced(f, v4', v5', v6', v7')
  BY <1>2, <1>3, <1>4, <1>5, <1>6 DEF Traced
<1> QED
  BY <1>1, <1>2, <1>7 DEF TraceInv

\* A turn of the loop prints the return address of the frame, and goes to its caller's.
LEMMA FrameTraced ==
  ASSUME TraceInv, T!Frame
  PROVE  TraceInv'
<1> DEFINE K == T!KernelStart
           k == Len(v6)
           n == Len(v4)
           w == v1[v5 + 1]
<1>1. PICK f : Framed(f, v1, v2, v3, v4) /\ Traced(f, v4, v5, v6, v7)
  BY DEF TraceInv
<1>2. /\ v7 = "trace" /\ v5 # 0 /\ v5 < K
      /\ v6' = IF k < MaxLines THEN Append(v6, w) ELSE v6
      /\ v5' = v1[v5] /\ UNCHANGED <<v1, v2, v3, v4, v7>>
  BY DEF T!Frame, T!Followed
<1>3. /\ v1 \in [0 .. K -> Nat] /\ v6 \in Seq(Nat) /\ v5 \in Nat /\ k \in Nat /\ n \in Nat
      /\ \A i \in 1 .. k : i <= n => v6[i] = v4[i]
      /\ k < MaxLines /\ k < n => v5 = f[k + 1]
      /\ \A i \in 1 .. n : v1[f[i] + 1] = v4[i]
      /\ \A i \in 1 .. n - 1 : v1[f[i]] = f[i + 1]
  BY <1>1, <1>2, LenProperties DEF TraceInv, Framed, Traced
<1>4. v5 \in 0 .. K /\ v5 + 1 \in 0 .. K
  <2> HIDE DEF K
  <2> QED
    BY <1>2, <1>3, StackRoom, SMT DEF K
<1>5. w \in Nat /\ v5' \in Nat
  BY <1>2, <1>3, <1>4
<1>6. CASE k >= MaxLines
  <2>1. ~(k < MaxLines) /\ v6' = v6
    BY <1>2, <1>3, <1>6, StackRoom, SMT
  <2>2. Traced(f, v4', v5', v6', v7')
    BY <1>2, <1>3, <1>5, <2>1 DEF Traced
  <2> QED
    BY <1>1, <1>2, <2>2 DEF TraceInv
<1>7. CASE k < MaxLines
  <2> HIDE DEF k, n, w
  <2>1. v6' = Append(v6, w)
    BY <1>2, <1>7
  <2>2. /\ v6' \in Seq(Nat) /\ Len(v6') = k + 1 /\ v6'[k + 1] = w
        /\ \A i \in 1 .. k : v6'[i] = v6[i]
    BY <1>3, <1>5, <2>1, SMT DEF k
  <2>3. ASSUME NEW i \in 1 .. k + 1, i <= n
        PROVE  v6'[i] = v4[i]
    <3>1. CASE i = k + 1
      <4>1. k < n /\ k + 1 \in 1 .. n
        BY <1>3, <2>3, <3>1, SMT
      <4> QED
        BY <1>3, <1>7, <2>2, <3>1, <4>1 DEF w
    <3>2. CASE i # k + 1
      <4>1. i \in 1 .. k
        BY <1>3, <3>2, SMT
      <4> QED
        BY <1>3, <2>2, <2>3, <4>1
    <3> QED
      BY <3>1, <3>2
  <2>4. ASSUME k + 1 < n
        PROVE  v5' = f[(k + 1) + 1]
    <3>1. k < n /\ k + 1 \in 1 .. n - 1
      BY <1>3, <2>4, SMT
    <3> QED
      BY <1>2, <1>3, <1>7, <3>1
  <2>5. Traced(f, v4', v5', v6', v7')
    BY <1>2, <1>5, <2>2, <2>3, <2>4 DEF Traced, n
  <2> QED
    BY <1>1, <1>2, <2>5 DEF TraceInv
<1> QED
  <2>1. k >= MaxLines \/ k < MaxLines
    BY <1>3, StackRoom, SMT
  <2> QED
    BY <1>6, <1>7, <2>1

\* The frame of an active call does not end the loop.
LEMMA PanicTraced ==
  ASSUME TraceInv, T!Panic
  PROVE  TraceInv'
<1> DEFINE K == T!KernelStart
           k == Len(v6)
           n == Len(v4)
<1>1. PICK f : Framed(f, v1, v2, v3, v4) /\ Traced(f, v4, v5, v6, v7)
  BY DEF TraceInv
<1>2. /\ v7 = "trace" /\ ~(v5 # 0 /\ v5 < K) /\ v7' = "panic"
      /\ UNCHANGED <<v1, v2, v3, v4, v5, v6>>
  BY DEF T!Panic, T!Followed
<1>3. /\ k \in Nat /\ n \in Nat /\ f \in [1 .. n -> Below .. K - 2]
      /\ k < MaxLines /\ k < n => v5 = f[k + 1]
  BY <1>1, <1>2, LenProperties DEF TraceInv, Framed, Traced
<1>4. ~(k < MaxLines /\ k < n)
  <2> SUFFICES ASSUME k < MaxLines, k < n PROVE FALSE
    OBVIOUS
  <2> HIDE DEF k, n, K
  <2>1. k + 1 \in 1 .. n
    BY <1>3, SMT
  <2>2. v5 \in Below .. K - 2
    BY <1>3, <2>1
  <2>3. v5 # 0 /\ v5 < K
    BY <2>2, StackRoom, SMT DEF K
  <2> QED
    BY <1>2, <2>3
<1>5. k >= (IF n < MaxLines THEN n ELSE MaxLines)
  BY <1>3, <1>4, StackRoom, SMT
<1>6. Traced(f, v4', v5', v6', v7')
  BY <1>1, <1>2, <1>5 DEF Traced
<1> QED
  BY <1>1, <1>2, <1>6 DEF TraceInv

LEMMA TraceNext ==
  ASSUME TraceInv, T!Next
  PROVE  TraceInv'
<1>1. ASSUME NEW l \in {0, 1}, T!Call(l) PROVE TraceInv'
  BY <1>1, CallFramed
<1> QED
  BY <1>1, ReturnFramed, FaultTraced, FrameTraced, PanicTraced
     DEF T!Next, T!Calling, T!Tracing

LEMMA TracedThen ==
  ASSUME TraceInv
  PROVE  T!CallersFirst
BY DEF TraceInv, Traced, T!CallersFirst

-----------------------------------------------------------------------------
(* Induction, by a least counterexample *)

\* A set of numbers that has 0 and, with each number, the next has them all.  (The
\* induction theorems of the library take an operator; the least element that a
\* well-founded relation gives a set needs none.)
Less == {ss \in Nat \X Nat : ss[1] < ss[2]}

LEMMA LessWellFounded == IsWellFoundedOn(Less, Nat)
  BY NatLessThanWellFounded DEF OpToRel, Less

\* A set of numbers has a least one.
LEMMA Least ==
  ASSUME NEW S, S # {}, S \subseteq Nat
  PROVE  \E n \in S : \A m \in S : n <= m
<1>1. PICK x \in S : \A y \in S : ~(<<y, x>> \in Less)
  BY LessWellFounded, WFMin
<1>2. ASSUME NEW y \in S
      PROVE  x <= y
  <2>1. x \in Nat /\ y \in Nat
    OBVIOUS
  <2>2. <<y, x>> \in Less <=> y < x
    BY <2>1 DEF Less
  <2> QED
    BY <1>1, <2>1, <2>2
<1> QED
  BY <1>2

\* Induction.
LEMMA Inductive ==
  ASSUME NEW S, 0 \in S, \A n \in Nat : n \in S => n + 1 \in S
  PROVE  \A n \in Nat : n \in S
<1>1. SUFFICES ASSUME NEW k \in Nat, k \notin S PROVE FALSE
  OBVIOUS
<1>2. PICK m \in Nat \ S : \A n \in Nat \ S : m <= n
  BY <1>1, Least
<1>3. m # 0 /\ m - 1 \in Nat /\ m - 1 \in S
  BY <1>2
<1> QED
  BY <1>2, <1>3

\* g is start, f[0][start], ... up to n
Chain(g, n, start, f) ==
    /\ g[0] = start
    /\ \A k \in Nat : k < n => g[k + 1] = f[k][g[k]]
Chained(n, V, start, f) == {g \in [0 .. n -> V] : Chain(g, n, start, f)}

LEMMA ChainsExist ==
  ASSUME NEW V, NEW start \in V, NEW f \in [Nat -> [V -> V]]
  PROVE  \A n \in Nat : Chained(n, V, start, f) # {}
<1> DEFINE S == {n \in Nat : Chained(n, V, start, f) # {}}
<1>1. 0 \in S
  <2> DEFINE h == [k \in 0 .. 0 |-> start]
  <2>1. h \in [0 .. 0 -> V] /\ Chain(h, 0, start, f)
    BY DEF Chain
  <2> QED
    BY <2>1 DEF Chained
<1>2. ASSUME NEW n \in Nat, n \in S
      PROVE  n + 1 \in S
  <2>1. PICK g \in [0 .. n -> V] : Chain(g, n, start, f)
    BY <1>2 DEF Chained
  <2> DEFINE x == f[n][g[n]]
             h == [k \in 0 .. n + 1 |-> IF k = n + 1 THEN x ELSE g[k]]
  <2>2. n \in 0 .. n /\ g[n] \in V
    OBVIOUS
  <2>3. x \in V
    BY <2>2
  <2> HIDE DEF x
  <2>4. h \in [0 .. n + 1 -> V]
    BY <2>3
  <2>5. h[0] = start /\ h[n + 1] = x /\ \A k \in 0 .. n : h[k] = g[k]
    BY <2>1 DEF Chain
  <2> HIDE DEF h
  <2>6. ASSUME NEW k \in Nat, k < n + 1
        PROVE  h[k + 1] = f[k][h[k]]
    <3>1. CASE k = n
      BY <3>1, <2>5, <2>2 DEF x
    <3>2. CASE k # n
      <4>1. k < n /\ k \in 0 .. n /\ k + 1 \in 0 .. n
        BY <2>6, <3>2
      <4>2. h[k] = g[k] /\ h[k + 1] = g[k + 1] /\ g[k + 1] = f[k][g[k]]
        BY <4>1, <2>5, <2>1 DEF Chain
      <4> QED
        BY <4>2
    <3> QED
      BY <3>1, <3>2
  <2>7. Chain(h, n + 1, start, f)
    BY <2>5, <2>6 DEF Chain
  <2> QED
    BY <2>4, <2>7 DEF Chained
<1> HIDE DEF S
<1>3. \A n \in Nat : n \in S
  BY <1>1, <1>2, Inductive
<1> QED
  BY <1>3 DEF S

LEMMA ChainsAgree ==
  ASSUME NEW m \in Nat, NEW n \in Nat, m <= n, NEW start, NEW f, NEW g, NEW h,
         Chain(g, m, start, f), Chain(h, n, start, f)
  PROVE  \A k \in 0 .. m : g[k] = h[k]
<1> DEFINE S == {k \in Nat : k <= m => g[k] = h[k]}
<1>1. 0 \in S
  BY DEF Chain
<1>2. ASSUME NEW k \in Nat, k \in S
      PROVE  k + 1 \in S
  <2> SUFFICES ASSUME k + 1 <= m PROVE g[k + 1] = h[k + 1]
    OBVIOUS
  <2>1. k < m /\ k < n /\ k <= m
    OBVIOUS
  <2>2. g[k] = h[k]
    BY <1>2, <2>1
  <2> QED
    BY <2>1, <2>2 DEF Chain
<1> HIDE DEF S
<1>3. \A k \in Nat : k \in S
  BY <1>1, <1>2, Inductive
<1>4. \A k \in 0 .. m : k \in Nat /\ k <= m
  OBVIOUS
<1> QED
  BY <1>3, <1>4 DEF S

\* The functions that are defined by their value at 0 and by f from there on
Recursive(V, start, f) ==
    {g \in [Nat -> V] : g[0] = start /\ \A n \in Nat : g[n + 1] = f[n][g[n]]}

\* There is one.
LEMMA Recursion ==
  ASSUME NEW V, NEW start \in V, NEW f \in [Nat -> [V -> V]]
  PROVE  Recursive(V, start, f) # {}
<1> DEFINE ch(n) == CHOOSE g \in Chained(n, V, start, f) : TRUE
<1>1. \A n \in Nat : ch(n) \in Chained(n, V, start, f)
  <2>1. \A n \in Nat : Chained(n, V, start, f) # {}
    BY ChainsExist
  <2> QED
    BY <2>1
<1> HIDE DEF ch
<1>2. \A n \in Nat : ch(n) \in [0 .. n -> V] /\ Chain(ch(n), n, start, f)
  BY <1>1 DEF Chained
<1> DEFINE g == [n \in Nat |-> ch(n)[n]]
<1>3. \A n \in Nat : n \in 0 .. n /\ ch(n)[n] \in V
  BY <1>2
<1>4. g \in [Nat -> V]
  BY <1>3
<1>5. g[0] = start
  BY <1>2 DEF Chain
<1>6. ASSUME NEW n \in Nat
      PROVE  g[n + 1] = f[n][g[n]]
  <2>1. n + 1 \in Nat /\ n <= n + 1 /\ n < n + 1 /\ n \in 0 .. n
    OBVIOUS
  <2>2. ch(n)[n] = ch(n + 1)[n]
    BY <1>2, <2>1, ChainsAgree
  <2>3. ch(n + 1)[n + 1] = f[n][ch(n + 1)[n]]
    BY <1>2, <2>1 DEF Chain
  <2> QED
    BY <2>1, <2>2, <2>3
<1> HIDE DEF g
<1> QED
  BY <1>4, <1>5, <1>6 DEF Recursive

-----------------------------------------------------------------------------
(* Powers, and the values of digits *)

\* The powers are what their definition says.
LEMMA PowerOf ==
  ASSUME NEW b \in Nat
  PROVE  /\ D!Power(b, 0) = 1
         /\ \A n \in Nat : D!Power(b, n) \in Nat /\ D!Power(b, n + 1) = b * D!Power(b, n)
<1> DEFINE f == [n \in Nat |-> [x \in Nat |-> b * x]]
           Def(h) == h = [k \in Nat |-> IF k = 0 THEN 1 ELSE b * h[k - 1]]
           power == CHOOSE h : Def(h)
<1>1. f \in [Nat -> [Nat -> Nat]]
  OBVIOUS
<1>a. \A n \in Nat, x \in Nat : f[n][x] = b * x
  OBVIOUS
<1> HIDE DEF f
<1>2. PICK g \in [Nat -> Nat] : g[0] = 1 /\ \A n \in Nat : g[n + 1] = f[n][g[n]]
  <2>1. 1 \in Nat
    OBVIOUS
  <2>2. Recursive(Nat, 1, f) # {}
    BY <1>1, <2>1, Recursion
  <2> QED
    BY <2>2 DEF Recursive
<1>3. ASSUME NEW k \in Nat
      PROVE  g[k] = IF k = 0 THEN 1 ELSE b * g[k - 1]
  <2>1. CASE k = 0
    BY <1>2, <2>1
  <2>2. CASE k # 0
    <3>1. k - 1 \in Nat /\ (k - 1) + 1 = k
      BY <2>2
    <3>2. g[(k - 1) + 1] = f[k - 1][g[k - 1]] /\ g[k - 1] \in Nat
      BY <1>2, <3>1
    <3> QED
      BY <1>a, <2>2, <3>1, <3>2
  <2> QED
    BY <2>1, <2>2
<1>4. Def(g)
  BY <1>2, <1>3
<1>5. Def(power)
  BY <1>4
<1>6. \A n : D!Power(b, n) = power[n]
  BY DEF D!Power
<1> HIDE DEF power
<1>7. power[0] = 1 /\ \A n \in Nat : power[n + 1] = b * power[n]
  BY <1>5
<1> DEFINE S == {n \in Nat : power[n] \in Nat}
<1>8. 0 \in S /\ \A n \in Nat : n \in S => n + 1 \in S
  BY <1>7
<1> HIDE DEF S
<1>9. \A n \in Nat : n \in S
  BY <1>8, Inductive
<1> QED
  BY <1>6, <1>7, <1>9 DEF S

\* The function of ValueOf
Worth(b, L, s) ==
    CHOOSE h : h = [n \in 0 .. L |-> IF n = 0 THEN 0 ELSE b * h[n - 1] + s[n]]

\* It is what its definition says.
LEMMA WorthOf ==
  ASSUME NEW b \in Nat, NEW L \in Nat, NEW s, \A n \in 1 .. L : s[n] \in Nat
  PROVE  /\ Worth(b, L, s) \in [0 .. L -> Nat] /\ Worth(b, L, s)[0] = 0
         /\ \A n \in Nat : n < L => Worth(b, L, s)[n + 1] = b * Worth(b, L, s)[n] + s[n + 1]
<1> DEFINE d(n) == IF n + 1 \in 1 .. L THEN s[n + 1] ELSE 0
           f == [n \in Nat |-> [x \in Nat |-> b * x + d(n)]]
           Def(h) == h = [n \in 0 .. L |-> IF n = 0 THEN 0 ELSE b * h[n - 1] + s[n]]
           worth == Worth(b, L, s)
<1>1. \A n \in Nat : d(n) \in Nat
  OBVIOUS
<1>2. \A n \in Nat : n < L => d(n) = s[n + 1]
  OBVIOUS
<1> HIDE DEF d
<1>3. f \in [Nat -> [Nat -> Nat]]
  <2>1. ASSUME NEW n \in Nat, NEW x \in Nat
        PROVE  b * x + d(n) \in Nat
    <3>1. b * x \in Nat /\ d(n) \in Nat
      BY <1>1
    <3> QED
      BY <3>1
  <2> QED
    BY <2>1
<1>4. \A n \in Nat, x \in Nat : f[n][x] = b * x + d(n)
  OBVIOUS
<1> HIDE DEF f
<1>5. PICK r \in [Nat -> Nat] : r[0] = 0 /\ \A n \in Nat : r[n + 1] = f[n][r[n]]
  <2>1. 0 \in Nat
    OBVIOUS
  <2>2. Recursive(Nat, 0, f) # {}
    BY <1>3, <2>1, Recursion
  <2> QED
    BY <2>2 DEF Recursive
<1> DEFINE g == [n \in 0 .. L |-> r[n]]
<1>6. g \in [0 .. L -> Nat] /\ g[0] = 0
  <2>1. \A n \in 0 .. L : n \in Nat /\ r[n] \in Nat
    BY <1>5
  <2>2. 0 \in 0 .. L
    OBVIOUS
  <2> QED
    BY <1>5, <2>1, <2>2
<1>7. ASSUME NEW n \in Nat, n < L
      PROVE  g[n + 1] = b * g[n] + s[n + 1]
  <2>1. n \in 0 .. L /\ n + 1 \in 0 .. L
    BY <1>7
  <2>2. r[n] \in Nat /\ r[n + 1] = f[n][r[n]]
    BY <1>5
  <2>3. r[n + 1] = b * r[n] + d(n) /\ d(n) = s[n + 1]
    BY <1>2, <1>4, <1>7, <2>2
  <2> QED
    BY <2>1, <2>3
<1>8. ASSUME NEW n \in 0 .. L
      PROVE  g[n] = IF n = 0 THEN 0 ELSE b * g[n - 1] + s[n]
  <2>1. CASE n # 0
    <3>1. n - 1 \in Nat /\ n - 1 < L /\ (n - 1) + 1 = n
      BY <2>1
    <3>2. g[(n - 1) + 1] = b * g[n - 1] + s[(n - 1) + 1]
      BY <1>7, <3>1
    <3> HIDE DEF g
    <3> QED
      BY <2>1, <3>1, <3>2
  <2> QED
    BY <1>6, <2>1
<1>9. g = [n \in 0 .. L |-> g[n]]
  OBVIOUS
<1> HIDE DEF g
<1>10. Def(g)
  BY <1>8, <1>9
<1>11. Def(worth)
  BY <1>10 DEF Worth
<1> HIDE DEF worth
<1>12. \A n \in 0 .. L : worth[n] = IF n = 0 THEN 0 ELSE b * worth[n - 1] + s[n]
  BY <1>11
<1>13. worth[0] = 0
  BY <1>12
<1>14. ASSUME NEW n \in Nat, n < L
       PROVE  worth[n + 1] = b * worth[n] + s[n + 1]
  <2>1. n + 1 \in 0 .. L /\ n + 1 # 0 /\ (n + 1) - 1 = n
    BY <1>14
  <2> QED
    BY <1>12, <2>1
<1>15. \A n \in 0 .. L : worth[n] = g[n]
  <2> DEFINE S == {n \in Nat : n <= L => worth[n] = g[n]}
  <2>1. 0 \in S
    BY <1>6, <1>13
  <2>2. ASSUME NEW n \in Nat, n \in S
        PROVE  n + 1 \in S
    <3> SUFFICES ASSUME n + 1 <= L PROVE worth[n + 1] = g[n + 1]
      OBVIOUS
    <3>1. n < L /\ n <= L
      BY <2>2
    <3>2. worth[n] = g[n]
      BY <2>2, <3>1
    <3> QED
      BY <1>7, <1>14, <3>1, <3>2
  <2> HIDE DEF S
  <2>3. \A n \in Nat : n \in S
    BY <2>1, <2>2, Inductive
  <2> QED
    BY <2>3 DEF S
<1>16. worth \in [0 .. L -> Nat]
  BY <1>6, <1>11, <1>15
<1> QED
  BY <1>13, <1>14, <1>16 DEF worth

\* Horner's rule.
LEMMA ValueOfDigits ==
  ASSUME NEW b \in Nat, NEW s \in Seq(Nat), NEW d \in Nat
  PROVE  /\ D!ValueOf(s, b) \in Nat
         /\ Len(s) = 0 => D!ValueOf(s, b) = 0
         /\ D!ValueOf(Append(s, d), b) = b * D!ValueOf(s, b) + d
<1> DEFINE t == Append(s, d)
<1>1. /\ t \in Seq(Nat) /\ Len(t) = Len(s) + 1 /\ t[Len(s) + 1] = d
      /\ \A n \in Nat : n < Len(s) => t[n + 1] = s[n + 1]
  OBVIOUS
<1> HIDE DEF t
<1> DEFINE L == Len(s)
           g == Worth(b, L, s)
           h == Worth(b, L + 1, t)
<1>2. L \in Nat /\ D!ValueOf(s, b) = g[L]
  BY DEF D!ValueOf, Worth
<1>3. L + 1 \in Nat /\ D!ValueOf(t, b) = h[L + 1]
  BY <1>1, <1>2 DEF D!ValueOf, Worth
<1>a. \A n \in 1 .. L : s[n] \in Nat
  OBVIOUS
<1>b. \A n \in 1 .. L + 1 : t[n] \in Nat
  BY <1>1
<1>c. /\ g \in [0 .. L -> Nat] /\ g[0] = 0
      /\ \A n \in Nat : n < L => g[n + 1] = b * g[n] + s[n + 1]
  <2> HIDE DEF L
  <2> QED
    BY <1>2, <1>a, WorthOf
<1>d. /\ h \in [0 .. L + 1 -> Nat] /\ h[0] = 0
      /\ \A n \in Nat : n < L + 1 => h[n + 1] = b * h[n] + t[n + 1]
  <2> HIDE DEF L
  <2> QED
    BY <1>3, <1>b, WorthOf
<1> HIDE DEF L, g, h
<1> DEFINE S == {n \in Nat : n <= L => g[n] = h[n]}
<1>4. 0 \in S
  BY <1>c, <1>d
<1>5. ASSUME NEW n \in Nat, n \in S
      PROVE  n + 1 \in S
  <2> SUFFICES ASSUME n + 1 <= L PROVE g[n + 1] = h[n + 1]
    OBVIOUS
  <2>1. n < L /\ n < L + 1 /\ n <= L
    BY <1>2
  <2>2. g[n] = h[n] /\ t[n + 1] = s[n + 1]
    BY <1>1, <1>5, <2>1 DEF L
  <2> QED
    BY <1>c, <1>d, <2>1, <2>2
<1> HIDE DEF S
<1>6. \A n \in Nat : n \in S
  BY <1>4, <1>5, Inductive
<1>7. L <= L /\ L < L + 1 /\ g[L] = h[L] /\ g[L] \in Nat
  BY <1>2, <1>6, <1>c DEF S
<1>8. h[L + 1] = b * h[L] + t[L + 1] /\ t[L + 1] = d
  BY <1>1, <1>2, <1>7, <1>d DEF L
<1>9. D!ValueOf(t, b) = b * D!ValueOf(s, b) + d /\ D!ValueOf(s, b) \in Nat
  BY <1>2, <1>3, <1>7, <1>8
<1>10. Len(s) = 0 => D!ValueOf(s, b) = 0
  BY <1>2, <1>c DEF L
<1> QED
  BY <1>9, <1>10 DEF t

-----------------------------------------------------------------------------
(* The digits of a number *)

Base == CASE v1 = "hex" -> 16 [] v1 = "bin" -> 2 [] OTHER -> 10
Negative == v1 = "idec" /\ v2 < 0
Least64 == v1 = "idec" /\ v2 = D!MIN
Mag == IF Negative THEN -v2 ELSE v2
Precise == v1 = "bin" \/ (v1 = "hex" /\ v3 \in 1 .. D!HEXSZ)

\* What is left of a number without its last k digits
Quot(b, mag, k) == mag \div D!Power(b, k)

\* The digits u of mag are written but for the last r
Numeral(b, mag, r, u) ==
    /\ D!ValueOf(u, b) = Quot(b, mag, r) - D!Power(b, Len(u)) * Quot(b, mag, r + Len(u))
    /\ D!ValueOf(u, b) < D!Power(b, Len(u))
    /\ u # << >> => u[1] = Quot(b, mag, r + Len(u) - 1) % b

Rest == IF v1 = "bin" THEN v5 ELSE Len(v6)

\* What holds of every number: the arrays are as long as they must be
SizesInv ==
    /\ v1 \in {"idec", "udec", "hex", "bin"}
    /\ v2 \in (IF v1 = "idec" THEN D!MIN ELSE 0) .. D!Greatest(v1)
    /\ v3 \in Nat /\ v5 \in Nat /\ v8 \in {"digits", "write", "done"}
    /\ v6 \in Seq(Int) /\ v7 \in Seq(Int)
    /\ Len(v6) <= IF v1 = "hex" THEN D!HEXSZ ELSE DECSZ
    /\ v8 = "digits" /\ v1 # "bin" =>
          \/ v4 = Quot(Base, Mag, Len(v6))
          \/ Least64 /\ v4 = -Quot(Base, Mag, Len(v6))

\* A number without a precision ends with its first digit that is not 0
LeadInv(n) ==
    /\ n >= 2 \/ (n >= 1 /\ v1 # "hex" /\ (v2 # 0 \/ v8 = "digits")) =>
          Quot(Base, Mag, n - 1) # 0
    /\ v8 # "digits" => n >= 1 /\ Quot(Base, Mag, n) = 0

\* The digits found, and how many more there are
FoundInv ==
    /\ \A i \in 1 .. Len(v6) : v6[i] = Quot(Base, Mag, i - 1) % Base
    /\ v1 = "bin" => v4 = v2 /\ v6 = << >> /\ (v8 # "digits" => v5 = 0)
    /\ v8 = "digits" /\ v1 # "bin" => D!Unsigned = << >>
    /\ v8 = "digits" /\ v1 = "hex" =>
          IF Precise THEN v5 + Len(v6) = v3 ELSE v5 + Len(v6) = D!Unlimited
    /\ (v8 # "digits" \/ v1 = "bin") /\ Precise => Rest + Len(D!Unsigned) = v3
    /\ ~Precise => LeadInv(Rest + Len(D!Unsigned))

\* What holds of every number whose negation does not overflow
ExactInv ==
    /\ Negative <=> v7 # << >> /\ v7[1] = D!Minus
    /\ D!Unsigned \in Seq(0 .. Base - 1)
    /\ FoundInv
    /\ Numeral(Base, Mag, Rest, D!Unsigned)
    /\ v8 = "done" => Rest = 0

DigitsInv == SizesInv /\ (~Least64 => ExactInv)

-----------------------------------------------------------------------------
(* Powers and quotients *)

\* A power of a base is no 0.
LEMMA PowerPositive ==
  ASSUME NEW b \in Nat \ {0}, NEW n \in Nat
  PROVE  D!Power(b, n) \in Nat \ {0}
<1> DEFINE S == {k \in Nat : D!Power(b, k) \in Nat \ {0}}
<1>1. b \in Nat
  OBVIOUS
<1>2. 0 \in S
  BY <1>1, PowerOf
<1>3. ASSUME NEW k \in Nat, k \in S
      PROVE  k + 1 \in S
  <2> DEFINE p == D!Power(b, k)
  <2>1. p \in Nat \ {0} /\ D!Power(b, k + 1) = b * p
    BY <1>1, <1>3, PowerOf
  <2> HIDE DEF p
  <2>2. b * p \in Nat \ {0}
    BY <2>1
  <2> QED
    BY <2>1, <2>2
<1> HIDE DEF S
<1>4. \A k \in Nat : k \in S
  BY <1>2, <1>3, Inductive
<1> QED
  BY <1>4 DEF S

\* A digit less is a division by the base, and the digit is the remainder.
LEMMA DivDown ==
  ASSUME NEW b \in Nat \ {0}, NEW p \in Nat \ {0}, NEW m \in Nat
  PROVE  (m \div p) \div b = m \div (b * p)
<1> DEFINE x == m \div p
           y == x \div b
           r == m % p
           s == x % b
<1>1. x \in Nat /\ r \in Nat /\ r < p /\ m = p * x + r
  BY SMT
<1>2. y \in Nat /\ s \in Nat /\ s < b /\ x = b * y + s
  BY <1>1, SMT
<1> HIDE DEF x, y, r, s
<1>3. m = (b * p) * y + (p * s + r)
  <2>1. p * (b * y + s) + r = (b * p) * y + (p * s + r)
    BY <1>1, <1>2, SMT
  <2> QED
    BY <1>1, <1>2, <2>1
<1>4. p * s + r \in Nat /\ p * s + r < b * p
  <2>1. s <= b - 1 /\ r <= p - 1 /\ b - 1 \in Nat
    BY <1>1, <1>2, SMT
  <2>2. p * s <= p * (b - 1)
    BY <1>2, <2>1, SMT
  <2>3. p * (b - 1) = b * p - p /\ p * s \in Nat /\ b * p \in Nat
    BY <1>2, SMT
  <2> QED
    BY <1>1, <2>1, <2>2, <2>3, SMT
<1>5. \A d \in Nat, q \in Nat, z \in Nat : z < d => (d * q + z) \div d = q
  BY SMT
<1>6. b * p \in Nat
  BY SMT
<1>7. m \div (b * p) = y
  BY <1>2, <1>3, <1>4, <1>5, <1>6
<1> QED
  BY <1>7 DEF x, y

\* Without no digit a number is what it was; without one more, it is divided once more.
LEMMA QuotOf ==
  ASSUME NEW b \in Nat \ {0}, NEW mag \in Nat
  PROVE  /\ Quot(b, mag, 0) = mag
         /\ \A k \in Nat : /\ Quot(b, mag, k) \in Nat
                           /\ Quot(b, mag, k + 1) = Quot(b, mag, k) \div b
                           /\ mag < D!Power(b, k) => Quot(b, mag, k) = 0
<1>1. D!Power(b, 0) = 1 /\ \A k \in Nat : D!Power(b, k + 1) = b * D!Power(b, k)
  BY PowerOf
<1>2. Quot(b, mag, 0) = mag
  BY <1>1 DEF Quot
<1>3. ASSUME NEW k \in Nat
      PROVE  /\ Quot(b, mag, k) \in Nat
             /\ Quot(b, mag, k + 1) = Quot(b, mag, k) \div b
             /\ mag < D!Power(b, k) => Quot(b, mag, k) = 0
  <2> DEFINE p == D!Power(b, k)
  <2>1. p \in Nat \ {0} /\ D!Power(b, k + 1) = b * p
    BY <1>1, PowerPositive
  <2> HIDE DEF p
  <2>2. mag \div p \in Nat /\ (mag < p => mag \div p = 0)
    BY <2>1, SMT
  <2>3. (mag \div p) \div b = mag \div (b * p)
    BY <2>1, DivDown
  <2> QED
    BY <2>1, <2>2, <2>3 DEF Quot, p
<1> QED
  BY <1>2, <1>3

\* The digit before the last r
LEMMA QuotDigit ==
  ASSUME NEW b \in Nat \ {0}, NEW mag \in Nat, NEW r \in Nat \ {0}
  PROVE  /\ Quot(b, mag, r - 1) % b \in 0 .. b - 1
         /\ Quot(b, mag, r - 1) = b * Quot(b, mag, r) + (Quot(b, mag, r - 1) % b)
<1>1. r - 1 \in Nat /\ (r - 1) + 1 = r
  OBVIOUS
<1>2. Quot(b, mag, r - 1) \in Nat /\ Quot(b, mag, r) = Quot(b, mag, r - 1) \div b
  BY <1>1, QuotOf
<1>3. \A x \in Nat : x % b \in 0 .. b - 1 /\ x = b * (x \div b) + (x % b)
  BY SMT
<1> QED
  BY <1>2, <1>3

\* Nothing is left of a number of WIDTH bits after so many hexadecimal digits.
LEMMA HexFits ==
  /\ D!HEXSZ \in Nat \ {0}
  /\ D!Power(2, WIDTH) = D!Power(16, D!HEXSZ)
  /\ D!Unlimited \in Nat /\ D!Unlimited > 2 * D!HEXSZ
<1>1. WIDTH \in Nat \ {0} /\ WIDTH % 4 = 0
  BY DigitsAssumption DEF D!WidthAssumption
<1>2. D!HEXSZ \in Nat \ {0} /\ WIDTH = 4 * D!HEXSZ
  BY <1>1, SMT DEF D!HEXSZ
<1> DEFINE S == {k \in Nat : D!Power(2, 4 * k) = D!Power(16, k) /\ D!Power(16, k) > 2 * k /\ D!Power(16, k) \in Nat}
<1>3. 0 \in S
  <2>1. D!Power(2, 0) = 1 /\ D!Power(16, 0) = 1 /\ 4 * 0 = 0
    BY PowerOf
  <2> QED
    BY <2>1
<1>4. ASSUME NEW k \in Nat, k \in S
      PROVE  k + 1 \in S
  <2> DEFINE p == D!Power(2, 4 * k)
  <2>1. p = D!Power(16, k) /\ p > 2 * k /\ p \in Nat
    BY <1>4
  <2>2. D!Power(16, k + 1) = 16 * p
    BY <2>1, PowerOf
  <2>3. /\ 4 * k \in Nat /\ 4 * k + 1 \in Nat /\ (4 * k + 1) + 1 \in Nat
        /\ ((4 * k + 1) + 1) + 1 \in Nat
        /\ 4 * (k + 1) = (((4 * k + 1) + 1) + 1) + 1
    OBVIOUS
  <2>4. /\ D!Power(2, 4 * k + 1) = 2 * p
        /\ D!Power(2, (4 * k + 1) + 1) = 2 * D!Power(2, 4 * k + 1)
        /\ D!Power(2, ((4 * k + 1) + 1) + 1) = 2 * D!Power(2, (4 * k + 1) + 1)
        /\ D!Power(2, (((4 * k + 1) + 1) + 1) + 1) = 2 * D!Power(2, ((4 * k + 1) + 1) + 1)
    <3>1. 2 \in Nat
      OBVIOUS
    <3> QED
      BY <2>3, <3>1, PowerOf
  <2> HIDE DEF p
  <2>5. D!Power(2, 4 * (k + 1)) = 16 * p
    <3>1. 2 * (2 * (2 * (2 * p))) = 16 * p
      BY <2>1
    <3> QED
      BY <2>3, <2>4, <3>1
  <2>6. 16 * p > 2 * (k + 1) /\ 16 * p \in Nat
    BY <2>1
  <2> QED
    BY <2>2, <2>5, <2>6
<1> HIDE DEF S
<1>5. \A k \in Nat : k \in S
  BY <1>3, <1>4, Inductive
<1>6. D!HEXSZ \in S
  BY <1>2, <1>5
<1> QED
  BY <1>2, <1>6 DEF S, D!Unlimited

-----------------------------------------------------------------------------
(* Writing a digit *)

\* Nothing is written.
LEMMA NumeralEmpty ==
  ASSUME NEW b \in Nat \ {0}, NEW mag \in Nat, NEW r \in Nat
  PROVE  << >> \in Seq(0 .. b - 1) /\ Numeral(b, mag, r, << >>)
<1>1. << >> \in Seq(0 .. b - 1) /\ << >> \in Seq(Nat) /\ Len(<< >>) = 0 /\ r + 0 = r
  OBVIOUS
<1>2. D!ValueOf(<< >>, b) = 0
  <2>1. b \in Nat /\ 0 \in Nat
    OBVIOUS
  <2> QED
    BY <1>1, <2>1, ValueOfDigits
<1>3. D!Power(b, 0) = 1 /\ Quot(b, mag, r) \in Nat
  BY PowerOf, QuotOf
<1>4. 0 = Quot(b, mag, r) - 1 * Quot(b, mag, r)
  BY <1>3
<1> QED
  BY <1>1, <1>2, <1>3, <1>4 DEF Numeral

\* The next digit is appended.
LEMMA NumeralGrows ==
  ASSUME NEW b \in Nat \ {0}, NEW mag \in Nat, NEW r \in Nat \ {0},
         NEW u \in Seq(0 .. b - 1), Numeral(b, mag, r, u), NEW d,
         d = Quot(b, mag, r - 1) % b
  PROVE  /\ Append(u, d) \in Seq(0 .. b - 1) /\ Len(Append(u, d)) = Len(u) + 1
         /\ Numeral(b, mag, r - 1, Append(u, d))
<1> DEFINE h == D!ValueOf(u, b)
           L == Len(u)
           p == D!Power(b, L)
           q == Quot(b, mag, r)
           x == Quot(b, mag, r + L)
           t == Append(u, d)
<1>1. L \in Nat /\ u \in Seq(Nat) /\ b \in Nat
  <2>1. 0 .. b - 1 \subseteq Nat
    OBVIOUS
  <2> QED
    BY <2>1
<1>2. d \in 0 .. b - 1 /\ d \in Nat /\ Quot(b, mag, r - 1) = b * q + d
  BY QuotDigit
<1>3. /\ t \in Seq(0 .. b - 1) /\ Len(t) = L + 1 /\ t # << >>
      /\ L = 0 => t[1] = d
      /\ L # 0 => t[1] = u[1]
  <2>1. d \in 0 .. b - 1
    BY <1>2
  <2>2. t \in Seq(0 .. b - 1) /\ Len(t) = L + 1
    BY <2>1, AppendProperties
  <2>3. t # << >>
    BY <1>1, <2>2
  <2>4. t[L + 1] = d /\ \A i \in 1 .. L : t[i] = u[i]
    BY <2>1, AppendProperties
  <2>5. L # 0 => 1 \in 1 .. L
    BY <1>1
  <2> HIDE DEF t, L
  <2> QED
    BY <2>2, <2>3, <2>4, <2>5
<1>4. D!ValueOf(t, b) = b * h + d /\ h \in Nat
  BY <1>1, <1>2, ValueOfDigits
<1>5. p \in Nat \ {0} /\ D!Power(b, L + 1) = b * p
  BY <1>1, PowerOf, PowerPositive
<1>6. q \in Nat /\ x \in Nat
  <2>1. r \in Nat /\ r + L \in Nat
    BY <1>1
  <2> QED
    BY <2>1, QuotOf
<1>7. h = q - p * x /\ h < p
  BY DEF Numeral
<1>8. (r - 1) + (L + 1) = r + L /\ (u = << >> <=> L = 0)
  BY <1>1
<1>9. u # << >> => u[1] = Quot(b, mag, r + L - 1) % b
  BY DEF Numeral
<1> HIDE DEF h, L, p, q, x, t
<1>10. b * h + d = Quot(b, mag, r - 1) - (b * p) * x
  <2>1. b * (q - p * x) = b * q - (b * p) * x /\ b * q \in Nat /\ (b * p) * x \in Nat
    BY <1>5, <1>6, SMT
  <2> QED
    BY <1>2, <1>7, <2>1
<1>11. b * h + d < b * p
  <2>1. h <= p - 1 /\ p - 1 \in Nat
    BY <1>4, <1>5, <1>7
  <2>2. b * h <= b * (p - 1)
    BY <1>4, <2>1, SMT
  <2>3. b * (p - 1) = b * p - b /\ b * p \in Nat /\ b * h \in Nat
    BY <1>4, <1>5, SMT
  <2> QED
    BY <1>2, <2>2, <2>3
<1>12. t[1] = Quot(b, mag, (r - 1) + (L + 1) - 1) % b
  <2>1. CASE L = 0
    <3>1. (r - 1) + (L + 1) - 1 = r - 1
      BY <2>1
    <3> QED
      BY <1>3, <2>1, <3>1
  <2>2. CASE L # 0
    <3>1. (r - 1) + (L + 1) - 1 = r + L - 1
      BY <1>1
    <3>2. t[1] = u[1] /\ u[1] = Quot(b, mag, r + L - 1) % b
      BY <1>3, <1>8, <1>9, <2>2 DEF L
    <3> QED
      BY <3>1, <3>2
  <2> QED
    BY <2>1, <2>2
<1>13. Numeral(b, mag, r - 1, t)
  BY <1>3, <1>4, <1>5, <1>8, <1>10, <1>11, <1>12 DEF Numeral, x
<1> QED
  BY <1>3, <1>13 DEF t, L

\* A digit is no sign.
LEMMA UnsignedGrows ==
  ASSUME v7 \in Seq(Int), NEW d \in Nat, v7' = Append(v7, d)
  PROVE  /\ v7' \in Seq(Int)
         /\ D!Unsigned' = Append(D!Unsigned, d)
         /\ (v7' # << >> /\ v7'[1] = D!Minus) <=> (v7 # << >> /\ v7[1] = D!Minus)
<1>1. v7' \in Seq(Int) /\ v7' # << >> /\ d # -16
  OBVIOUS
<1>2. CASE v7 = << >>
  <2>1. v7'[1] = d
    BY <1>2
  <2> QED
    BY <1>1, <1>2, <2>1 DEF D!Unsigned, D!Minus
<1>3. CASE v7 # << >>
  <2>1. v7'[1] = v7[1]
    BY <1>3
  <2>2. Tail(Append(v7, d)) = Append(Tail(v7), d)
    BY <1>3
  <2> QED
    BY <1>1, <1>3, <2>1, <2>2 DEF D!Unsigned, D!Minus
<1> QED
  BY <1>2, <1>3

\* What the arguments fix.
LEMMA Given ==
  ASSUME v1' = v1, v2' = v2, v3' = v3
  PROVE  /\ Base' = Base /\ Mag' = Mag /\ (Least64' <=> Least64)
         /\ (Negative' <=> Negative) /\ (Precise' <=> Precise)
  BY DEF Base, Mag, Least64, Negative, Precise

\* The base and the magnitude of each conversion
LEMMA Magnitude ==
  ASSUME SizesInv
  PROVE  /\ Base \in Nat \ {0} /\ Base <= 16 /\ Mag \in Nat /\ (Mag = 0 <=> v2 = 0)
         /\ v1 = "hex" => Base = 16 /\ Mag < D!Power(16, D!HEXSZ) /\ ~Least64
         /\ v1 = "bin" => Base = 2 /\ Mag = v2 /\ ~Least64
         /\ v1 \in {"idec", "udec"} => Base = 10 /\ Mag < D!Power(10, DECSZ)
         /\ v1 # "idec" => Mag = v2
         /\ v2 \in Int /\ DECSZ \in Nat /\ D!Power(10, DECSZ) \in Nat
<1> DEFINE h == D!Power(2, WIDTH - 1)
           t == D!Power(10, DECSZ)
<1>1. /\ WIDTH \in Nat \ {0} /\ DECSZ \in Nat /\ D!Power(2, WIDTH) <= t
  BY DigitsAssumption DEF D!WidthAssumption
<1>2. WIDTH - 1 \in Nat /\ (WIDTH - 1) + 1 = WIDTH
  BY <1>1
<1>3. h \in Nat \ {0} /\ D!Power(2, WIDTH) = 2 * h
  <2>1. 2 \in Nat \ {0}
    OBVIOUS
  <2>2. h \in Nat \ {0} /\ D!Power(2, (WIDTH - 1) + 1) = 2 * h
    BY <1>2, <2>1, PowerOf, PowerPositive
  <2> QED
    BY <1>2, <2>2
<1>4. t \in Nat
  BY <1>1, PowerOf
<1>5. D!MIN = -h /\ D!Unlimited = 2 * h
  BY <1>3 DEF D!MIN, D!Unlimited
<1>6. /\ v1 \in {"idec", "udec", "hex", "bin"}
      /\ v2 \in (IF v1 = "idec" THEN D!MIN ELSE 0) .. D!Greatest(v1)
      /\ D!Greatest(v1) = IF v1 = "idec" THEN h - 1 ELSE 2 * h - 1
  BY <1>5 DEF SizesInv, D!Greatest
<1> HIDE DEF h, t
<1>7. v2 \in Int /\ Mag \in Nat /\ Mag < 2 * h /\ (Mag = 0 <=> v2 = 0) /\ (v1 # "idec" => Mag = v2)
  BY <1>3, <1>5, <1>6 DEF Mag, Negative
<1>8. Mag < t
  BY <1>1, <1>3, <1>4, <1>7
<1>9. Base \in Nat \ {0} /\ Base <= 16
  BY DEF Base
<1>10. Mag < D!Power(16, D!HEXSZ)
  BY <1>3, <1>7, HexFits
<1>11. /\ v1 = "hex" => Base = 16 /\ ~Least64
       /\ v1 = "bin" => Base = 2 /\ ~Least64
       /\ v1 \in {"idec", "udec"} => Base = 10
  BY DEF Base, Least64
<1> QED
  BY <1>1, <1>4, <1>7, <1>8, <1>9, <1>10, <1>11 DEF t

-----------------------------------------------------------------------------
(* The steps of the conversions *)

\* The conversions begin with all of the number left.
LEMMA DigitsInit ==
  ASSUME D!Init
  PROVE  DigitsInv
<1>1. /\ v1 \in {"idec", "udec", "hex", "bin"}
      /\ v2 \in (IF v1 = "idec" THEN D!MIN ELSE 0) .. D!Greatest(v1)
      /\ v3 \in D!Asked(v1) /\ v6 = << >> /\ v8 = "digits"
      /\ v5 = IF v1 = "hex" THEN D!Precision(v3) ELSE v3
      /\ IF v1 = "idec" /\ v2 < 0 THEN v4 \in D!Negate(v2) /\ v7 = <<D!Minus>>
         ELSE v4 = v2 /\ v7 = << >>
  BY DEF D!Init
<1>2. D!HEXSZ \in Nat \ {0} /\ D!Unlimited \in Nat
  BY HexFits
<1>3. v3 \in Nat
  <2>1. WIDTH \in Nat
    BY DigitsAssumption DEF D!WidthAssumption
  <2>2. WIDTH \div 2 \in Nat
    BY <2>1, SMT
  <2> QED
    BY <1>1, <1>2, <2>1, <2>2 DEF D!Asked
<1>4. v5 \in Nat /\ (v1 = "hex" => v5 = IF Precise THEN v3 ELSE D!Unlimited)
  BY <1>1, <1>2, <1>3 DEF D!Precision, Precise
<1>5. v6 \in Seq(Int) /\ v7 \in Seq(Int) /\ Len(v6) = 0 /\ 1 .. Len(v6) = {}
  <2>1. D!Minus \in Int
    BY DEF D!Minus
  <2>2. <<D!Minus>> \in Seq(Int) /\ << >> \in Seq(Int) /\ Len(<< >>) = 0
    BY <2>1
  <2>3. v7 = <<D!Minus>> \/ v7 = << >>
    BY <1>1
  <2>4. v7 \in Seq(Int)
    BY <2>2, <2>3, Zenon
  <2>5. v6 \in Seq(Int) /\ Len(v6) = 0
    BY <1>1, <2>2
  <2> QED
    BY <2>4, <2>5
<1> DEFINE lim == IF v1 = "hex" THEN D!HEXSZ ELSE DECSZ
<1>6. Len(v6) <= lim
  <2>1. lim \in Nat
    BY <1>2, DigitsAssumption DEF D!WidthAssumption
  <2> HIDE DEF lim
  <2> QED
    BY <1>5, <2>1
<1>7. v4 = Mag \/ (Least64 /\ v4 = -Mag)
  <2>1. D!MIN \in Int /\ v2 \in Int
    <3>1. WIDTH - 1 \in Nat /\ 2 \in Nat
      BY DigitsAssumption DEF D!WidthAssumption
    <3>2. D!Power(2, WIDTH - 1) \in Nat
      BY <3>1, PowerOf
    <3> QED
      BY <1>1, <3>2 DEF D!MIN, D!Greatest, D!Unlimited
  <2> QED
    BY <1>1, <2>1 DEF Mag, Negative, Least64, D!Negate
<1>8. SizesInv
  <2>1. Base \in Nat \ {0} /\ Mag \in Nat
    <3>1. Base \in Nat \ {0}
      BY DEF Base
    <3>2. v2 \in Int
      <4>1. WIDTH - 1 \in Nat /\ 2 \in Nat
        BY DigitsAssumption DEF D!WidthAssumption
      <4>2. D!Power(2, WIDTH - 1) \in Nat
        BY <4>1, PowerOf
      <4> QED
        BY <1>1, <1>2, <4>2 DEF D!MIN, D!Greatest
    <3>3. Mag \in Nat
      BY <1>1, <3>2 DEF Mag, Negative
    <3> QED
      BY <3>1, <3>3
  <2>2. Quot(Base, Mag, Len(v6)) = Mag
    BY <1>5, <2>1, QuotOf
  <2> QED
    BY <1>1, <1>3, <1>4, <1>5, <1>6, <1>7, <2>2 DEF SizesInv
<1>9. Base \in Nat \ {0} /\ Mag \in Nat /\ (v1 = "bin" => Mag = v2)
  BY <1>8, Magnitude
<1>10. D!Unsigned = << >> /\ (Negative <=> v7 # << >> /\ v7[1] = D!Minus)
  <2>1. Tail(<<D!Minus>>) = << >> /\ <<D!Minus>> # << >> /\ <<D!Minus>>[1] = D!Minus
    OBVIOUS
  <2>2. CASE Negative
    <3>1. v7 = <<D!Minus>>
      BY <1>1, <2>2 DEF Negative
    <3> QED
      BY <2>1, <2>2, <3>1 DEF D!Unsigned
  <2>3. CASE ~Negative
    <3>1. v7 = << >>
      BY <1>1, <2>3 DEF Negative
    <3> QED
      BY <2>3, <3>1 DEF D!Unsigned
  <2> QED
    BY <2>2, <2>3
<1>11. Rest \in Nat /\ Rest + Len(D!Unsigned) = Rest
  BY <1>4, <1>5, <1>10 DEF Rest
<1>12. v1 # "bin" => Rest = 0
  BY <1>5 DEF Rest
<1>13. FoundInv
  <2>1. v1 = "bin" => v4 = v2
    BY <1>1
  <2>2. v1 = "bin" /\ Precise => Rest = v3
    BY <1>1 DEF Rest
  <2>3. ~Precise => LeadInv(Rest)
    BY <1>1, <1>12 DEF LeadInv, Precise
  <2>4. v1 = "hex" => IF Precise THEN v5 + Len(v6) = v3 ELSE v5 + Len(v6) = D!Unlimited
    BY <1>2, <1>3, <1>4, <1>5
  <2> QED
    BY <1>1, <1>5, <1>10, <1>11, <2>1, <2>2, <2>3, <2>4 DEF FoundInv
<1>14. D!Unsigned \in Seq(0 .. Base - 1) /\ Numeral(Base, Mag, Rest, D!Unsigned)
  BY <1>9, <1>10, <1>11, NumeralEmpty
<1> QED
  BY <1>1, <1>8, <1>10, <1>13, <1>14 DEF DigitsInv, ExactInv

\* What a step starts from.
LEMMA DigitsKnown ==
  ASSUME DigitsInv
  PROVE  /\ Len(v6) \in Nat /\ Rest \in Nat
         /\ \A k \in Nat : /\ Quot(Base, Mag, k) \in Nat
                           /\ Quot(Base, Mag, k + 1) = Quot(Base, Mag, k) \div Base
         /\ v1 \in {"idec", "udec"} => Quot(Base, Mag, DECSZ) = 0
         /\ v1 = "hex" => Quot(Base, Mag, D!HEXSZ) = 0
         /\ Mag = 0 => \A k \in Nat : Quot(Base, Mag, k) = 0
<1>1. SizesInv
  BY DEF DigitsInv
<1>2. Len(v6) \in Nat /\ Rest \in Nat
  BY <1>1, LenProperties DEF SizesInv, Rest
<1>3. Base \in Nat \ {0} /\ Mag \in Nat
  BY <1>1, Magnitude
<1>4. v1 \in {"idec", "udec"} => Quot(Base, Mag, DECSZ) = 0
  BY <1>1, <1>3, Magnitude, QuotOf
<1>5. v1 = "hex" => Quot(Base, Mag, D!HEXSZ) = 0
  BY <1>1, <1>3, Magnitude, QuotOf, HexFits
<1>6. Mag = 0 => \A k \in Nat : Quot(Base, Mag, k) = 0
  <2>1. \A k \in Nat : 0 < D!Power(Base, k)
    BY <1>3, PowerPositive
  <2> QED
    BY <1>3, <2>1, QuotOf
<1> QED
  BY <1>2, <1>3, <1>4, <1>5, <1>6, QuotOf

\* A decimal digit is found.
LEMMA DecimalStep ==
  ASSUME DigitsInv, D!DecimalDigit
  PROVE  DigitsInv'
<1> DEFINE n == Len(v6)
           q == Quot(Base, Mag, n)
<1>1. /\ v1 \in {"idec", "udec"} /\ v8 = "digits" /\ v4 # 0
      /\ v6' = Append(v6, D!Rem(v4, 10)) /\ v4' = D!Div(v4, 10)
      /\ v1' = v1 /\ v2' = v2 /\ v3' = v3 /\ v5' = v5 /\ v7' = v7 /\ v8' = v8
  BY DEF D!DecimalDigit, D!given
<1>2. SizesInv /\ v6 \in Seq(Int) /\ n <= DECSZ /\ (v4 = q \/ (Least64 /\ v4 = -q))
  BY <1>1 DEF DigitsInv, SizesInv
<1>3. Base = 10 /\ DECSZ \in Nat
  BY <1>1, <1>2, Magnitude
<1>4. n \in Nat /\ q \in Nat /\ Quot(Base, Mag, n + 1) = q \div 10
  BY <1>3, DigitsKnown
<1>5. n < DECSZ /\ q # 0
  <2>1. Quot(Base, Mag, DECSZ) = 0
    BY <1>1, DigitsKnown
  <2> QED
    BY <1>1, <1>2, <1>3, <1>4, <2>1
<1>6. /\ v4 = q => v4' = q \div 10 /\ D!Rem(v4, 10) = q % 10
      /\ v4 = -q => v4' = -(q \div 10)
      /\ D!Rem(v4, 10) \in Int
  <2>1. v4 = q => v4' = q \div 10 /\ D!Rem(v4, 10) = q - 10 * (q \div 10)
    BY <1>1, <1>4 DEF D!Div, D!Rem
  <2>2. v4 = -q => v4' = -(q \div 10) /\ D!Rem(v4, 10) = v4 - 10 * (-(q \div 10))
    <3>1. v4 = -q => v4 < 0 /\ -v4 = q
      BY <1>4, <1>5
    <3> QED
      BY <1>1, <3>1 DEF D!Div, D!Rem
  <2>3. q - 10 * (q \div 10) = q % 10 /\ q % 10 \in Int /\ q \div 10 \in Int
    BY <1>4, SMT
  <2>4. v4 = q \/ v4 = -q
    BY <1>2
  <2> HIDE DEF q
  <2> QED
    BY <1>4, <2>1, <2>2, <2>3, <2>4
<1> DEFINE d == D!Rem(v4, 10)
<1>7. v6' = Append(v6, d) /\ d \in Int
  BY <1>1, <1>6
<1> HIDE DEF d, q
<1>8. /\ v6' \in Seq(Int) /\ Len(v6') = n + 1 /\ v6'[n + 1] = d
      /\ \A i \in 1 .. n : v6'[i] = v6[i]
  BY <1>2, <1>7
<1> HIDE DEF n
<1>9. /\ Base' = Base /\ Mag' = Mag /\ (Least64' <=> Least64)
      /\ (Negative' <=> Negative) /\ (Precise' <=> Precise)
  BY <1>1, Given
<1>10. SizesInv'
  <2>1. n + 1 <= DECSZ
    BY <1>3, <1>4, <1>5
  <2>2. v4' = Quot(Base, Mag, n + 1) \/ (Least64 /\ v4' = -Quot(Base, Mag, n + 1))
    BY <1>2, <1>4, <1>6
  <2> QED
    BY <1>1, <1>2, <1>8, <1>9, <2>1, <2>2 DEF SizesInv
<1>11. ASSUME ~Least64
       PROVE  ExactInv'
  <2>1. ExactInv /\ v4 = q
    BY <1>2, <1>11 DEF DigitsInv
  <2>2. D!Unsigned = << >> /\ D!Unsigned' = << >>
    BY <1>1, <2>1 DEF ExactInv, FoundInv, D!Unsigned
  <2>3. Rest' = n + 1 /\ n + 1 \in Nat /\ Rest' + Len(D!Unsigned') = n + 1 /\ (n + 1) - 1 = n
    BY <1>1, <1>4, <1>8, <2>2 DEF Rest
  <2>4. \A i \in 1 .. n + 1 : v6'[i] = Quot(Base, Mag, i - 1) % Base
    <3>1. \A i \in 1 .. n : v6[i] = Quot(Base, Mag, i - 1) % Base
      BY <2>1 DEF ExactInv, FoundInv, n
    <3>2. \A i \in 1 .. n + 1 : i \in 1 .. n \/ i = n + 1
      BY <1>4
    <3>3. v6'[n + 1] = Quot(Base, Mag, (n + 1) - 1) % Base
      BY <1>3, <1>6, <1>8, <2>1, <2>3 DEF d, q
    <3> QED
      BY <1>8, <3>1, <3>2, <3>3
  <2>5. ~Precise
    BY <1>1 DEF Precise
  <2>6. LeadInv(Rest + Len(D!Unsigned))'
    BY <1>1, <1>5, <1>9, <2>3 DEF LeadInv, q
  <2>7. FoundInv'
    BY <1>1, <1>8, <1>9, <2>2, <2>3, <2>4, <2>5, <2>6 DEF FoundInv
  <2>8. << >> \in Seq(0 .. Base - 1) /\ Numeral(Base, Mag, n + 1, << >>)
    <3>1. Base \in Nat \ {0} /\ Mag \in Nat
      BY <1>2, Magnitude
    <3> QED
      BY <2>3, <3>1, NumeralEmpty
  <2>9. Numeral(Base, Mag, Rest, D!Unsigned)'
    BY <1>9, <2>2, <2>3, <2>8
  <2> QED
    BY <1>1, <1>9, <2>1, <2>2, <2>7, <2>8, <2>9 DEF ExactInv
<1> QED
  BY <1>9, <1>10, <1>11 DEF DigitsInv

\* A hexadecimal digit is found, with a precision or without.
LEMMA HexStep ==
  ASSUME DigitsInv, D!HexDigit
  PROVE  DigitsInv'
<1> DEFINE n == Len(v6)
           q == Quot(Base, Mag, n)
           d == v4 % 16
<1>1. /\ v1 = "hex" /\ v8 = "digits" /\ D!MoreHex
      /\ v6' = Append(v6, d) /\ v4' = v4 \div 16 /\ v5' = v5 - 1
      /\ v1' = v1 /\ v2' = v2 /\ v3' = v3 /\ v7' = v7 /\ v8' = v8
  BY DEF D!HexDigit, D!given
<1>2. SizesInv /\ v6 \in Seq(Int) /\ v3 \in Nat /\ v5 \in Nat /\ n <= D!HEXSZ
  BY <1>1 DEF DigitsInv, SizesInv
<1>3. Base = 16 /\ ~Least64 /\ Mag \in Nat
  BY <1>1, <1>2, Magnitude
<1>4. D!HEXSZ \in Nat \ {0} /\ D!Unlimited \in Nat /\ D!Unlimited > 2 * D!HEXSZ
  BY HexFits
<1>5. n \in Nat /\ q \in Nat /\ Quot(Base, Mag, n + 1) = q \div 16
  BY <1>3, DigitsKnown
<1>6. v4 = q /\ ExactInv /\ FoundInv /\ D!Unsigned = << >>
  BY <1>1, <1>2, <1>3 DEF DigitsInv, SizesInv, ExactInv, FoundInv
<1>7. IF Precise THEN v5 + n = v3 /\ v3 <= D!HEXSZ ELSE v5 + n = D!Unlimited
  BY <1>1, <1>6 DEF FoundInv, Precise
<1>8. v5 # 0 /\ ~(v5 > D!HEXSZ /\ v4 = 0 /\ v6 # << >>)
  BY <1>1 DEF D!MoreHex
<1>9. (v6 = << >> <=> n = 0)
  BY <1>2
<1>10. n < D!HEXSZ /\ (~Precise => (n = 0 \/ q # 0))
  <2>1. Quot(Base, Mag, D!HEXSZ) = 0
    BY <1>1, DigitsKnown
  <2>2. ~Precise => v5 > D!HEXSZ
    BY <1>2, <1>4, <1>5, <1>7
  <2>3. n = D!HEXSZ => q = 0
    BY <2>1
  <2> HIDE DEF n, q
  <2> QED
    BY <1>2, <1>4, <1>5, <1>6, <1>7, <1>8, <1>9, <2>2, <2>3
<1>11. d = q % 16 /\ d \in Int /\ d = Quot(Base, Mag, n) % 16
  BY <1>5, <1>6, SMT
<1> HIDE DEF d, q
<1>12. /\ v6' \in Seq(Int) /\ Len(v6') = n + 1 /\ v6'[n + 1] = d
       /\ \A i \in 1 .. n : v6'[i] = v6[i]
  BY <1>1, <1>2, <1>11
<1> HIDE DEF n
<1>13. /\ Base' = Base /\ Mag' = Mag /\ (Least64' <=> Least64)
       /\ (Negative' <=> Negative) /\ (Precise' <=> Precise)
  BY <1>1, Given
<1>14. SizesInv'
  <2>1. n + 1 <= D!HEXSZ /\ v5' \in Nat
    BY <1>1, <1>2, <1>4, <1>5, <1>8, <1>10
  <2>2. v4' = Quot(Base, Mag, n + 1)
    BY <1>1, <1>5, <1>6
  <2> QED
    BY <1>1, <1>2, <1>12, <1>13, <2>1, <2>2 DEF SizesInv
<1>15. D!Unsigned' = << >>
  BY <1>1, <1>6 DEF D!Unsigned
<1>16. Rest' = n + 1 /\ n + 1 \in Nat /\ Rest' + Len(D!Unsigned') = n + 1 /\ (n + 1) - 1 = n
  BY <1>1, <1>5, <1>12, <1>15 DEF Rest
<1>17. \A i \in 1 .. n + 1 : v6'[i] = Quot(Base, Mag, i - 1) % Base
  <2>1. \A i \in 1 .. n : v6[i] = Quot(Base, Mag, i - 1) % Base
    BY <1>6 DEF FoundInv, n
  <2>2. \A i \in 1 .. n + 1 : i \in 1 .. n \/ i = n + 1
    BY <1>5
  <2> QED
    BY <1>3, <1>11, <1>12, <1>16, <2>1, <2>2
<1>18. ~Precise => LeadInv(Rest + Len(D!Unsigned))'
  <2>1. n + 1 >= 2 => n # 0
    BY <1>5
  <2> QED
    BY <1>1, <1>10, <1>13, <1>16, <2>1 DEF LeadInv, q
<1>19. v5' + Len(v6') = v5 + n
  BY <1>1, <1>2, <1>5, <1>12
<1>20. FoundInv'
  BY <1>1, <1>7, <1>12, <1>13, <1>15, <1>17, <1>18, <1>19 DEF FoundInv
<1>21. << >> \in Seq(0 .. Base - 1) /\ Numeral(Base, Mag, n + 1, << >>)
  <2>1. Base \in Nat \ {0}
    BY <1>3
  <2> QED
    BY <1>3, <1>16, <2>1, NumeralEmpty
<1>22. Numeral(Base, Mag, Rest, D!Unsigned)'
  BY <1>13, <1>15, <1>16, <1>21
<1>23. ExactInv'
  BY <1>1, <1>6, <1>13, <1>15, <1>20, <1>21, <1>22 DEF ExactInv
<1> QED
  BY <1>14, <1>23 DEF DigitsInv

\* A digit is written: the last one kept, or a bit.
LEMMA WrittenDigit ==
  ASSUME DigitsInv, ~Least64, Rest # 0, NEW d, d = Quot(Base, Mag, Rest - 1) % Base,
         v7' = Append(v7, d), v1' = v1, v2' = v2, v3' = v3, Rest' = Rest - 1
  PROVE  /\ v7' \in Seq(Int)
         /\ (Negative' <=> v7' # << >> /\ v7'[1] = D!Minus)
         /\ D!Unsigned' \in Seq(0 .. Base' - 1)
         /\ Numeral(Base, Mag, Rest, D!Unsigned)'
         /\ Rest' + Len(D!Unsigned') = Rest + Len(D!Unsigned)
<1>1. SizesInv /\ ExactInv /\ v7 \in Seq(Int)
  BY DEF DigitsInv, SizesInv
<1>2. Base \in Nat \ {0} /\ Mag \in Nat
  BY <1>1, Magnitude
<1>3. Rest \in Nat \ {0}
  BY DigitsKnown
<1>4. d \in Nat
  <2>1. d \in 0 .. Base - 1
    BY <1>2, <1>3, QuotDigit
  <2> QED
    BY <1>2, <2>1
<1>5. /\ v7' \in Seq(Int) /\ D!Unsigned' = Append(D!Unsigned, d)
      /\ (v7' # << >> /\ v7'[1] = D!Minus) <=> (v7 # << >> /\ v7[1] = D!Minus)
  BY <1>1, <1>4, UnsignedGrows
<1>6. Base' = Base /\ Mag' = Mag /\ (Negative' <=> Negative)
  BY Given
<1>7. D!Unsigned \in Seq(0 .. Base - 1) /\ Numeral(Base, Mag, Rest, D!Unsigned)
  BY <1>1 DEF ExactInv
<1>8. /\ Append(D!Unsigned, d) \in Seq(0 .. Base - 1)
      /\ Len(Append(D!Unsigned, d)) = Len(D!Unsigned) + 1
      /\ Numeral(Base, Mag, Rest - 1, Append(D!Unsigned, d))
  BY <1>2, <1>3, <1>7, NumeralGrows
<1>9. Numeral(Base, Mag, Rest, D!Unsigned)'
  BY <1>5, <1>6, <1>8
<1>10. (Rest - 1) + (Len(D!Unsigned) + 1) = Rest + Len(D!Unsigned)
  <2>1. Len(D!Unsigned) \in Nat
    BY <1>7, LenProperties
  <2> QED
    BY <1>3, <2>1
<1>11. Negative <=> v7 # << >> /\ v7[1] = D!Minus
  BY <1>1 DEF ExactInv
<1> QED
  BY <1>5, <1>6, <1>8, <1>9, <1>10, <1>11

\* A bit is found and written.
LEMMA BinStep ==
  ASSUME DigitsInv, D!BinDigit
  PROVE  DigitsInv'
<1> DEFINE d == (v4 \div D!Power(2, v5 - 1)) % 2
<1>1. /\ v1 = "bin" /\ v8 = "digits" /\ v5 > 0 /\ v7' = Append(v7, d) /\ v5' = v5 - 1
      /\ v1' = v1 /\ v2' = v2 /\ v3' = v3 /\ v4' = v4 /\ v6' = v6 /\ v8' = v8
  BY DEF D!BinDigit, D!given, D!BinShift
<1>2. SizesInv /\ v5 \in Nat
  BY DEF DigitsInv, SizesInv
<1>3. Base = 2 /\ ~Least64 /\ Mag = v2
  BY <1>1, <1>2, Magnitude
<1>4. ExactInv /\ FoundInv /\ v4 = v2 /\ v6 = << >>
  BY <1>1, <1>3 DEF DigitsInv, ExactInv, FoundInv
<1>5. Rest = v5 /\ Rest' = v5 - 1 /\ Rest' = Rest - 1 /\ Rest # 0 /\ v5 - 1 \in Nat
  BY <1>1, <1>2 DEF Rest
<1>6. d = Quot(Base, Mag, Rest - 1) % Base
  BY <1>3, <1>4, <1>5 DEF Quot
<1> HIDE DEF d
<1>7. /\ v7' \in Seq(Int)
      /\ (Negative' <=> v7' # << >> /\ v7'[1] = D!Minus)
      /\ D!Unsigned' \in Seq(0 .. Base' - 1)
      /\ Numeral(Base, Mag, Rest, D!Unsigned)'
      /\ Rest' + Len(D!Unsigned') = Rest + Len(D!Unsigned)
  BY <1>1, <1>3, <1>5, <1>6, WrittenDigit
<1>8. /\ Base' = Base /\ Mag' = Mag /\ (Least64' <=> Least64)
      /\ (Negative' <=> Negative) /\ (Precise' <=> Precise)
  BY <1>1, Given
<1>9. SizesInv'
  BY <1>1, <1>2, <1>5, <1>7 DEF SizesInv
<1>10. FoundInv'
  <2>1. Precise /\ Rest + Len(D!Unsigned) = v3
    BY <1>1, <1>4 DEF FoundInv, Precise
  <2>2. 1 .. Len(v6') = {}
    <3>1. Len(<< >>) = 0
      OBVIOUS
    <3> QED
      BY <1>1, <1>4, <3>1
  <2> QED
    BY <1>1, <1>4, <1>7, <1>8, <2>1, <2>2 DEF FoundInv
<1>11. ExactInv'
  BY <1>1, <1>7, <1>10 DEF ExactInv
<1> QED
  BY <1>9, <1>11 DEF DigitsInv

\* There is no digit more.
LEMMA EndStep ==
  ASSUME DigitsInv, D!EndDigits
  PROVE  DigitsInv'
<1> DEFINE n == Len(v6)
<1>1. /\ v8 = "digits" /\ v8' = "write"
      /\ v1 = "hex" => ~D!MoreHex
      /\ v1 = "bin" => v5 = 0
      /\ v1 \in {"idec", "udec"} => v2 # 0 /\ v4 = 0
      /\ v1' = v1 /\ v2' = v2 /\ v3' = v3 /\ v4' = v4 /\ v5' = v5 /\ v6' = v6 /\ v7' = v7
  BY DEF D!EndDigits, D!given
<1>2. SizesInv /\ v5 \in Nat /\ v3 \in Nat /\ v1 \in {"idec", "udec", "hex", "bin"}
  BY DEF DigitsInv, SizesInv
<1>3. /\ Base' = Base /\ Mag' = Mag /\ (Least64' <=> Least64)
      /\ (Negative' <=> Negative) /\ (Precise' <=> Precise)
  BY <1>1, Given
<1>4. SizesInv'
  BY <1>1, <1>2, <1>3 DEF SizesInv
<1>5. ASSUME ~Least64
      PROVE  ExactInv'
  <2>1. ExactInv /\ FoundInv
    BY <1>5 DEF DigitsInv, ExactInv
  <2>2. D!Unsigned' = D!Unsigned /\ Rest' = Rest
    BY <1>1 DEF D!Unsigned, Rest
  <2>3. n \in Nat /\ (v6 = << >> => n = 0) /\ (n = 0 => v6 = << >>)
    BY <1>2 DEF SizesInv
  <2>4. v1 # "bin" => v4 = Quot(Base, Mag, n) /\ Rest = n /\ Rest + Len(D!Unsigned) = n
    <3>1. v1 # "bin" => v4 = Quot(Base, Mag, n)
      BY <1>1, <1>2, <1>5 DEF SizesInv
    <3>2. v1 # "bin" => Rest = n /\ D!Unsigned = << >>
      BY <1>1, <2>1 DEF Rest, FoundInv
    <3>3. n + Len(<< >>) = n
      BY <2>3
    <3> QED
      BY <3>1, <3>2, <3>3
  <2>5. CASE v1 = "bin"
    <3>1. Precise
      BY <2>5 DEF Precise
    <3>2. FoundInv'
      BY <1>1, <1>3, <2>1, <2>2, <2>5, <3>1 DEF FoundInv
    <3> QED
      BY <1>1, <1>3, <2>1, <2>2, <3>2 DEF ExactInv
  <2>6. CASE v1 = "hex"
    <3>1. D!HEXSZ \in Nat \ {0} /\ D!Unlimited \in Nat /\ D!Unlimited > 2 * D!HEXSZ
      BY HexFits
    <3>2. IF Precise THEN v5 + n = v3 /\ v3 <= D!HEXSZ ELSE v5 + n = D!Unlimited
      BY <1>1, <2>1, <2>6 DEF FoundInv, Precise
    <3>3. v5 = 0 \/ (v5 > D!HEXSZ /\ v4 = 0 /\ v6 # << >>)
      BY <1>1, <2>6 DEF D!MoreHex
    <3>4. n <= D!HEXSZ
      BY <1>2, <2>6 DEF SizesInv
    <3>5. IF Precise THEN n = v3 ELSE n >= 1 /\ v4 = 0
      BY <1>2, <2>3, <3>1, <3>2, <3>3, <3>4
    <3>6. Precise => Rest + Len(D!Unsigned) = v3
      BY <2>4, <2>6, <3>5
    <3>7. ~Precise => LeadInv(Rest + Len(D!Unsigned))'
      <4>1. ~Precise => LeadInv(n)
        BY <2>1, <2>4, <2>6 DEF FoundInv
      <4> QED
        BY <1>1, <1>3, <2>2, <2>4, <2>6, <3>5, <4>1 DEF LeadInv
    <3>8. FoundInv'
      BY <1>1, <1>3, <2>1, <2>2, <2>6, <3>6, <3>7 DEF FoundInv
    <3> QED
      BY <1>1, <1>3, <2>1, <2>2, <3>8 DEF ExactInv
  <2>7. CASE v1 \in {"idec", "udec"}
    <3>1. v2 # 0 /\ Quot(Base, Mag, n) = 0 /\ ~Precise
      BY <1>1, <2>4, <2>7 DEF Precise
    <3>2. n # 0
      <4>1. Quot(Base, Mag, 0) = Mag /\ Mag # 0
        BY <1>2, <3>1, Magnitude, QuotOf
      <4> QED
        BY <3>1, <4>1
    <3>3. LeadInv(n)
      BY <2>1, <2>4, <2>7, <3>1 DEF FoundInv
    <3>4. LeadInv(Rest + Len(D!Unsigned))'
      BY <1>1, <1>3, <2>2, <2>3, <2>4, <2>7, <3>1, <3>2, <3>3 DEF LeadInv
    <3>5. FoundInv'
      BY <1>1, <1>3, <2>1, <2>2, <2>7, <3>1, <3>4 DEF FoundInv
    <3> QED
      BY <1>1, <1>3, <2>1, <2>2, <3>5 DEF ExactInv
  <2> QED
    BY <1>2, <2>5, <2>6, <2>7
<1> QED
  BY <1>3, <1>4, <1>5 DEF DigitsInv

\* A sequence without its last element
LEMMA FrontOf ==
  ASSUME NEW s \in Seq(Int), s # << >>
  PROVE  /\ SubSeq(s, 1, Len(s) - 1) \in Seq(Int)
         /\ Len(SubSeq(s, 1, Len(s) - 1)) = Len(s) - 1 /\ Len(s) - 1 \in Nat
         /\ \A i \in 1 .. Len(s) - 1 : SubSeq(s, 1, Len(s) - 1)[i] = s[i]
<1>1. Len(s) \in Nat /\ Len(s) # 0
  OBVIOUS
<1> DEFINE L == Len(s) - 1
<1>2. L \in Int /\ L \in Nat /\ \A i \in 1 .. L : s[i] \in Int
  <2>1. \A i \in 1 .. Len(s) : s[i] \in Int
    OBVIOUS
  <2> QED
    BY <1>1, <2>1
<1> HIDE DEF L
<1>3. /\ SubSeq(s, 1, L) \in Seq(Int)
      /\ Len(SubSeq(s, 1, L)) = IF 1 <= L THEN L - 1 + 1 ELSE 0
      /\ \A i \in 1 .. L - 1 + 1 : SubSeq(s, 1, L)[i] = s[1 + i - 1]
  BY <1>2, SubSeqProperties
<1>4. Len(SubSeq(s, 1, L)) = L /\ \A i \in 1 .. L : SubSeq(s, 1, L)[i] = s[i]
  <2>1. L - 1 + 1 = L /\ \A i \in 1 .. L : 1 + i - 1 = i
    BY <1>2
  <2>2. ~(1 <= L) => L = 0
    BY <1>2
  <2> QED
    BY <1>3, <2>1, <2>2
<1> QED
  BY <1>2, <1>3, <1>4 DEF L

\* The last digit kept is written, or none is left.
LEMMA WriteStep ==
  ASSUME DigitsInv, D!Write
  PROVE  DigitsInv'
<1> DEFINE n == Len(v6)
<1>1. /\ v8 = "write" /\ v1' = v1 /\ v2' = v2 /\ v3' = v3 /\ v4' = v4 /\ v5' = v5
      /\ v6 = << >> => v8' = "done" /\ v6' = v6 /\ v7' = v7
      /\ v6 # << >> =>
            v8' = v8 /\ v7' = Append(v7, D!Last(v6)) /\ v6' = D!Front(v6)
  BY DEF D!Write, D!given
<1>2. SizesInv /\ v6 \in Seq(Int) /\ v7 \in Seq(Int)
  BY DEF DigitsInv, SizesInv
<1>3. /\ Base' = Base /\ Mag' = Mag /\ (Least64' <=> Least64)
      /\ (Negative' <=> Negative) /\ (Precise' <=> Precise)
  BY <1>1, Given
<1>4. CASE v6 = << >>
  <2>1. SizesInv'
    BY <1>1, <1>2, <1>3, <1>4 DEF SizesInv
  <2>2. ASSUME ~Least64
        PROVE  ExactInv'
    <3>1. ExactInv /\ FoundInv
      BY <2>2 DEF DigitsInv, ExactInv
    <3>2. D!Unsigned' = D!Unsigned /\ Rest' = Rest
      BY <1>1, <1>4 DEF D!Unsigned, Rest
    <3>3. Rest = 0
      <4>1. Len(<< >>) = 0
        OBVIOUS
      <4> QED
        BY <1>1, <1>4, <3>1, <4>1 DEF FoundInv, Rest
    <3>4. ~Precise => LeadInv(Rest + Len(D!Unsigned))'
      BY <1>1, <1>3, <3>1, <3>2 DEF FoundInv, LeadInv
    <3>5. FoundInv'
      BY <1>1, <1>3, <1>4, <3>1, <3>2, <3>4 DEF FoundInv
    <3> QED
      BY <1>1, <1>3, <1>4, <3>1, <3>2, <3>3, <3>5 DEF ExactInv
  <2> QED
    BY <1>3, <2>1, <2>2 DEF DigitsInv
<1>5. CASE v6 # << >>
  <2>1. /\ n \in Nat \ {0} /\ D!Last(v6) = v6[n] /\ v6[n] \in Int
        /\ D!Front(v6) = SubSeq(v6, 1, n - 1)
    BY <1>2, <1>5 DEF D!Last, D!Front
  <2>2. /\ v6' \in Seq(Int) /\ Len(v6') = n - 1 /\ n - 1 \in Nat
        /\ \A i \in 1 .. n - 1 : v6'[i] = v6[i]
    <3>1. /\ SubSeq(v6, 1, n - 1) \in Seq(Int)
          /\ Len(SubSeq(v6, 1, n - 1)) = n - 1 /\ n - 1 \in Nat
          /\ \A i \in 1 .. n - 1 : SubSeq(v6, 1, n - 1)[i] = v6[i]
      BY <1>2, <1>5, FrontOf
    <3>2. v6' = SubSeq(v6, 1, n - 1)
      BY <1>1, <1>5, <2>1
    <3> HIDE DEF n
    <3> QED
      BY <3>1, <3>2
  <2> DEFINE d == v6[n]
  <2>3. v7' = Append(v7, d) /\ v7' \in Seq(Int) /\ v8' = "write"
    <3>1. v7' = Append(v7, d) /\ v8' = "write" /\ d \in Int
      BY <1>1, <1>5, <2>1
    <3> HIDE DEF d
    <3> QED
      BY <1>2, <3>1
  <2> HIDE DEF d, n
  <2>4. SizesInv'
    <3>1. Len(v6) <= IF v1 = "hex" THEN D!HEXSZ ELSE DECSZ
      BY <1>2 DEF SizesInv
    <3>2. D!HEXSZ \in Nat /\ DECSZ \in Nat
      BY HexFits, DigitsAssumption DEF D!WidthAssumption
    <3>3. Len(v6') <= IF v1' = "hex" THEN D!HEXSZ ELSE DECSZ
      BY <1>1, <2>1, <2>2, <3>1, <3>2 DEF n
    <3> QED
      BY <1>1, <1>2, <1>3, <2>2, <2>3, <3>3 DEF SizesInv
  <2>5. ASSUME ~Least64
        PROVE  ExactInv'
    <3>1. ExactInv /\ FoundInv
      BY <2>5 DEF DigitsInv, ExactInv
    <3>2. v1 # "bin"
      BY <1>5, <3>1 DEF FoundInv
    <3>3. Rest = n /\ Rest' = n - 1 /\ Rest' = Rest - 1 /\ Rest # 0
      BY <1>1, <2>1, <2>2, <3>2 DEF Rest, n
    <3>4. d = Quot(Base, Mag, Rest - 1) % Base
      <4>1. n \in 1 .. Len(v6)
        BY <2>1 DEF n
      <4> QED
        BY <3>1, <3>3, <4>1 DEF FoundInv, d
    <3>5. /\ (Negative' <=> v7' # << >> /\ v7'[1] = D!Minus)
          /\ D!Unsigned' \in Seq(0 .. Base' - 1)
          /\ Numeral(Base, Mag, Rest, D!Unsigned)'
          /\ Rest' + Len(D!Unsigned') = Rest + Len(D!Unsigned)
      BY <1>1, <2>3, <2>5, <3>3, <3>4, WrittenDigit
    <3>6. \A i \in 1 .. Len(v6') : v6'[i] = Quot(Base, Mag, i - 1) % Base
      <4>1. \A i \in 1 .. n - 1 : i \in 1 .. n
        BY <2>1
      <4> QED
        BY <2>2, <3>1, <4>1 DEF FoundInv, n
    <3>7. ~Precise => LeadInv(Rest + Len(D!Unsigned))'
      BY <1>1, <1>3, <2>3, <3>1, <3>5 DEF FoundInv, LeadInv
    <3>8. FoundInv'
      BY <1>1, <1>3, <2>3, <3>1, <3>2, <3>5, <3>6, <3>7 DEF FoundInv
    <3> QED
      BY <2>3, <3>5, <3>8 DEF ExactInv
  <2> QED
    BY <1>3, <2>4, <2>5 DEF DigitsInv
<1> QED
  BY <1>4, <1>5

\* 0 has a numeral of its own.
LEMMA ZeroStep ==
  ASSUME DigitsInv, D!Zero
  PROVE  DigitsInv'
<1>1. /\ v1 \in {"idec", "udec"} /\ v8 = "digits" /\ v2 = 0 /\ v7' = <<0>> /\ v8' = "done"
      /\ v1' = v1 /\ v2' = v2 /\ v3' = v3 /\ v4' = v4 /\ v5' = v5 /\ v6' = v6
  BY DEF D!Zero, D!given
<1>2. SizesInv
  BY DEF DigitsInv
<1>3. Base = 10 /\ Mag = 0 /\ Mag \in Nat
  BY <1>1, <1>2, Magnitude
<1>4. /\ Base' = Base /\ Mag' = Mag /\ (Least64' <=> Least64)
      /\ (Negative' <=> Negative) /\ (Precise' <=> Precise)
  BY <1>1, Given
<1>5. ~Least64 /\ ~Negative /\ ~Precise
  <2>1. D!MIN # 0
    <3>1. WIDTH - 1 \in Nat /\ 2 \in Nat \ {0}
      BY DigitsAssumption DEF D!WidthAssumption
    <3>2. D!Power(2, WIDTH - 1) \in Nat \ {0}
      BY <3>1, PowerPositive
    <3> QED
      BY <3>2 DEF D!MIN
  <2> QED
    BY <1>1, <2>1 DEF Least64, Negative, Precise
<1>6. ExactInv /\ FoundInv /\ D!Unsigned = << >>
  BY <1>1, <1>5 DEF DigitsInv, ExactInv, FoundInv
<1>7. \A k \in Nat : Quot(Base, Mag, k) = 0
  BY <1>3, DigitsKnown
<1>8. Len(v6) = 0 /\ Rest = 0 /\ Rest' = 0 /\ 1 .. Len(v6') = {}
  <2>1. Rest = Len(v6) /\ Len(v6) \in Nat /\ Rest' = Len(v6)
    BY <1>1, DigitsKnown DEF Rest
  <2>2. Rest + Len(D!Unsigned) = Len(v6)
    BY <1>6, <2>1
  <2>3. LeadInv(Len(v6))
    BY <1>5, <1>6, <2>2 DEF FoundInv
  <2>4. Len(v6) >= 1 => Len(v6) - 1 \in Nat /\ Quot(Base, Mag, Len(v6) - 1) # 0
    BY <1>1, <2>1, <2>3 DEF LeadInv
  <2>5. Len(v6) = 0
    BY <1>7, <2>1, <2>4
  <2> QED
    BY <1>1, <2>1, <2>5
<1>9. v7' \in Seq(Int) /\ v7'[1] # D!Minus /\ D!Unsigned' = <<0>> /\ Len(<<0>>) = 1
  BY <1>1 DEF D!Unsigned, D!Minus
<1>10. /\ <<0>> \in Seq(0 .. Base - 1)
       /\ Numeral(Base, Mag, 0, <<0>>)
  <2>1. Numeral(10, 0, 1, << >>) /\ << >> \in Seq(0 .. 10 - 1)
    <3>1. 10 \in Nat \ {0} /\ 0 \in Nat /\ 1 \in Nat
      OBVIOUS
    <3> QED
      BY <3>1, NumeralEmpty
  <2>2. 1 \in Nat \ {0} /\ 10 \in Nat \ {0} /\ 0 \in Nat /\ 1 - 1 = 0 /\ 0 % 10 = 0
    OBVIOUS
  <2>3. 0 = Quot(10, 0, 1 - 1) % 10
    BY <1>3, <1>7, <2>2
  <2>4. Append(<< >>, 0) \in Seq(0 .. 10 - 1) /\ Numeral(10, 0, 1 - 1, Append(<< >>, 0))
    BY <2>1, <2>2, <2>3, NumeralGrows
  <2>5. Append(<< >>, 0) = <<0>>
    OBVIOUS
  <2> QED
    BY <1>3, <2>2, <2>4, <2>5
<1>11. SizesInv'
  BY <1>1, <1>2, <1>4, <1>9 DEF SizesInv
<1>12. LeadInv(Rest + Len(D!Unsigned))'
  <2>1. Rest' + Len(D!Unsigned') = 1
    BY <1>8, <1>9
  <2>2. Quot(Base, Mag, 1) = 0
    BY <1>7
  <2> QED
    BY <1>1, <1>4, <2>1, <2>2 DEF LeadInv
<1>13. FoundInv'
  BY <1>1, <1>4, <1>5, <1>8, <1>12 DEF FoundInv
<1>14. ExactInv'
  BY <1>1, <1>4, <1>5, <1>8, <1>9, <1>10, <1>13 DEF ExactInv
<1> QED
  BY <1>11, <1>14 DEF DigitsInv

\* Every step of a conversion keeps the invariant.
LEMMA DigitsNext ==
  ASSUME DigitsInv, D!Next
  PROVE  DigitsInv'
  BY DecimalStep, HexStep, BinStep, EndStep, WriteStep, ZeroStep DEF D!Next

\* The elements of a sequence
LEMMA Members ==
  ASSUME NEW S, NEW s \in Seq(S), Len(s) >= 1
  PROVE  s # << >> /\ \A i \in 1 .. Len(s) : s[i] \in S
  OBVIOUS

\* The invariant is of the variables of the pool.
LEMMA DigitsStutters ==
  ASSUME DigitsInv, UNCHANGED pool
  PROVE  DigitsInv'
<1>1. /\ v1' = v1 /\ v2' = v2 /\ v3' = v3 /\ v4' = v4
      /\ v5' = v5 /\ v6' = v6 /\ v7' = v7 /\ v8' = v8
  BY DEF pool
<1>2. /\ Base' = Base /\ Mag' = Mag /\ (Least64' <=> Least64)
      /\ (Negative' <=> Negative) /\ (Precise' <=> Precise)
  BY <1>1, Given
<1>3. Rest' = Rest /\ D!Unsigned' = D!Unsigned
  BY <1>1 DEF Rest, D!Unsigned
<1>4. SizesInv' <=> SizesInv
  BY <1>1, <1>2 DEF SizesInv
<1>5. LeadInv(Rest + Len(D!Unsigned))' <=> LeadInv(Rest + Len(D!Unsigned))
  BY <1>1, <1>2, <1>3 DEF LeadInv
<1>6. FoundInv' <=> FoundInv
  BY <1>1, <1>2, <1>3, <1>5 DEF FoundInv
<1>7. ExactInv' <=> ExactInv
  BY <1>1, <1>2, <1>3, <1>6 DEF ExactInv
<1> QED
  BY <1>2, <1>4, <1>7 DEF DigitsInv

\* Nothing is left: what is written is the numeral.
LEMMA DigitsThen ==
  ASSUME DigitsInv
  PROVE  D!NumeralExact
<1> DEFINE u == D!Unsigned
           n == Len(u)
           h == D!ValueOf(u, Base)
<1>1. SizesInv
  BY DEF DigitsInv
<1>2. Len(v6) <= IF v1 = "hex" THEN D!HEXSZ ELSE DECSZ
  BY <1>1 DEF SizesInv
<1>3. Base \in Nat \ {0} /\ Mag \in Nat /\ (v1 # "idec" => Mag = v2) /\ v2 \in Int
  BY <1>1, Magnitude
<1>4. /\ v1 \in {"idec", "udec", "hex", "bin"}
      /\ v1 = "hex" => Base = 16 /\ ~Least64
      /\ v1 = "bin" => Base = 2 /\ ~Least64
      /\ v1 \in {"idec", "udec"} => Base = 10
  BY <1>1, Magnitude DEF SizesInv
<1>6. ASSUME v8 = "done", ~Least64
      PROVE  /\ u \in Seq(0 .. Base - 1) /\ n \in Nat
             /\ Precise => n = v3 /\ h = Mag % D!Power(Base, n)
             /\ ~Precise => h = Mag /\ D!Canonical(u, Base)
             /\ (Negative <=> u # v7)
  <2>1. ExactInv /\ FoundInv /\ Rest = 0
    BY <1>6 DEF DigitsInv, ExactInv
  <2>2. u \in Seq(0 .. Base - 1) /\ n \in Nat
    BY <2>1, LenProperties DEF ExactInv
  <2>3. Rest + n = n
    BY <2>1, <2>2
  <2> DEFINE p == D!Power(Base, n)
             q == Quot(Base, Mag, n)
  <2>4. /\ h = Quot(Base, Mag, 0) - p * q /\ h < p
        /\ u # << >> => u[1] = Quot(Base, Mag, n - 1) % Base
    BY <2>1, <2>3 DEF ExactInv, Numeral
  <2>5. Quot(Base, Mag, 0) = Mag /\ q \in Nat /\ p \in Nat \ {0}
    BY <1>3, <2>2, QuotOf, PowerPositive
  <2>6. h \in Nat
    <3>1. u \in Seq(Nat) /\ Base \in Nat /\ 0 \in Nat
      <4>1. 0 .. Base - 1 \subseteq Nat
        BY <1>3
      <4> QED
        BY <1>3, <2>2, <4>1
    <3> HIDE DEF u
    <3> QED
      BY <3>1, ValueOfDigits
  <2> HIDE DEF h, p, q
  <2>7. h = Mag % p
    <3>1. Mag = p * q + h
      <4>1. p * q \in Nat
        BY <2>5, SMT
      <4> QED
        BY <1>3, <2>4, <2>5, <2>6, <4>1
    <3>2. \A d \in Nat \ {0}, k \in Nat, z \in Nat : z < d => (d * k + z) % d = z
      BY SMT
    <3> QED
      BY <2>4, <2>5, <2>6, <3>1, <3>2
  <2>8. Precise => n = v3
    BY <1>6, <2>1, <2>3 DEF FoundInv
  <2>9. ASSUME ~Precise
        PROVE  h = Mag /\ D!Canonical(u, Base)
    <3>1. n >= 1 /\ q = 0 /\ (n >= 2 => Quot(Base, Mag, n - 1) # 0)
      <4>1. LeadInv(n)
        BY <2>1, <2>3, <2>9 DEF FoundInv
      <4> QED
        BY <1>6, <4>1 DEF LeadInv, q
    <3>2. h = Mag
      <4>1. p * q = 0
        BY <2>5, <3>1
      <4> QED
        BY <1>3, <2>4, <2>5, <4>1
    <3>3. u # << >> /\ \A i \in 1 .. n : u[i] \in 0 .. Base - 1
      <4> HIDE DEF u
      <4> QED
        BY <2>2, <3>1, Members DEF n
    <3>4. n > 1 => u[1] # 0
      <4> SUFFICES ASSUME n > 1 PROVE u[1] # 0
        OBVIOUS
      <4> DEFINE x == Quot(Base, Mag, n - 1)
      <4>1. n - 1 \in Nat /\ (n - 1) + 1 = n /\ n >= 2
        BY <2>2, <3>1
      <4>2. x \in Nat /\ x # 0 /\ q = x \div Base
        <5>1. /\ Quot(Base, Mag, n - 1) \in Nat
              /\ Quot(Base, Mag, (n - 1) + 1) = Quot(Base, Mag, n - 1) \div Base
          BY <1>3, <4>1, QuotOf
        <5> QED
          BY <3>1, <4>1, <5>1 DEF q
      <4> HIDE DEF x
      <4>3. x % Base = x
        BY <1>3, <3>1, <4>2, SMT
      <4> QED
        BY <2>4, <3>3, <4>2, <4>3 DEF x
    <3> QED
      BY <3>2, <3>3, <3>4 DEF D!Canonical
  <2>10. Negative <=> u # v7
    <3>1. Negative <=> v7 # << >> /\ v7[1] = D!Minus
      BY <2>1 DEF ExactInv
    <3>2. v7 \in Seq(Int)
      BY <1>1 DEF SizesInv
    <3>3. v7 # << >> => Tail(v7) # v7
      <4>1. v7 # << >> => Len(Tail(v7)) = Len(v7) - 1 /\ Len(v7) \in Nat
        BY <3>2
      <4> QED
        BY <4>1
    <3> QED
      BY <3>1, <3>3 DEF D!Unsigned
  <2> QED
    BY <2>2, <2>7, <2>8, <2>9, <2>10 DEF p
<1> HIDE DEF u, n, h
<1>7. v8 = "done" /\ v1 \in {"idec", "udec"} /\ v2 # D!MIN =>
        /\ D!Canonical(u, 10)
        /\ v2 = (IF u = v7 THEN 1 ELSE -1) * D!ValueOf(u, 10)
  <2> SUFFICES ASSUME v8 = "done", v1 \in {"idec", "udec"}, v2 # D!MIN
               PROVE  /\ D!Canonical(u, 10)
                      /\ v2 = (IF u = v7 THEN 1 ELSE -1) * D!ValueOf(u, 10)
    OBVIOUS
  <2>1. ~Least64 /\ ~Precise /\ Base = 10
    BY <1>4 DEF Least64, Precise
  <2>2. h = Mag /\ D!Canonical(u, 10) /\ (Negative <=> u # v7)
    BY <1>6, <2>1
  <2>3. D!ValueOf(u, 10) = Mag
    BY <2>1, <2>2 DEF h
  <2>4. Mag = IF u # v7 THEN -v2 ELSE v2
    BY <2>2 DEF Mag
  <2>5. v2 = (IF u = v7 THEN 1 ELSE -1) * Mag
    <3>1. u = v7 => v2 = 1 * Mag
      BY <1>3, <2>4
    <3>2. u # v7 => v2 = (-1) * Mag
      BY <1>3, <2>4
    <3> QED
      BY <3>1, <3>2
  <2> QED
    BY <2>2, <2>3, <2>5
<1>8. v1 \in {"hex", "bin"} /\ v8 = "done" => u = v7 /\ Mag = v2
  BY <1>3, <1>4, <1>6 DEF Negative
<1>9. v8 = "done" /\ v1 = "hex" /\ v3 \in 1 .. D!HEXSZ =>
        Len(v7) = v3 /\ D!ValueOf(v7, 16) = v2 % D!Power(16, v3)
  BY <1>4, <1>6, <1>8 DEF Precise, n, h
<1>10. v8 = "done" /\ v1 = "hex" /\ v3 \notin 1 .. D!HEXSZ =>
        D!Canonical(v7, 16) /\ D!ValueOf(v7, 16) = v2
  BY <1>4, <1>6, <1>8 DEF Precise, n, h
<1>11. v8 = "done" /\ v1 = "bin" => Len(v7) = v3 /\ D!ValueOf(v7, 2) = v2 % D!Power(2, v3)
  BY <1>4, <1>6, <1>8 DEF Precise, n, h
<1> QED
  BY <1>2, <1>4, <1>7, <1>9, <1>10, <1>11 DEF D!NumeralExact, u

-----------------------------------------------------------------------------
(* Sequences joined *)

\* The first n sequences of ss, joined
Upto(ss, n) ==
    LET joined[i \in 0 .. Len(ss)] == IF i = 0 THEN << >> ELSE joined[i - 1] \o ss[i]
    IN  joined[n]

LEMMA UptoOf ==
  ASSUME NEW S, NEW ss, Len(ss) \in Nat, \A n \in 1 .. Len(ss) : ss[n] \in Seq(S)
  PROVE  /\ Upto(ss, 0) = << >>
         /\ \A n \in 0 .. Len(ss) : Upto(ss, n) \in Seq(S)
         /\ \A n \in Nat : n < Len(ss) => Upto(ss, n + 1) = Upto(ss, n) \o ss[n + 1]
<1> DEFINE L == Len(ss)
           V == Seq(S)
           e(n) == IF n + 1 \in 1 .. L THEN ss[n + 1] ELSE << >>
           f == [n \in Nat |-> [x \in V |-> x \o e(n)]]
           Def(h) == h = [i \in 0 .. L |-> IF i = 0 THEN << >> ELSE h[i - 1] \o ss[i]]
           joined == CHOOSE h : Def(h)
<1>1. /\ \A n \in Nat : e(n) \in V
      /\ \A n \in Nat : n < L => e(n) = ss[n + 1]
      /\ << >> \in V
  <2>1. << >> \in V
    BY EmptySeq
  <2>2. ASSUME NEW n \in Nat PROVE e(n) \in V
    <3> HIDE DEF V
    <3>1. CASE n + 1 \in 1 .. L
      BY <3>1 DEF V
    <3>2. CASE n + 1 \notin 1 .. L
      BY <2>1, <3>2
    <3> QED
      BY <3>1, <3>2
  <2>3. ASSUME NEW n \in Nat, n < L PROVE e(n) = ss[n + 1]
    <3>1. n + 1 \in 1 .. L
      BY <2>3
    <3> QED
      BY <3>1
  <2> QED
    BY <2>1, <2>2, <2>3
<1> HIDE DEF e
<1>2. f \in [Nat -> [V -> V]]
  <2>1. ASSUME NEW n \in Nat, NEW x \in V
        PROVE  x \o e(n) \in V
    <3>1. e(n) \in Seq(S)
      BY <1>1
    <3> QED
      BY <3>1, ConcatProperties
  <2> HIDE DEF V
  <2> QED
    BY <2>1
<1>3. \A n \in Nat, x \in V : f[n][x] = x \o e(n)
  <2> HIDE DEF V
  <2> QED
    OBVIOUS
<1> HIDE DEF f, V
<1>4. PICK r \in [Nat -> V] : r[0] = << >> /\ \A n \in Nat : r[n + 1] = f[n][r[n]]
  <2>1. Recursive(V, << >>, f) # {}
    BY <1>1, <1>2, Recursion
  <2> QED
    BY <2>1 DEF Recursive
<1> DEFINE g == [n \in 0 .. L |-> r[n]]
<1>5. g \in [0 .. L -> V] /\ g[0] = << >>
  <2>1. \A n \in 0 .. L : n \in Nat /\ r[n] \in V
    BY <1>4
  <2>2. 0 \in 0 .. L
    OBVIOUS
  <2> QED
    BY <1>4, <2>1, <2>2
<1>6. ASSUME NEW n \in Nat, n < L
      PROVE  g[n + 1] = g[n] \o ss[n + 1]
  <2>1. n \in 0 .. L /\ n + 1 \in 0 .. L
    BY <1>6
  <2>2. r[n] \in V /\ r[n + 1] = f[n][r[n]]
    BY <1>4
  <2>3. r[n + 1] = r[n] \o e(n) /\ e(n) = ss[n + 1]
    BY <1>1, <1>3, <1>6, <2>2
  <2> QED
    BY <2>1, <2>3
<1>7. ASSUME NEW n \in 0 .. L
      PROVE  g[n] = IF n = 0 THEN << >> ELSE g[n - 1] \o ss[n]
  <2>1. CASE n # 0
    <3>1. n - 1 \in Nat /\ n - 1 < L /\ (n - 1) + 1 = n
      BY <2>1
    <3>2. g[(n - 1) + 1] = g[n - 1] \o ss[(n - 1) + 1]
      BY <1>6, <3>1
    <3> HIDE DEF g
    <3> QED
      BY <2>1, <3>1, <3>2
  <2> QED
    BY <1>5, <2>1
<1>8. g = [n \in 0 .. L |-> g[n]]
  OBVIOUS
<1> HIDE DEF g
<1>9. Def(g)
  BY <1>7, <1>8
<1>10. Def(joined)
  BY <1>9
<1>11. \A n : Upto(ss, n) = joined[n]
  BY DEF Upto
<1> HIDE DEF joined
<1>12. \A n \in 0 .. L : joined[n] = IF n = 0 THEN << >> ELSE joined[n - 1] \o ss[n]
  BY <1>10
<1>13. joined[0] = << >>
  BY <1>12
<1>14. ASSUME NEW n \in Nat, n < L
       PROVE  joined[n + 1] = joined[n] \o ss[n + 1]
  <2>1. n + 1 \in 0 .. L /\ n + 1 # 0 /\ (n + 1) - 1 = n
    BY <1>14
  <2> QED
    BY <1>12, <2>1
<1>15. \A n \in 0 .. L : joined[n] = g[n]
  <2> DEFINE Ns == {n \in Nat : n <= L => joined[n] = g[n]}
  <2>1. 0 \in Ns
    BY <1>5, <1>13
  <2>2. ASSUME NEW n \in Nat, n \in Ns
        PROVE  n + 1 \in Ns
    <3> SUFFICES ASSUME n + 1 <= L PROVE joined[n + 1] = g[n + 1]
      OBVIOUS
    <3>1. n < L /\ n <= L
      BY <2>2
    <3>2. joined[n] = g[n]
      BY <2>2, <3>1
    <3> QED
      BY <1>6, <1>14, <3>1, <3>2
  <2> HIDE DEF Ns
  <2>3. \A n \in Nat : n \in Ns
    BY <2>1, <2>2, Inductive
  <2> QED
    BY <2>3 DEF Ns
<1>16. \A n \in 0 .. L : joined[n] \in Seq(S)
  BY <1>5, <1>15 DEF V
<1> QED
  BY <1>11, <1>13, <1>14, <1>16

\* All of them are what FlattenSeq gives.
LEMMA FlattenIs ==
  ASSUME NEW S, NEW L \in Nat, NEW ss, ss = [n \in 1 .. L |-> ss[n]],
         \A n \in 1 .. L : ss[n] \in Seq(S)
  PROVE  Len(ss) = L /\ F!FlattenSeq(ss) = Upto(ss, L)
<1>1. Len(ss) = L /\ ss \in Seq(Seq(S))
  OBVIOUS
<1>2. /\ Upto(ss, 0) = << >>
      /\ \A n \in Nat : n < L => Upto(ss, n + 1) = Upto(ss, n) \o ss[n + 1]
      /\ \A n \in 0 .. L : Upto(ss, n) \in Seq(S)
  BY <1>1, UptoOf
<1>3. CASE L = 0
  BY <1>1, <1>2, <1>3 DEF F!FlattenSeq
<1>4. CASE L # 0
  <2> DEFINE Def(h) == h = [i \in 1 .. L |-> IF i = 1 THEN ss[i] ELSE h[i - 1] \o ss[i]]
             flatten == CHOOSE h : Def(h)
             g == [i \in 1 .. L |-> Upto(ss, i)]
  <2>1. F!FlattenSeq(ss) = flatten[L]
    BY <1>1, <1>4 DEF F!FlattenSeq
  <2>2. ASSUME NEW i \in 1 .. L
        PROVE  g[i] = IF i = 1 THEN ss[i] ELSE g[i - 1] \o ss[i]
    <3>1. i - 1 \in Nat /\ i - 1 < L /\ (i - 1) + 1 = i
      OBVIOUS
    <3>2. Upto(ss, i) = Upto(ss, i - 1) \o ss[i]
      BY <1>2, <3>1
    <3>3. CASE i = 1
      <4>1. Upto(ss, i - 1) = << >> /\ ss[i] \in Seq(S)
        BY <1>2, <3>3
      <4> QED
        BY <3>2, <3>3, <4>1, ConcatEmptySeq
    <3>4. CASE i # 1
      <4>1. i - 1 \in 1 .. L
        BY <3>4
      <4> QED
        BY <3>2, <3>4, <4>1
    <3> QED
      BY <3>3, <3>4
  <2>3. g = [i \in 1 .. L |-> g[i]]
    OBVIOUS
  <2>4. \A i \in 1 .. L : g[i] = Upto(ss, i)
    OBVIOUS
  <2> HIDE DEF g
  <2>5. Def(flatten)
    BY <2>2, <2>3
  <2> HIDE DEF flatten
  <2>6. \A i \in 1 .. L : flatten[i] = IF i = 1 THEN ss[i] ELSE flatten[i - 1] \o ss[i]
    BY <2>5
  <2> DEFINE Ns == {n \in Nat : n + 1 <= L => flatten[n + 1] = g[n + 1]}
  <2>7. 0 \in Ns
    <3>1. 0 + 1 \in 1 .. L /\ 0 + 1 = 1
      BY <1>4
    <3> QED
      BY <2>2, <2>6, <3>1
  <2>8. ASSUME NEW n \in Nat, n \in Ns
        PROVE  n + 1 \in Ns
    <3> SUFFICES ASSUME (n + 1) + 1 <= L PROVE flatten[(n + 1) + 1] = g[(n + 1) + 1]
      OBVIOUS
    <3>1. n + 1 <= L /\ (n + 1) + 1 \in 1 .. L /\ (n + 1) + 1 # 1 /\ ((n + 1) + 1) - 1 = n + 1
      OBVIOUS
    <3>2. flatten[n + 1] = g[n + 1]
      BY <2>8, <3>1
    <3> QED
      BY <2>2, <2>6, <3>1, <3>2
  <2> HIDE DEF Ns
  <2>9. \A n \in Nat : n \in Ns
    BY <2>7, <2>8, Inductive
  <2>10. L - 1 \in Nat /\ (L - 1) + 1 = L /\ L \in 1 .. L
    BY <1>4
  <2>11. L - 1 \in Ns
    BY <2>9, <2>10
  <2>12. flatten[L] = g[L]
    BY <2>10, <2>11 DEF Ns
  <2> QED
    BY <1>1, <2>1, <2>4, <2>10, <2>12
<1> QED
  BY <1>1, <1>3, <1>4

\* An element of the next sequence has its place, and the next one ends behind it.
Placed(ss, n, x, all) ==
    /\ Len(Upto(ss, n)) \in Nat /\ Len(x) \in Nat /\ Len(Upto(ss, n + 1)) = Len(Upto(ss, n)) + Len(x)
    /\ Len(Upto(ss, n + 1)) <= Len(all) /\ Len(all) \in Nat
    /\ \A i \in 1 .. Len(x) : all[Len(Upto(ss, n)) + i] = x[i]

LEMMA PlacesOf ==
  ASSUME NEW S, NEW L \in Nat, NEW ss, Len(ss) = L, \A n \in 1 .. L : ss[n] \in Seq(S),
         NEW n \in Nat, n < L
  PROVE  Placed(ss, n, ss[n + 1], Upto(ss, L))
<1> DEFINE u(m) == Upto(ss, m)
           x == ss[n + 1]
           l(m) == Len(Upto(ss, m))
<1>1. /\ \A m \in 0 .. L : u(m) \in Seq(S) /\ l(m) \in Nat
      /\ \A m \in Nat : m < L => u(m + 1) = u(m) \o ss[m + 1]
  BY UptoOf, LenProperties
<1>2. x \in Seq(S) /\ Len(x) \in Nat /\ n \in 0 .. L /\ n + 1 \in 0 .. L /\ L \in 0 .. L
  <2>1. n + 1 \in 1 .. L
    OBVIOUS
  <2> QED
    BY <2>1, LenProperties
<1>3. /\ l(n + 1) = l(n) + Len(x)
      /\ \A i \in 1 .. Len(x) : u(n + 1)[l(n) + i] = x[i]
  <2>1. u(n) \in Seq(S) /\ x \in Seq(S) /\ u(n + 1) = u(n) \o x
    BY <1>1, <1>2
  <2> HIDE DEF u, x
  <2>2. /\ Len(u(n + 1)) = Len(u(n)) + Len(x)
        /\ \A i \in 1 .. Len(u(n)) + Len(x) :
              u(n + 1)[i] = IF i <= Len(u(n)) THEN u(n)[i] ELSE x[i - Len(u(n))]
    BY <2>1, ConcatProperties
  <2>3. ASSUME NEW i \in 1 .. Len(x)
        PROVE  /\ Len(u(n)) + i \in 1 .. Len(u(n)) + Len(x)
               /\ ~(Len(u(n)) + i <= Len(u(n)))
               /\ (Len(u(n)) + i) - Len(u(n)) = i
    <3> Len(u(n)) \in Nat /\ Len(x) \in Nat
      BY <2>1, LenProperties
    <3> QED
      OBVIOUS
  <2> QED
    BY <2>2, <2>3 DEF u
<1> DEFINE Ns == {m \in Nat : (n + 1) + m <= L =>
                    /\ l(n + 1) <= l((n + 1) + m)
                    /\ \A i \in 1 .. l(n + 1) : u((n + 1) + m)[i] = u(n + 1)[i]}
<1>4. 0 \in Ns
  <2>1. (n + 1) + 0 = n + 1 /\ l(n + 1) \in Nat
    BY <1>1, <1>2
  <2> QED
    BY <2>1
<1>5. ASSUME NEW m \in Nat, m \in Ns
      PROVE  m + 1 \in Ns
  <2> DEFINE k == (n + 1) + m
  <2>1. (n + 1) + (m + 1) = k + 1 /\ k \in Nat
    OBVIOUS
  <2>2. ASSUME k + 1 <= L
        PROVE  /\ l(n + 1) <= l(k + 1)
               /\ \A i \in 1 .. l(n + 1) : u(k + 1)[i] = u(n + 1)[i]
    <3>1. k < L /\ k <= L /\ k \in 0 .. L /\ k + 1 \in 1 .. L
      BY <2>1, <2>2
    <3>2. l(n + 1) <= l(k) /\ \A i \in 1 .. l(n + 1) : u(k)[i] = u(n + 1)[i]
      BY <1>5, <3>1
    <3>3. u(k) \in Seq(S) /\ ss[k + 1] \in Seq(S) /\ u(k + 1) = u(k) \o ss[k + 1]
      BY <1>1, <2>1, <3>1
    <3> HIDE DEF u, k
    <3>4. /\ Len(u(k + 1)) = Len(u(k)) + Len(ss[k + 1]) /\ Len(u(k)) \in Nat
          /\ Len(ss[k + 1]) \in Nat
          /\ \A i \in 1 .. Len(u(k)) + Len(ss[k + 1]) :
                u(k + 1)[i] = IF i <= Len(u(k)) THEN u(k)[i] ELSE ss[k + 1][i - Len(u(k))]
      BY <3>3, ConcatProperties, LenProperties
    <3>5. l(k) = Len(u(k)) /\ l(k + 1) = Len(u(k + 1)) /\ l(n + 1) \in Nat
      BY <1>1, <1>2 DEF u
    <3> HIDE DEF l
    <3>6. l(n + 1) <= l(k + 1)
      BY <3>2, <3>4, <3>5
    <3>7. ASSUME NEW i \in 1 .. l(n + 1)
          PROVE  u(k + 1)[i] = u(n + 1)[i]
      <4>1. i \in 1 .. Len(u(k)) + Len(ss[k + 1]) /\ i <= Len(u(k))
        BY <3>2, <3>4, <3>5
      <4> QED
        BY <3>2, <3>4, <4>1
    <3> QED
      BY <3>6, <3>7
  <2>3. m + 1 \in Nat /\ (n + 1) + (m + 1) = k + 1
    BY <2>1
  <2> HIDE DEF k, l, u
  <2> QED
    BY <2>2, <2>3
<1> HIDE DEF Ns, u, l, x
<1>6. \A m \in Nat : m \in Ns
  BY <1>4, <1>5, Inductive
<1>7. L - (n + 1) \in Ns /\ (n + 1) + (L - (n + 1)) = L /\ L - (n + 1) \in Nat
  <2>1. L - (n + 1) \in Nat /\ (n + 1) + (L - (n + 1)) = L
    OBVIOUS
  <2> QED
    BY <1>6, <2>1
<1>8. /\ l(n + 1) <= l(L)
      /\ \A i \in 1 .. l(n + 1) : u(L)[i] = u(n + 1)[i]
  <2>1. L <= L
    OBVIOUS
  <2> QED
    BY <1>7, <2>1 DEF Ns
<1>9. ASSUME NEW i \in 1 .. Len(x)
      PROVE  u(L)[l(n) + i] = x[i]
  <2>1. l(n) + i \in 1 .. l(n + 1)
    <3>1. l(n) \in Nat
      BY <1>1, <1>2
    <3> QED
      BY <1>2, <1>3, <3>1
  <2> QED
    BY <1>3, <1>8, <2>1
<1>10. l(n) \in Nat /\ l(L) \in Nat
  BY <1>1, <1>2
<1> QED
  BY <1>2, <1>3, <1>8, <1>9, <1>10 DEF u, l, x, Placed

-----------------------------------------------------------------------------
(* The arguments of printf *)

Chars(k) == [j \in 1 .. Len(k) |-> k[j].fmt]
Args(k) == [j \in 1 .. Len(k) |-> k[j].args]
Widths(k) == [j \in 1 .. Len(k) |-> k[j].bits]

\* The words of each argument
Words(a) == [x \in 1 .. Len(a) |-> [p \in 1 .. a[x] |-> F!Word(x, p)]]

\* d digits, a length and a conversion
Form(d, length, conv) ==
    /\ d \in Nat /\ length \in F!Lengths
    /\ conv \in F!Integer \union F!Single \union F!Double
    /\ conv \in F!Integer \/ length = << >>

\* i characters of a conversion are read, the first of them the "%"
ReadTo(d, length, i, lng, size) ==
    \/ i <= d + 1 /\ ~lng /\ size = 4
    \/ /\ i = d + 2 /\ length # << >>
       /\ IF length[1] = "l" THEN lng /\ size = 4 ELSE ~lng /\ size = 2
    \/ /\ i = d + 3 /\ Len(length) = 2
       /\ IF length[1] = "l" THEN lng /\ size = 8 ELSE ~lng /\ size = 1

\* i characters of piece p are read
Read(p, i, interp, lng, size) ==
    \/ i = 0 /\ ~interp /\ ~lng
    \/ i = 1 /\ interp /\ ~lng /\ p \in F!Plain
    \/ /\ i > 0 /\ interp
       /\ \E d, length, conv : /\ Form(d, length, conv) /\ p = F!Conversion(d, length, conv)
                               /\ ReadTo(d, length, i, lng, size)

\* What is left of all words behind the first u
Left(words, all, u) ==
    /\ words \in Seq(Nat \X Nat) /\ u + Len(words) = Len(all)
    /\ \A x \in 1 .. Len(words) : words[x] = all[u + x]

Took == [words : Seq(Nat \X Nat), width : Nat]

\* After n pieces of call k, and i characters of the next
FormatAt(k, n, i) ==
    /\ k \in PrintfCalls /\ n \in 0 .. Len(k) /\ i \in Nat
    /\ v1 = Upto(Chars(k), Len(k)) /\ v2 = Upto(Args(k), Len(k)) /\ v3 = Upto(Widths(k), Len(k))
    /\ v4 = Len(Upto(Chars(k), n)) + i + 1
    /\ IF n = Len(k) THEN i = 0 /\ ~v5 /\ ~v6
       ELSE i < Len(k[n + 1].fmt) /\ Read(k[n + 1], i, v5, v6, v7)
    /\ v9 \in Seq(Took) /\ Len(v9) = Len(Upto(Args(k), n))
    /\ Left(v8, F!Pushed(v2), Len(Upto(Words(v2), Len(v9))))
    /\ F!ArgumentsInStep

FormatInv == \E k, n, i : FormatAt(k, n, i)

-----------------------------------------------------------------------------
Chr == {"%", "digit", "text", "k", "l", "h"} \union F!Integer \union F!Single \union F!Double

\* st is s, of m elements, and t, of n, behind it
Behind(S, s, t, m, n, st) ==
    /\ st \in Seq(S) /\ m \in Nat /\ n \in Nat /\ Len(st) = m + n
    /\ \A x \in 1 .. m : st[x] = s[x]
    /\ \A x \in 1 .. n : st[m + x] = t[x]

LEMMA JoinedOf ==
  ASSUME NEW S, NEW s \in Seq(S), NEW t \in Seq(S), NEW m, NEW n, Len(s) = m, Len(t) = n
  PROVE  Behind(S, s, t, m, n, s \o t)
<1> DEFINE st == s \o t
<1>1. /\ st \in Seq(S) /\ m \in Nat /\ n \in Nat /\ Len(st) = m + n
      /\ \A x \in 1 .. m + n : st[x] = IF x <= m THEN s[x] ELSE t[x - m]
  BY ConcatProperties, LenProperties
<1>2. /\ \A x \in 1 .. m : x \in 1 .. m + n /\ x <= m
      /\ \A x \in 1 .. n : m + x \in 1 .. m + n /\ ~(m + x <= m) /\ (m + x) - m = x
  BY <1>1
<1> HIDE DEF st
<1>3. Behind(S, s, t, m, n, st)
  BY <1>1, <1>2 DEF Behind
<1> QED
  BY <1>3 DEF st

LEMMA OneOf ==
  ASSUME NEW S, NEW a \in S
  PROVE  <<a>> \in Seq(S) /\ Len(<<a>>) = 1 /\ <<a>>[1] = a
  OBVIOUS

LEMMA TwoOf ==
  ASSUME NEW S, NEW a \in S, NEW b \in S
  PROVE  <<a, b>> \in Seq(S) /\ Len(<<a, b>>) = 2 /\ <<a, b>>[1] = a /\ <<a, b>>[2] = b
  OBVIOUS

\* The modifiers of length, by their characters
LEMMA LengthsOf ==
  ASSUME NEW length \in F!Lengths
  PROVE  /\ length \in Seq(Chr) /\ Len(length) \in 0 .. 2
         /\ (length = << >>) <=> (Len(length) = 0)
         /\ Len(length) # 0 => length[1] \in {"l", "h"}
         /\ Len(length) = 2 => length[2] = length[1]
         /\ (length = <<"l">>) <=> (Len(length) = 1 /\ length[1] = "l")
         /\ (length = <<"h">>) <=> (Len(length) = 1 /\ length[1] = "h")
         /\ (length = <<"l", "l">>) <=> (Len(length) = 2 /\ length[1] = "l")
         /\ (length = <<"h", "h">>) <=> (Len(length) = 2 /\ length[1] = "h")
<1>1. "l" \in Chr /\ "h" \in Chr /\ "l" # "h"
  BY DEF Chr
<1>2. \/ length = << >> \/ length = <<"l">> \/ length = <<"l", "l">>
      \/ length = <<"h">> \/ length = <<"h", "h">>
  BY DEF F!Lengths
<1>3. << >> \in Seq(Chr) /\ Len(<< >>) = 0
  BY EmptySeq
<1>4. \A a \in Chr : <<a>> \in Seq(Chr) /\ Len(<<a>>) = 1 /\ <<a>>[1] = a
  BY OneOf
<1>5. \A a \in Chr : <<a, a>> \in Seq(Chr) /\ Len(<<a, a>>) = 2 /\ <<a, a>>[1] = a /\ <<a, a>>[2] = a
  BY TwoOf
<1>6. length \in Seq(Chr)
  BY <1>1, <1>2, <1>3, <1>4, <1>5
<1>7. /\ Len(length) \in {0, 1, 2}
      /\ (length = << >>) <=> (Len(length) = 0)
      /\ Len(length) # 0 => length[1] \in {"l", "h"}
      /\ Len(length) = 2 => length[2] = length[1]
  <2>1. CASE length = << >>
    BY <1>3, <2>1
  <2>2. CASE length = <<"l">> \/ length = <<"h">>
    BY <1>1, <1>3, <1>4, <2>2
  <2>3. CASE length = <<"l", "l">> \/ length = <<"h", "h">>
    BY <1>1, <1>3, <1>5, <2>3
  <2> QED
    BY <1>2, <2>1, <2>2, <2>3
<1>8. /\ (length = <<"l">>) <=> (Len(length) = 1 /\ length[1] = "l")
      /\ (length = <<"h">>) <=> (Len(length) = 1 /\ length[1] = "h")
  BY <1>1, <1>2, <1>3, <1>4, <1>5
<1>9. /\ (length = <<"l", "l">>) <=> (Len(length) = 2 /\ length[1] = "l")
      /\ (length = <<"h", "h">>) <=> (Len(length) = 2 /\ length[1] = "h")
  BY <1>1, <1>2, <1>3, <1>4, <1>5
<1>10. Len(length) \in 0 .. 2
  BY <1>7
<1> QED
  BY <1>6, <1>7, <1>8, <1>9, <1>10

\* The characters of a conversion
LEMMA ConversionOf ==
  ASSUME NEW d, NEW length, NEW conv, Form(d, length, conv), NEW p,
         p = F!Conversion(d, length, conv)
  PROVE  /\ p.fmt \in Seq(Chr) /\ Len(p.fmt) = d + Len(length) + 2
         /\ p.fmt[1] = "%" /\ \A x \in 1 .. d : p.fmt[x + 1] = "digit"
         /\ \A x \in 1 .. Len(length) : p.fmt[d + 1 + x] = length[x]
         /\ p.fmt[d + Len(length) + 2] = conv
         /\ p.args = <<IF F!Wide(length, conv) THEN 2 ELSE 1>>
         /\ p.bits = <<F!Bits(length, conv)>>
<1> DEFINE s == <<"%">>
           t == [x \in 1 .. d |-> "digit"]
           z == <<conv>>
<1>1. /\ p.fmt = s \o t \o length \o z
      /\ p.args = <<IF F!Wide(length, conv) THEN 2 ELSE 1>>
      /\ p.bits = <<F!Bits(length, conv)>>
  BY DEF F!Conversion, F!Piece
<1>2. d \in Nat /\ length \in Seq(Chr) /\ Len(length) \in Nat /\ conv \in Chr
  BY LengthsOf DEF Form, Chr
<1>3. /\ s \in Seq(Chr) /\ Len(s) = 1 /\ s[1] = "%"
      /\ z \in Seq(Chr) /\ Len(z) = 1 /\ z[1] = conv
  BY <1>2 DEF Chr
<1>4. /\ t \in Seq(Chr) /\ Len(t) = d /\ \A x \in 1 .. d : t[x] = "digit"
  <2>1. "digit" \in Chr
    BY DEF Chr
  <2> QED
    BY <1>2, <2>1
<1> HIDE DEF s, t, z
<1> DEFINE st == s \o t
           stl == st \o length
           L == Len(length)
<1>5. Behind(Chr, s, t, 1, d, st)
  BY <1>3, <1>4, JoinedOf
<1> HIDE DEF st
<1>6. Behind(Chr, st, length, 1 + d, L, stl)
  <2>1. st \in Seq(Chr) /\ Len(st) = 1 + d
    BY <1>5 DEF Behind
  <2> QED
    BY <1>2, <2>1, JoinedOf
<1> HIDE DEF stl
<1>7. Behind(Chr, stl, z, (1 + d) + L, 1, p.fmt)
  <2>1. stl \in Seq(Chr) /\ Len(stl) = (1 + d) + L
    BY <1>6 DEF Behind
  <2>2. Behind(Chr, stl, z, (1 + d) + L, 1, stl \o z)
    BY <1>3, <2>1, JoinedOf
  <2>3. p.fmt = stl \o z
    BY <1>1 DEF st, stl
  <2> QED
    BY <2>2, <2>3
<1>8. p.fmt \in Seq(Chr) /\ Len(p.fmt) = ((1 + d) + L) + 1
  BY <1>7 DEF Behind
<1> L \in Nat /\ d \in Nat
  BY <1>2
<1> HIDE DEF L
<1>9. /\ 1 \in 1 .. 1 /\ 1 \in 1 .. 1 + d /\ 1 \in 1 .. (1 + d) + L
      /\ \A x \in 1 .. d : x + 1 = 1 + x /\ 1 + x \in 1 .. 1 + d /\ 1 + x \in 1 .. (1 + d) + L
      /\ \A x \in 1 .. L : d + 1 + x = (1 + d) + x /\ (1 + d) + x \in 1 .. (1 + d) + L
      /\ ((1 + d) + L) + 1 = d + L + 2
  OBVIOUS
<1>10. p.fmt[1] = "%"
  <2>1. st[1] = s[1] /\ stl[1] = st[1] /\ p.fmt[1] = stl[1]
    BY <1>5, <1>6, <1>7, <1>9 DEF Behind
  <2> QED
    BY <1>3, <2>1
<1>11. \A x \in 1 .. d : p.fmt[x + 1] = "digit"
  <2> TAKE x \in 1 .. d
  <2>1. x + 1 = 1 + x /\ 1 + x \in 1 .. 1 + d /\ 1 + x \in 1 .. (1 + d) + L
    BY <1>9
  <2>2. st[1 + x] = t[x] /\ stl[1 + x] = st[1 + x] /\ p.fmt[1 + x] = stl[1 + x]
    BY <1>5, <1>6, <1>7, <2>1 DEF Behind
  <2> QED
    BY <1>4, <2>1, <2>2
<1>12. \A x \in 1 .. L : p.fmt[d + 1 + x] = length[x]
  <2> TAKE x \in 1 .. L
  <2>1. d + 1 + x = (1 + d) + x /\ (1 + d) + x \in 1 .. (1 + d) + L
    BY <1>9
  <2>2. stl[(1 + d) + x] = length[x] /\ p.fmt[(1 + d) + x] = stl[(1 + d) + x]
    BY <1>6, <1>7, <2>1 DEF Behind
  <2> QED
    BY <2>1, <2>2
<1>13. p.fmt[d + L + 2] = conv
  BY <1>3, <1>7, <1>9 DEF Behind
<1> QED
  BY <1>1, <1>8, <1>9, <1>10, <1>11, <1>12, <1>13 DEF L

LEMMA PlainOf ==
  ASSUME NEW p \in F!Plain
  PROVE  /\ p.fmt \in Seq(Chr) /\ p.args = << >> /\ p.bits = << >>
         /\ \/ Len(p.fmt) = 1 /\ p.fmt[1] = "text"
            \/ Len(p.fmt) = 2 /\ p.fmt[1] = "%" /\ p.fmt[2] = "%"
            \/ Len(p.fmt) = 2 /\ p.fmt[1] = "%" /\ p.fmt[2] = "k"
<1>1. PICK s \in {<<"text">>, <<"%", "%">>, <<"%", "k">>} : p = F!Piece(s, << >>, << >>)
  BY DEF F!Plain
<1>2. p.fmt = s /\ p.args = << >> /\ p.bits = << >>
  BY <1>1 DEF F!Piece
<1>3. "text" \in Chr /\ "%" \in Chr /\ "k" \in Chr
  BY DEF Chr
<1>4. \/ s = <<"text">> /\ s \in Seq(Chr) /\ Len(s) = 1 /\ s[1] = "text"
      \/ s = <<"%", "%">> /\ s \in Seq(Chr) /\ Len(s) = 2 /\ s[1] = "%" /\ s[2] = "%"
      \/ s = <<"%", "k">> /\ s \in Seq(Chr) /\ Len(s) = 2 /\ s[1] = "%" /\ s[2] = "k"
  <2>1. CASE s = <<"text">>
    <3>1. <<"text">> \in Seq(Chr) /\ Len(<<"text">>) = 1 /\ <<"text">>[1] = "text"
      BY <1>3, OneOf
    <3> QED
      BY <2>1, <3>1
  <2>2. \A a \in Chr, b \in Chr :
          <<a, b>> \in Seq(Chr) /\ Len(<<a, b>>) = 2 /\ <<a, b>>[1] = a /\ <<a, b>>[2] = b
    BY TwoOf
  <2>3. CASE s = <<"%", "%">>
    BY <1>3, <2>2, <2>3
  <2>4. CASE s = <<"%", "k">>
    BY <1>3, <2>2, <2>4
  <2> QED
    BY <1>1, <2>1, <2>3, <2>4
<1> QED
  BY <1>2, <1>4

\* What every piece of a call is
LEMMA PieceOf ==
  ASSUME NEW k \in PrintfCalls
  PROVE  /\ Len(k) \in Nat
         /\ \A j \in 1 .. Len(k) :
              /\ \/ k[j] \in F!Plain
                 \/ \E d, length, conv : Form(d, length, conv) /\ k[j] = F!Conversion(d, length, conv)
              /\ k[j].fmt \in Seq(Chr) /\ Len(k[j].fmt) \in Nat \ {0}
              /\ k[j].args \in Seq(Nat) /\ k[j].bits \in Seq(Nat)
              /\ Len(k[j].args) = Len(k[j].bits)
<1>1. Len(k) \in Nat /\ \A j \in 1 .. Len(k) : F!IsPiece(k[j])
  BY FormatAssumption, LenProperties DEF F!CallsAssumption
<1>2. ASSUME NEW j \in 1 .. Len(k)
      PROVE  \/ k[j] \in F!Plain
             \/ \E d, length, conv : Form(d, length, conv) /\ k[j] = F!Conversion(d, length, conv)
  <2>1. SUFFICES ASSUME k[j] \notin F!Plain
                 PROVE  \E d, length, conv : /\ Form(d, length, conv)
                                             /\ k[j] = F!Conversion(d, length, conv)
    OBVIOUS
  <2>2. PICK d \in 0 .. Len(k[j].fmt), conv \in F!Integer \union F!Single \union F!Double :
          \E length \in IF conv \in F!Integer THEN F!Lengths ELSE {<< >>} :
             k[j] = F!Conversion(d, length, conv)
    BY <1>1, <2>1 DEF F!IsPiece
  <2>3. PICK length \in IF conv \in F!Integer THEN F!Lengths ELSE {<< >>} :
             k[j] = F!Conversion(d, length, conv)
    BY <2>2
  <2>4. << >> \in F!Lengths /\ d \in Nat
    BY DEF F!Lengths
  <2>5. Form(d, length, conv)
    BY <2>3, <2>4 DEF Form
  <2> QED
    BY <2>3, <2>5
<1>3. ASSUME NEW j \in 1 .. Len(k)
      PROVE  /\ k[j].fmt \in Seq(Chr) /\ Len(k[j].fmt) \in Nat \ {0}
             /\ k[j].args \in Seq(Nat) /\ k[j].bits \in Seq(Nat)
             /\ Len(k[j].args) = Len(k[j].bits)
  <2>1. CASE k[j] \in F!Plain
    <3>1. << >> \in Seq(Nat)
      BY EmptySeq
    <3>2. /\ k[j].fmt \in Seq(Chr) /\ k[j].args = << >> /\ k[j].bits = << >>
          /\ Len(k[j].fmt) = 1 \/ Len(k[j].fmt) = 2
      BY <2>1, PlainOf
    <3>3. Len(k[j].fmt) \in Nat \ {0}
      <4>1. 1 \in Nat \ {0} /\ 2 \in Nat \ {0}
        OBVIOUS
      <4> QED
        BY <3>2, <4>1, Zenon
    <3> QED
      BY <3>1, <3>2, <3>3, Zenon
  <2>2. CASE \E d, length, conv : Form(d, length, conv) /\ k[j] = F!Conversion(d, length, conv)
    <3>1. PICK d, length, conv : Form(d, length, conv) /\ k[j] = F!Conversion(d, length, conv)
      BY <2>2
    <3>2. d \in Nat /\ Len(length) \in Nat
      BY <3>1, LengthsOf DEF Form
    <3>3. F!Bits(length, conv) \in Nat /\ (IF F!Wide(length, conv) THEN 2 ELSE 1) \in Nat
      BY DEF F!Bits
    <3>4. /\ k[j].fmt \in Seq(Chr) /\ Len(k[j].fmt) = d + Len(length) + 2
          /\ k[j].args = <<IF F!Wide(length, conv) THEN 2 ELSE 1>>
          /\ k[j].bits = <<F!Bits(length, conv)>>
      BY <3>1, ConversionOf
    <3>5. \A x \in Nat : <<x>> \in Seq(Nat) /\ Len(<<x>>) = 1
      OBVIOUS
    <3>6. Len(k[j].fmt) \in Nat \ {0}
      BY <3>2, <3>4
    <3> QED
      BY <3>3, <3>4, <3>5, <3>6
  <2> QED
    BY <1>2, <2>1, <2>2
<1> QED
  BY <1>1, <1>2, <1>3

-----------------------------------------------------------------------------
(* Where pieces, arguments and words are *)

LEMMA CallOf ==
  ASSUME NEW k \in PrintfCalls
  PROVE  /\ Len(k) \in Nat
         /\ Len(Chars(k)) = Len(k) /\ Len(Args(k)) = Len(k) /\ Len(Widths(k)) = Len(k)
         /\ \A j \in 1 .. Len(k) : /\ Chars(k)[j] = k[j].fmt /\ k[j].fmt \in Seq(Chr)
                                   /\ Args(k)[j] = k[j].args /\ k[j].args \in Seq(Nat)
                                   /\ Widths(k)[j] = k[j].bits /\ k[j].bits \in Seq(Nat)
         /\ F!FlattenSeq(Chars(k)) = Upto(Chars(k), Len(k))
         /\ F!FlattenSeq(Args(k)) = Upto(Args(k), Len(k))
         /\ F!FlattenSeq(Widths(k)) = Upto(Widths(k), Len(k))
<1> DEFINE L == Len(k)
<1>1. /\ L \in Nat
      /\ \A j \in 1 .. L : k[j].fmt \in Seq(Chr) /\ k[j].args \in Seq(Nat) /\ k[j].bits \in Seq(Nat)
  BY PieceOf
<1>2. \A j \in 1 .. L : Chars(k)[j] = k[j].fmt /\ Args(k)[j] = k[j].args /\ Widths(k)[j] = k[j].bits
  BY DEF Chars, Args, Widths
<1>3. /\ Chars(k) = [j \in 1 .. L |-> Chars(k)[j]] /\ Args(k) = [j \in 1 .. L |-> Args(k)[j]]
      /\ Widths(k) = [j \in 1 .. L |-> Widths(k)[j]]
  BY DEF Chars, Args, Widths
<1> HIDE DEF L
<1>4. Len(Chars(k)) = L /\ F!FlattenSeq(Chars(k)) = Upto(Chars(k), L)
  BY <1>1, <1>2, <1>3, FlattenIs
<1>5. Len(Args(k)) = L /\ F!FlattenSeq(Args(k)) = Upto(Args(k), L)
  BY <1>1, <1>2, <1>3, FlattenIs
<1>6. Len(Widths(k)) = L /\ F!FlattenSeq(Widths(k)) = Upto(Widths(k), L)
  BY <1>1, <1>2, <1>3, FlattenIs
<1> QED
  BY <1>1, <1>2, <1>4, <1>5, <1>6 DEF L

LEMMA PiecePlaces ==
  ASSUME NEW k \in PrintfCalls, NEW n \in Nat, n < Len(k)
  PROVE  /\ n + 1 \in 1 .. Len(k) /\ n + 1 \in 0 .. Len(k)
         /\ Placed(Chars(k), n, k[n + 1].fmt, Upto(Chars(k), Len(k)))
         /\ Placed(Args(k), n, k[n + 1].args, Upto(Args(k), Len(k)))
         /\ Placed(Widths(k), n, k[n + 1].bits, Upto(Widths(k), Len(k)))
<1>1. Len(k) \in Nat /\ n + 1 \in 1 .. Len(k) /\ n + 1 \in 0 .. Len(k)
  BY CallOf
<1>2. /\ \A j \in 1 .. Len(k) : Chars(k)[j] \in Seq(Chr)
      /\ \A j \in 1 .. Len(k) : Args(k)[j] \in Seq(Nat)
      /\ \A j \in 1 .. Len(k) : Widths(k)[j] \in Seq(Nat)
  BY CallOf
<1>3. Len(Chars(k)) = Len(k) /\ Len(Args(k)) = Len(k) /\ Len(Widths(k)) = Len(k)
  BY CallOf
<1>4. /\ Placed(Chars(k), n, Chars(k)[n + 1], Upto(Chars(k), Len(k)))
      /\ Placed(Args(k), n, Args(k)[n + 1], Upto(Args(k), Len(k)))
      /\ Placed(Widths(k), n, Widths(k)[n + 1], Upto(Widths(k), Len(k)))
  BY <1>1, <1>2, <1>3, PlacesOf
<1>5. Chars(k)[n + 1] = k[n + 1].fmt /\ Args(k)[n + 1] = k[n + 1].args
      /\ Widths(k)[n + 1] = k[n + 1].bits
  BY <1>1, CallOf
<1> QED
  BY <1>1, <1>4, <1>5

\* There is a width for each argument.
LEMMA WidthsMatch ==
  ASSUME NEW k \in PrintfCalls
  PROVE  \A n \in 0 .. Len(k) : /\ Len(Upto(Widths(k), n)) = Len(Upto(Args(k), n))
                                /\ Len(Upto(Args(k), n)) \in Nat
                                /\ Upto(Args(k), n) \in Seq(Nat) /\ Upto(Widths(k), n) \in Seq(Nat)
<1>1. Len(k) \in Nat
  BY CallOf
<1>2. /\ Upto(Args(k), 0) = << >> /\ Upto(Widths(k), 0) = << >>
      /\ \A n \in 0 .. Len(k) : Upto(Args(k), n) \in Seq(Nat) /\ Upto(Widths(k), n) \in Seq(Nat)
  <2>1. /\ Len(Args(k)) \in Nat /\ Len(Args(k)) = Len(k)
        /\ \A j \in 1 .. Len(Args(k)) : Args(k)[j] \in Seq(Nat)
        /\ Len(Widths(k)) \in Nat /\ Len(Widths(k)) = Len(k)
        /\ \A j \in 1 .. Len(Widths(k)) : Widths(k)[j] \in Seq(Nat)
    BY CallOf
  <2> QED
    BY <2>1, UptoOf
<1> DEFINE Ns == {n \in Nat : n <= Len(k) => Len(Upto(Widths(k), n)) = Len(Upto(Args(k), n))}
<1>3. 0 \in Ns
  BY <1>2
<1>4. ASSUME NEW n \in Nat, n \in Ns
      PROVE  n + 1 \in Ns
  <2> SUFFICES ASSUME n + 1 <= Len(k)
               PROVE  Len(Upto(Widths(k), n + 1)) = Len(Upto(Args(k), n + 1))
    OBVIOUS
  <2>1. n < Len(k) /\ n <= Len(k)
    BY <1>1
  <2>2. Len(k[n + 1].args) = Len(k[n + 1].bits)
    BY <1>1, <2>1, PieceOf
  <2> QED
    <3>1. Len(Upto(Widths(k), n)) = Len(Upto(Args(k), n))
      BY <1>4, <2>1
    <3>2. /\ Placed(Args(k), n, k[n + 1].args, Upto(Args(k), Len(k)))
          /\ Placed(Widths(k), n, k[n + 1].bits, Upto(Widths(k), Len(k)))
      BY <2>1, PiecePlaces
    <3>3. /\ Len(Upto(Args(k), n + 1)) = Len(Upto(Args(k), n)) + Len(k[n + 1].args)
          /\ Len(Upto(Widths(k), n + 1)) = Len(Upto(Widths(k), n)) + Len(k[n + 1].bits)
      BY <3>2 DEF Placed
    <3> QED
      BY <2>2, <3>1, <3>3
<1> HIDE DEF Ns
<1>5. \A n \in Nat : n \in Ns
  BY <1>3, <1>4, Inductive
<1>6. \A n \in 0 .. Len(k) : Len(Upto(Widths(k), n)) = Len(Upto(Args(k), n))
  BY <1>1, <1>5 DEF Ns
<1> QED
  BY <1>2, <1>6, LenProperties

\* The words of argument x + 1 are pushed behind those of the arguments before it.
LEMMA WordsPlaced ==
  ASSUME NEW a \in Seq(Nat), NEW x \in Nat, x < Len(a)
  PROVE  /\ Len(Upto(Words(a), x)) \in Nat
         /\ Len(Upto(Words(a), x + 1)) = Len(Upto(Words(a), x)) + a[x + 1]
         /\ Len(Upto(Words(a), x + 1)) <= Len(F!Pushed(a)) /\ Len(F!Pushed(a)) \in Nat
         /\ \A p \in 1 .. a[x + 1] : F!Pushed(a)[Len(Upto(Words(a), x)) + p] = F!Word(x + 1, p)
<1> DEFINE W == Words(a)
           L == Len(a)
           S == Nat \X Nat
<1>1. L \in Nat /\ \A j \in 1 .. L : a[j] \in Nat
  BY LenProperties, ElementOfSeq
<1>2. ASSUME NEW j \in 1 .. L
      PROVE  /\ W[j] \in Seq(S) /\ Len(W[j]) = a[j]
             /\ \A p \in 1 .. a[j] : W[j][p] = F!Word(j, p)
  <2>1. W[j] = [p \in 1 .. a[j] |-> F!Word(j, p)]
    BY DEF Words
  <2>2. j \in Nat /\ a[j] \in Nat
    BY <1>1
  <2>3. \A p \in 1 .. a[j] : F!Word(j, p) \in S
    BY <2>2 DEF F!Word
  <2> HIDE DEF W, S
  <2> QED
    BY <2>1, <2>2, <2>3
<1>3. W = [j \in 1 .. L |-> W[j]] /\ F!Pushed(a) = F!FlattenSeq(W) \o <<F!Junk, F!Junk>>
  BY DEF Words, F!Pushed
<1> HIDE DEF W, L, S
<1>4. Len(W) = L /\ F!FlattenSeq(W) = Upto(W, L)
  BY <1>1, <1>2, <1>3, FlattenIs
<1> DEFINE all == Upto(W, L)
           b == a[x + 1]
<1>5. Placed(W, x, W[x + 1], all)
  <2>1. x < L
    BY DEF L
  <2> QED
    BY <1>1, <1>2, <1>4, <2>1, PlacesOf
<1>6. x + 1 \in 1 .. L
  BY <1>1 DEF L
<1>7. all \in Seq(S) /\ F!Junk \in S
  <2>1. L \in 0 .. L
    BY <1>1
  <2>2. F!Junk \in S
    BY DEF F!Junk, F!Word, S
  <2> QED
    BY <1>1, <1>2, <1>4, <2>1, <2>2, UptoOf
<1>8. Behind(S, all, <<F!Junk, F!Junk>>, Len(all), 2, F!Pushed(a))
  <2>1. <<F!Junk, F!Junk>> \in Seq(S) /\ Len(<<F!Junk, F!Junk>>) = 2
    BY <1>7, TwoOf
  <2> HIDE DEF all
  <2>2. Behind(S, all, <<F!Junk, F!Junk>>, Len(all), 2, all \o <<F!Junk, F!Junk>>)
    BY <1>7, <2>1, JoinedOf
  <2>3. F!Pushed(a) = all \o <<F!Junk, F!Junk>>
    BY <1>3, <1>4 DEF all
  <2> QED
    BY <2>2, <2>3
<1> HIDE DEF all
<1> DEFINE u == Len(Upto(W, x))
<1>9. b \in Nat /\ Len(W[x + 1]) = b /\ \A p \in 1 .. b : W[x + 1][p] = F!Word(x + 1, p)
  BY <1>1, <1>2, <1>6
<1>10. /\ u \in Nat /\ Len(Upto(W, x + 1)) = u + b /\ u + b <= Len(all) /\ Len(all) \in Nat
       /\ \A p \in 1 .. b : all[u + p] = F!Word(x + 1, p)
  BY <1>5, <1>9 DEF Placed
<1>11. /\ Len(F!Pushed(a)) = Len(all) + 2
       /\ \A y \in 1 .. Len(all) : F!Pushed(a)[y] = all[y]
  BY <1>8 DEF Behind
<1> HIDE DEF u, b
<1>12. \A p \in 1 .. b : u + p \in 1 .. Len(all)
  BY <1>9, <1>10
<1>13. u + b <= Len(F!Pushed(a)) /\ Len(F!Pushed(a)) \in Nat
  BY <1>9, <1>10, <1>11
<1> QED
  BY <1>10, <1>11, <1>12, <1>13 DEF W, u, b

LEMMA PushedOf ==
  ASSUME NEW a \in Seq(Nat)
  PROVE  Len(Upto(Words(a), 0)) = 0 /\ F!Pushed(a) \in Seq(Nat \X Nat)
<1> DEFINE W == Words(a)
           L == Len(a)
           S == Nat \X Nat
<1>1. L \in Nat /\ \A j \in 1 .. L : a[j] \in Nat
  BY LenProperties, ElementOfSeq
<1>2. ASSUME NEW j \in 1 .. L
      PROVE  W[j] \in Seq(S)
  <2>1. W[j] = [p \in 1 .. a[j] |-> F!Word(j, p)]
    BY DEF Words
  <2>2. j \in Nat /\ a[j] \in Nat
    BY <1>1
  <2>3. \A p \in 1 .. a[j] : F!Word(j, p) \in S
    BY <2>2 DEF F!Word
  <2> HIDE DEF W, S
  <2> QED
    BY <2>1, <2>2, <2>3
<1>3. W = [j \in 1 .. L |-> W[j]] /\ F!Pushed(a) = F!FlattenSeq(W) \o <<F!Junk, F!Junk>>
  BY DEF Words, F!Pushed
<1>4. F!Junk \in S
  BY DEF F!Junk, F!Word
<1> HIDE DEF W, L, S
<1>5. Len(W) = L /\ F!FlattenSeq(W) = Upto(W, L)
  BY <1>1, <1>2, <1>3, FlattenIs
<1>6. Upto(W, 0) = << >> /\ Upto(W, L) \in Seq(S)
  <2>1. L \in 0 .. L
    BY <1>1
  <2> QED
    BY <1>1, <1>2, <1>5, <2>1, UptoOf
<1>7. F!Pushed(a) \in Seq(S)
  <2>1. <<F!Junk, F!Junk>> \in Seq(S)
    BY <1>4, TwoOf
  <2> QED
    BY <1>3, <1>5, <1>6, <2>1, ConcatProperties
<1> QED
  BY <1>6, <1>7 DEF W, S

-----------------------------------------------------------------------------
(* The steps of __vsnprintf *)

\* The action is the one for the character.
LEMMA ActionOf ==
  ASSUME F!Next
  PROVE  /\ F!Reading
         /\ v5 => /\ F!c = "l" => F!Long
                  /\ F!c = "h" => F!Short
                  /\ F!c = "digit" => F!Digit
                  /\ F!c \in F!Integer => F!Sized
                  /\ F!c \in F!Single => F!OneWord
                  /\ F!c \in F!Double => F!TwoWords
                  /\ F!c = "%" => F!EscapedPercent
                  /\ F!c = "k" => F!Unsupported
         /\ ~v5 => /\ F!c = "%" => F!Percent
                   /\ F!c # "%" => F!Text
<1> DEFINE ch == F!c
<1>1. /\ F!Percent => F!Reading /\ ~v5 /\ ch = "%"
      /\ F!Text => F!Reading /\ ~v5 /\ ch # "%"
      /\ F!Long => F!Reading /\ v5 /\ ch = "l"
      /\ F!Short => F!Reading /\ v5 /\ ch = "h"
      /\ F!Digit => F!Reading /\ v5 /\ ch = "digit"
      /\ F!Sized => F!Reading /\ v5 /\ ch \in F!Integer
      /\ F!OneWord => F!Reading /\ v5 /\ ch \in F!Single
      /\ F!TwoWords => F!Reading /\ v5 /\ ch \in F!Double
      /\ F!EscapedPercent => F!Reading /\ v5 /\ ch = "%"
      /\ F!Unsupported => F!Reading /\ v5 /\ ch = "k"
  BY Zenon DEF F!Percent, F!Text, F!Long, F!Short, F!Digit, F!Sized, F!OneWord, F!TwoWords,
     F!EscapedPercent, F!Unsupported, F!Interpreting
<1>2. \/ F!Percent \/ F!Text \/ F!Long \/ F!Short \/ F!Digit
      \/ F!Sized \/ F!OneWord \/ F!TwoWords \/ F!EscapedPercent \/ F!Unsupported
  BY DEF F!Next
<1> HIDE DEF ch
<1>3. F!Reading
  BY <1>1, <1>2, Zenon
<1>4. ASSUME v5
      PROVE  /\ ch = "l" => F!Long
             /\ ch = "h" => F!Short
             /\ ch = "digit" => F!Digit
             /\ ch \in F!Integer => F!Sized
             /\ ch \in F!Single => F!OneWord
             /\ ch \in F!Double => F!TwoWords
             /\ ch = "%" => F!EscapedPercent
             /\ ch = "k" => F!Unsupported
  BY <1>1, <1>2, <1>4 DEF F!Integer, F!Single, F!Double
<1>5. ASSUME ~v5
      PROVE  /\ ch = "%" => F!Percent
             /\ ch # "%" => F!Text
  BY <1>1, <1>2, <1>5, Zenon
<1> QED
  BY <1>3, <1>4, <1>5 DEF ch

\* Behind the last piece there is nothing to read.
LEMMA FormatOver ==
  ASSUME NEW k, NEW i, FormatAt(k, Len(k), i)
  PROVE  ~F!Next
<1>1. k \in PrintfCalls /\ i = 0 /\ v1 = Upto(Chars(k), Len(k)) /\ v4 = Len(v1) + i + 1
  BY DEF FormatAt
<1>2. Len(v1) \in Nat
  <2>1. /\ Len(k) \in Nat /\ Len(Chars(k)) = Len(k)
        /\ \A j \in 1 .. Len(k) : Chars(k)[j] \in Seq(Chr)
    BY <1>1, CallOf
  <2>2. Len(k) \in 0 .. Len(Chars(k))
    BY <2>1
  <2>3. Upto(Chars(k), Len(k)) \in Seq(Chr)
    BY <2>1, <2>2, UptoOf
  <2> QED
    BY <1>1, <2>3, LenProperties
<1>3. ~(v4 <= Len(v1))
  BY <1>1, <1>2
<1>4. F!Next => F!Reading
  BY ActionOf
<1> QED
  BY <1>3, <1>4 DEF F!Reading

\* Within a piece, the next character is the piece's.
LEMMA FormatNext ==
  ASSUME NEW k, NEW n, NEW i, FormatAt(k, n, i), n # Len(k)
  PROVE  /\ k \in PrintfCalls /\ n \in Nat /\ n < Len(k) /\ n + 1 \in 1 .. Len(k)
         /\ i \in Nat /\ Len(k[n + 1].fmt) \in Nat /\ i < Len(k[n + 1].fmt)
         /\ v4 \in Nat /\ F!c = k[n + 1].fmt[i + 1]
         /\ Read(k[n + 1], i, v5, v6, v7)
<1> DEFINE p == k[n + 1]
           u == Len(Upto(Chars(k), n))
<1>1. /\ k \in PrintfCalls /\ n \in 0 .. Len(k) /\ i \in Nat /\ i < Len(p.fmt)
      /\ v1 = Upto(Chars(k), Len(k)) /\ v4 = u + i + 1 /\ Read(p, i, v5, v6, v7)
  BY DEF FormatAt
<1>2. n \in Nat /\ n < Len(k) /\ Len(k) \in Nat
  BY <1>1, CallOf
<1>3. n + 1 \in 1 .. Len(k) /\ Placed(Chars(k), n, p.fmt, v1)
  BY <1>1, <1>2, PiecePlaces
<1>4. /\ u \in Nat /\ Len(p.fmt) \in Nat
      /\ \A j \in 1 .. Len(p.fmt) : v1[u + j] = p.fmt[j]
  BY <1>3 DEF Placed
<1>5. i + 1 \in 1 .. Len(p.fmt) /\ u + (i + 1) = v4 /\ v4 \in Nat
  BY <1>1, <1>4
<1>6. v1[v4] = p.fmt[i + 1]
  BY <1>4, <1>5
<1> QED
  BY <1>1, <1>2, <1>3, <1>4, <1>5, <1>6 DEF F!c


\* What is left of s behind its first w elements
LEMMA RestOf ==
  ASSUME NEW S, NEW s \in Seq(S), NEW w \in Nat, w <= Len(s)
  PROVE  /\ SubSeq(s, w + 1, Len(s)) \in Seq(S) /\ Len(SubSeq(s, w + 1, Len(s))) = Len(s) - w
         /\ \A x \in 1 .. Len(s) - w : SubSeq(s, w + 1, Len(s))[x] = s[w + x]
<1> DEFINE L == Len(s)
           r == SubSeq(s, w + 1, L)
<1>1. L \in Nat /\ L - w \in Nat /\ 1 + L - (w + 1) = L - w
      /\ \A x \in 1 .. L - w : w + x \in 1 .. L
  BY LenProperties
<1>2. \A x \in w + 1 .. L : s[x] \in S
  BY <1>1, ElementOfSeq
<1> L \in Nat
  BY <1>1
<1> HIDE DEF L
<1>3. r \in Seq(S)
      /\ Len(r) = (IF w + 1 <= L THEN L - (w + 1) + 1 ELSE 0)
      /\ \A x \in 1 .. L - (w + 1) + 1 : r[x] = s[w + 1 + x - 1]
  <2>1. w + 1 \in Int /\ L \in Int
    OBVIOUS
  <2> QED
    BY <1>2, <2>1, SubSeqProperties
<1>4. (IF w + 1 <= L THEN L - (w + 1) + 1 ELSE 0) = L - w
  BY DEF L
<1>5. \A x \in 1 .. L - w : x \in 1 .. L - (w + 1) + 1 /\ w + 1 + x - 1 = w + x
  OBVIOUS
<1> HIDE DEF r
<1>6. Len(r) = L - w /\ \A x \in 1 .. L - w : r[x] = s[w + x]
  BY <1>3, <1>4, <1>5
<1> QED
  BY <1>3, <1>6 DEF r, L

\* va_arg takes the words of the next argument.
LEMMA TakesOwn ==
  ASSUME NEW k, NEW n, NEW i, FormatAt(k, n, i), n # Len(k),
         NEW w \in Nat, NEW b \in Nat, k[n + 1].args = <<w>>, k[n + 1].bits = <<b>>,
         F!Take(w, b), UNCHANGED <<v2, v3>>
  PROVE  /\ v9' \in Seq(Took) /\ Len(v9') = Len(Upto(Args(k), n + 1))
         /\ Left(v8', F!Pushed(v2), Len(Upto(Words(v2), Len(v9'))))
         /\ F!ArgumentsInStep'
<1> DEFINE u == Len(v9)
           q == Len(Upto(Words(v2), u))
           P == F!Pushed(v2)
           S == Nat \X Nat
           s == SubSeq(v8, 1, w)
           t == [words |-> s, width |-> b]
<1>1. /\ k \in PrintfCalls /\ n \in Nat /\ n < Len(k) /\ n + 1 \in 1 .. Len(k)
  BY FormatNext
<1>2. /\ v2 = Upto(Args(k), Len(k)) /\ v3 = Upto(Widths(k), Len(k))
      /\ v9 \in Seq(Took) /\ u = Len(Upto(Args(k), n))
      /\ v8 \in Seq(S) /\ q + Len(v8) = Len(P)
      /\ \A x \in 1 .. Len(v8) : v8[x] = P[q + x]
  BY DEF FormatAt, Left
<1>3. F!ArgumentsInStep
  BY DEF FormatAt
<1>4. v2 \in Seq(Nat) /\ Len(Upto(Widths(k), n)) = u /\ Len(k) \in Nat
  <2>1. Len(k) \in Nat
    BY <1>1, CallOf
  <2>2. n \in 0 .. Len(k) /\ Len(k) \in 0 .. Len(k)
    BY <1>1, <2>1
  <2> QED
    BY <1>1, <1>2, <2>1, <2>2, WidthsMatch
<1>5. Placed(Args(k), n, <<w>>, v2) /\ Placed(Widths(k), n, <<b>>, v3)
  BY <1>1, <1>2, PiecePlaces
<1>6. /\ u \in Nat /\ Len(Upto(Args(k), n + 1)) = u + 1 /\ u + 1 <= Len(v2) /\ Len(v2) \in Nat
      /\ v2[u + 1] = w /\ v3[u + 1] = b
  <2>1. Len(<<w>>) = 1 /\ <<w>>[1] = w /\ 1 \in 1 .. Len(<<w>>)
        /\ Len(<<b>>) = 1 /\ <<b>>[1] = b /\ 1 \in 1 .. Len(<<b>>)
    OBVIOUS
  <2>2. /\ u \in Nat /\ Len(Upto(Args(k), n + 1)) = u + Len(<<w>>)
        /\ Len(Upto(Args(k), n + 1)) <= Len(v2) /\ Len(v2) \in Nat
        /\ v2[u + 1] = <<w>>[1]
    BY <1>2, <1>5, <2>1, Zenon DEF Placed
  <2>3. v3[u + 1] = <<b>>[1]
    BY <1>4, <1>5, <2>1, Zenon DEF Placed
  <2> QED
    BY <2>1, <2>2, <2>3
<1>7. /\ q \in Nat /\ Len(Upto(Words(v2), u + 1)) = q + w /\ q + w <= Len(P) /\ Len(P) \in Nat
      /\ \A x \in 1 .. w : P[q + x] = F!Word(u + 1, x)
  <2>1. u < Len(v2)
    BY <1>6
  <2> HIDE DEF u
  <2> QED
    BY <1>4, <1>6, <2>1, WordsPlaced
<1> HIDE DEF u, q, P
<1>8. Len(v8) \in Nat /\ w <= Len(v8)
  <2>1. Len(v8) \in Nat
    BY <1>2, LenProperties
  <2> QED
    BY <1>2, <1>7, <2>1
<1>9. s \in Seq(S) /\ s = [x \in 1 .. w |-> F!Word(u + 1, x)]
  <2>1. s \in Seq(S) /\ s = [x \in 1 .. w |-> v8[x]]
    BY <1>2, <1>8
  <2>2. \A x \in 1 .. w : v8[x] = F!Word(u + 1, x)
    <3>1. \A x \in 1 .. w : x \in 1 .. Len(v8)
      BY <1>8
    <3> QED
      BY <1>2, <1>7, <3>1
  <2> HIDE DEF s
  <2> QED
    BY <2>1, <2>2
<1>10. /\ v8' \in Seq(S) /\ Len(v8') = Len(v8) - w
       /\ \A x \in 1 .. Len(v8') : v8'[x] = v8[w + x]
  <2>1. v8' = SubSeq(v8, w + 1, Len(v8))
    BY DEF F!Take
  <2>2. v8 \in Seq(S) /\ w <= Len(v8)
    BY <1>2, <1>8
  <2> HIDE DEF S
  <2> QED
    BY <2>1, <2>2, RestOf
<1>11. Left(v8', P, q + w)
  <2>1. ASSUME NEW x \in 1 .. Len(v8')
        PROVE  v8'[x] = P[(q + w) + x]
    <3>1. w + x \in 1 .. Len(v8) /\ q + (w + x) = (q + w) + x
      BY <1>7, <1>8, <1>10
    <3> QED
      BY <1>2, <1>10, <3>1
  <2>2. (q + w) + Len(v8') = Len(P)
    <3>1. q + Len(v8) = Len(P) /\ Len(v8') = Len(v8) - w
      BY <1>2, <1>10
    <3> QED
      BY <1>7, <1>8, <3>1
  <2> QED
    BY <1>10, <2>1, <2>2 DEF Left, S
<1>12. t \in Took /\ v9' = Append(v9, t)
  BY <1>9 DEF Took, F!Take
<1> HIDE DEF s
<1>13. /\ v9' \in Seq(Took) /\ Len(v9') = u + 1 /\ v9'[u + 1] = t
       /\ \A x \in 1 .. u : v9'[x] = v9[x]
  <2> HIDE DEF t
  <2> QED
    BY <1>2, <1>12, AppendProperties DEF u
<1>14. F!ArgumentsInStep'
  <2>1. ASSUME NEW x \in 1 .. u + 1
        PROVE  /\ x <= Len(v2)
               /\ v9'[x].words = [y \in 1 .. v2[x] |-> F!Word(x, y)]
               /\ v9'[x].width = v3[x]
    <3>1. CASE x = u + 1
      BY <1>6, <1>9, <1>13, <3>1
    <3>2. CASE x # u + 1
      <4>1. x \in 1 .. u
        BY <1>6, <3>2
      <4> QED
        BY <1>3, <1>13, <4>1 DEF F!ArgumentsInStep, u
    <3> QED
      BY <3>1, <3>2
  <2> QED
    BY <1>13, <2>1 DEF F!ArgumentsInStep, F!Word
<1> QED
  BY <1>6, <1>7, <1>11, <1>13, <1>14 DEF P

\* Within a piece
LEMMA FormatGoesOn ==
  ASSUME NEW k, NEW n, NEW i, FormatAt(k, n, i), n # Len(k), i + 1 < Len(k[n + 1].fmt),
         UNCHANGED <<v1, v2, v3>>, v4' = v4 + 1, UNCHANGED <<v8, v9>>,
         Read(k[n + 1], i + 1, v5', v6', v7')
  PROVE  FormatInv'
<1> DEFINE P == F!Pushed(v2)
           q == Len(Upto(Words(v2), Len(v9)))
           u == Len(Upto(Chars(k), n))
<1>1. /\ k \in PrintfCalls /\ n \in 0 .. Len(k) /\ i \in Nat
      /\ v1 = Upto(Chars(k), Len(k)) /\ v2 = Upto(Args(k), Len(k)) /\ v3 = Upto(Widths(k), Len(k))
      /\ v4 = u + i + 1
      /\ v9 \in Seq(Took) /\ Len(v9) = Len(Upto(Args(k), n))
      /\ Left(v8, P, q) /\ F!ArgumentsInStep
  BY DEF FormatAt
<1>2. v4' = u + (i + 1) + 1 /\ i + 1 \in Nat
  <2>1. u \in Nat
    BY <1>1, FormatNext, PiecePlaces DEF Placed
  <2> QED
    BY <1>1, <2>1
<1>3. (P = F!Pushed(v2)') /\ q' = q /\ (F!ArgumentsInStep' <=> F!ArgumentsInStep)
  BY DEF F!ArgumentsInStep
<1>4. FormatAt(k, n, i + 1)'
  BY <1>1, <1>2, <1>3 DEF FormatAt
<1> QED
  BY <1>4 DEF FormatInv

\* Behind a piece
LEMMA FormatEnds ==
  ASSUME NEW k, NEW n, NEW i, FormatAt(k, n, i), n # Len(k), i + 1 = Len(k[n + 1].fmt),
         UNCHANGED <<v1, v2, v3>>, v4' = v4 + 1, ~v5', ~v6',
         v9' \in Seq(Took), Len(v9') = Len(Upto(Args(k), n + 1)),
         Left(v8', F!Pushed(v2), Len(Upto(Words(v2), Len(v9')))), F!ArgumentsInStep'
  PROVE  FormatInv'
<1> DEFINE u == Len(Upto(Chars(k), n))
<1>1. /\ k \in PrintfCalls /\ n \in Nat /\ n < Len(k) /\ n + 1 \in 1 .. Len(k) /\ i \in Nat
  BY FormatNext
<1>2. /\ v1 = Upto(Chars(k), Len(k)) /\ v2 = Upto(Args(k), Len(k)) /\ v3 = Upto(Widths(k), Len(k))
      /\ v4 = u + i + 1
  BY DEF FormatAt
<1>3. Placed(Chars(k), n, k[n + 1].fmt, v1) /\ n + 1 \in 0 .. Len(k)
  BY <1>1, <1>2, PiecePlaces
<1>4. v4' = Len(Upto(Chars(k), n + 1)) + 0 + 1
  <2>1. u \in Nat /\ Len(Upto(Chars(k), n + 1)) = u + (i + 1)
    BY <1>3 DEF Placed
  <2>2. v4' = u + i + 1 + 1
    BY <1>2
  <2> QED
    BY <1>1, <2>1, <2>2
<1>5. ASSUME n + 1 # Len(k)
      PROVE  0 < Len(k[(n + 1) + 1].fmt) /\ Read(k[(n + 1) + 1], 0, v5', v6', v7')
  <2>1. Len(k) \in Nat
    BY <1>1, CallOf
  <2>2. (n + 1) + 1 \in 1 .. Len(k)
    BY <1>1, <1>5, <2>1
  <2>3. Len(k[(n + 1) + 1].fmt) \in Nat \ {0}
    BY <1>1, <2>2, PieceOf
  <2> QED
    BY <2>3 DEF Read
<1>6. FormatAt(k, n + 1, 0)'
  <2>1. (0 \in Nat) /\ F!Pushed(v2)' = F!Pushed(v2) /\ Words(v2)' = Words(v2)
    OBVIOUS
  <2> QED
    BY <1>1, <1>2, <1>3, <1>4, <1>5, <2>1 DEF FormatAt
<1> QED
  BY <1>6 DEF FormatInv

\* Behind a piece without an argument
LEMMA FormatPasses ==
  ASSUME NEW k, NEW n, NEW i, FormatAt(k, n, i), n # Len(k), i + 1 = Len(k[n + 1].fmt),
         UNCHANGED <<v1, v2, v3>>, v4' = v4 + 1, ~v5', ~v6', k[n + 1].args = << >>,
         UNCHANGED <<v8, v9>>
  PROVE  FormatInv'
<1>1. /\ k \in PrintfCalls /\ n \in Nat /\ n < Len(k)
  BY FormatNext
<1>2. /\ v9 \in Seq(Took) /\ Len(v9) = Len(Upto(Args(k), n))
      /\ Left(v8, F!Pushed(v2), Len(Upto(Words(v2), Len(v9)))) /\ F!ArgumentsInStep
  BY DEF FormatAt
<1>3. Len(Upto(Args(k), n + 1)) = Len(Upto(Args(k), n))
  <2>1. Placed(Args(k), n, << >>, Upto(Args(k), Len(k)))
    BY <1>1, PiecePlaces
  <2>2. Len(<< >>) = 0
    OBVIOUS
  <2> QED
    BY <2>1, <2>2 DEF Placed
<1>4. /\ v9' \in Seq(Took) /\ Len(v9') = Len(Upto(Args(k), n + 1))
      /\ Left(v8', F!Pushed(v2), Len(Upto(Words(v2), Len(v9')))) /\ F!ArgumentsInStep'
  BY <1>2, <1>3 DEF F!ArgumentsInStep
<1> QED
  BY <1>4, FormatEnds

LEMMA FormatStays ==
  ASSUME FormatInv, UNCHANGED <<v1, v2, v3, v4, v5, v6, v7, v8, v9>>
  PROVE  FormatInv'
<1>1. PICK k, n, i : FormatAt(k, n, i)
  BY DEF FormatInv
<1>2. FormatAt(k, n, i)'
  BY <1>1 DEF FormatAt, F!ArgumentsInStep
<1> QED
  BY <1>2 DEF FormatInv

\* A piece without a conversion
LEMMA FormatPlain ==
  ASSUME NEW k, NEW n, NEW i, FormatAt(k, n, i), n # Len(k), k[n + 1] \in F!Plain, F!Next
  PROVE  FormatInv'
<1> DEFINE p == k[n + 1]
<1>1. /\ i \in Nat /\ i < Len(p.fmt) /\ F!c = p.fmt[i + 1] /\ Read(p, i, v5, v6, v7)
  BY FormatNext
<1>2. /\ p.args = << >>
      /\ \/ Len(p.fmt) = 1 /\ p.fmt[1] = "text"
         \/ Len(p.fmt) = 2 /\ p.fmt[1] = "%" /\ p.fmt[2] = "%"
         \/ Len(p.fmt) = 2 /\ p.fmt[1] = "%" /\ p.fmt[2] = "k"
  BY PlainOf
<1>3. i = 0 => ~v5 /\ ~v6
  BY <1>1 DEF Read
<1>4. i # 0 => v5
  BY <1>1 DEF Read
<1>5. p \in F!Plain
  OBVIOUS
<1> HIDE DEF p
<1>6. CASE Len(p.fmt) = 1 /\ p.fmt[1] = "text"
  <2>1. i = 0 /\ i + 1 = Len(p.fmt)
    BY <1>1, <1>6
  <2>2. F!c # "%"
    BY <1>1, <1>6, <2>1
  <2>3. F!Text
    BY <1>3, <2>1, <2>2, ActionOf
  <2>4. /\ UNCHANGED <<v1, v2, v3>> /\ v4' = v4 + 1 /\ ~v5' /\ ~v6' /\ UNCHANGED <<v8, v9>>
    BY <1>3, <2>1, <2>3 DEF F!Text, F!Advance, F!call
  <2> QED
    BY <1>2, <2>1, <2>4, FormatPasses DEF p
<1>7. CASE Len(p.fmt) = 2 /\ p.fmt[1] = "%" /\ i = 0
  <2>1. i + 1 < Len(p.fmt) /\ F!c = "%"
    BY <1>1, <1>7
  <2>2. F!Percent
    BY <1>3, <1>7, <2>1, ActionOf
  <2>3. /\ UNCHANGED <<v1, v2, v3>> /\ v4' = v4 + 1 /\ v5' /\ ~v6' /\ UNCHANGED <<v8, v9>>
    BY <1>3, <1>7, <2>2 DEF F!Percent, F!Advance, F!call
  <2>4. Read(p, i + 1, v5', v6', v7')
    BY <1>5, <1>7, <2>3 DEF Read
  <2> QED
    BY <2>1, <2>3, <2>4, FormatGoesOn DEF p
<1>8. CASE Len(p.fmt) = 2 /\ p.fmt[2] = "%" /\ i # 0
  <2>1. i + 1 = Len(p.fmt) /\ F!c = "%"
    BY <1>1, <1>8
  <2>2. F!EscapedPercent
    BY <1>4, <1>8, <2>1, ActionOf
  <2>3. /\ UNCHANGED <<v1, v2, v3>> /\ v4' = v4 + 1 /\ ~v5' /\ ~v6' /\ UNCHANGED <<v8, v9>>
    BY <2>2 DEF F!EscapedPercent, F!Converted, F!Advance, F!call
  <2> QED
    BY <1>2, <2>1, <2>3, FormatPasses DEF p
<1>9. CASE Len(p.fmt) = 2 /\ p.fmt[2] = "k" /\ i # 0
  <2>1. F!c = "k"
    BY <1>1, <1>9
  <2>2. F!Unsupported
    BY <1>4, <1>9, <2>1, ActionOf
  <2>3. UNCHANGED <<v1, v2, v3, v4, v5, v6, v7, v8, v9>>
    BY <2>2 DEF F!Unsupported, F!call
  <2> QED
    BY <2>3, FormatStays DEF FormatInv
<1> QED
  BY <1>2, <1>6, <1>7, <1>8, <1>9, Zenon

\* Where a conversion is read
Within(d, length, i, interp, lng, size) ==
    \/ i = 0 /\ ~interp /\ ~lng
    \/ i > 0 /\ interp /\ ReadTo(d, length, i, lng, size)

\* The characters in front of it
LEMMA FormatModifies ==
  ASSUME NEW k, NEW n, NEW i, FormatAt(k, n, i), n # Len(k),
         NEW d, NEW length, NEW conv, Form(d, length, conv),
         k[n + 1] = F!Conversion(d, length, conv), Within(d, length, i, v5, v6, v7),
         i < d + Len(length) + 1, F!Next
  PROVE  FormatInv'
<1> DEFINE p == k[n + 1]
           L == Len(length)
<1>1. /\ i \in Nat /\ F!c = p.fmt[i + 1]
  BY FormatNext
<1>2. /\ Len(p.fmt) = d + L + 2 /\ p.fmt[1] = "%"
      /\ \A x \in 1 .. d : p.fmt[x + 1] = "digit"
      /\ \A x \in 1 .. L : p.fmt[d + 1 + x] = length[x]
  BY ConversionOf
<1>3. (length = << >>) <=> (L = 0)
  BY LengthsOf DEF Form
<1>0. i \in Nat /\ d \in Nat /\ L \in 0 .. 2 /\ i < d + L + 1
  <2>1. d \in Nat /\ length \in F!Lengths
    BY DEF Form
  <2>2. L \in 0 .. 2
    BY <2>1, LengthsOf
  <2> QED
    BY <1>1, <2>1, <2>2
<1>4. /\ L # 0 => length[1] \in {"l", "h"}
      /\ L = 2 => length[2] = length[1]
  BY LengthsOf DEF Form
<1>5. p = F!Conversion(d, length, conv) /\ Form(d, length, conv)
  OBVIOUS
<1> HIDE DEF p, L
<1>6. i + 1 < Len(p.fmt)
  <2>1. i + 1 < d + L + 2
    BY <1>0
  <2> QED
    BY <1>2, <2>1 DEF L
<1>7. SUFFICES /\ UNCHANGED <<v1, v2, v3>> /\ v4' = v4 + 1 /\ UNCHANGED <<v8, v9>>
               /\ v5' /\ ReadTo(d, length, i + 1, v6', v7')
  <2>1. i + 1 > 0
    BY <1>1
  <2>2. ASSUME v5', ReadTo(d, length, i + 1, v6', v7')
        PROVE  Read(p, i + 1, v5', v6', v7')
    BY <1>5, <2>1, <2>2 DEF Read
  <2> QED
    BY <1>6, <2>2, FormatGoesOn DEF p
<1>8. CASE i = 0
  <2>1. F!c = "%" /\ ~v5 /\ ~v6
    BY <1>1, <1>2, <1>8 DEF Within
  <2>2. F!Percent
    BY <2>1, ActionOf
  <2>3. /\ UNCHANGED <<v1, v2, v3>> /\ v4' = v4 + 1 /\ UNCHANGED <<v8, v9>>
        /\ v5' /\ ~v6' /\ v7' = 4
    BY <2>1, <2>2 DEF F!Percent, F!Advance, F!call
  <2>4. i + 1 <= d + 1
    BY <1>0, <1>8
  <2> QED
    BY <2>3, <2>4 DEF ReadTo
<1>9. i # 0 => v5 /\ ReadTo(d, length, i, v6, v7)
  BY DEF Within
<1>10. CASE i # 0 /\ i <= d
  <2>1. i \in 1 .. d
    BY <1>0, <1>10
  <2>2. F!c = "digit" /\ v5
    BY <1>1, <1>2, <1>9, <1>10, <2>1
  <2>3. F!Digit
    BY <2>2, ActionOf
  <2>4. /\ UNCHANGED <<v1, v2, v3>> /\ v4' = v4 + 1 /\ UNCHANGED <<v8, v9>>
        /\ v5' /\ v6' = v6 /\ v7' = v7
    BY <2>2, <2>3 DEF F!Digit, F!Advance, F!call
  <2>5. i + 1 <= d + 1 /\ i # d + 2 /\ i # d + 3
    BY <1>0, <1>10
  <2>6. ~v6 /\ v7 = 4
    BY <1>9, <1>10, <2>5 DEF ReadTo
  <2> QED
    BY <2>4, <2>5, <2>6 DEF ReadTo
<1>11. CASE i = d + 1
  <2>1. L # 0 /\ 1 \in 1 .. L /\ i # 0 /\ i + 1 = d + 1 + 1 /\ i + 1 = d + 2
        /\ i # d + 2 /\ i # d + 3
    BY <1>0, <1>11
  <2>2. F!c = length[1] /\ v5 /\ ~v6 /\ v7 = 4
    BY <1>1, <1>2, <1>9, <2>1 DEF ReadTo
  <2>3. CASE length[1] = "l"
    <3>1. F!Long
      BY <2>2, <2>3, ActionOf
    <3>2. /\ UNCHANGED <<v1, v2, v3>> /\ v4' = v4 + 1 /\ UNCHANGED <<v8, v9>>
          /\ v5' /\ v6' /\ v7' = 4
      BY <2>2, <3>1 DEF F!Long, F!Advance, F!call
    <3> QED
      BY <1>3, <2>1, <2>3, <3>2 DEF ReadTo
  <2>4. CASE length[1] = "h"
    <3>1. F!Short
      BY <2>2, <2>4, ActionOf
    <3>2. /\ UNCHANGED <<v1, v2, v3>> /\ v4' = v4 + 1 /\ UNCHANGED <<v8, v9>>
          /\ v5' /\ v6' = v6 /\ v7' = v7 \div 2
      BY <2>2, <3>1 DEF F!Short, F!Advance, F!call
    <3>3. v7' = 2
      BY <2>2, <3>2
    <3> QED
      BY <1>3, <2>1, <2>2, <2>4, <3>2, <3>3 DEF ReadTo
  <2> QED
    BY <1>4, <2>1, <2>3, <2>4
<1>12. CASE i = d + 2
  <2>1. L = 2 /\ 2 \in 1 .. L /\ i # 0 /\ i + 1 = d + 1 + 2 /\ i + 1 = d + 3
        /\ ~(i <= d + 1) /\ i # d + 3 /\ L # 0
    BY <1>0, <1>12
  <2>2. F!c = length[1] /\ v5
        /\ IF length[1] = "l" THEN v6 /\ v7 = 4 ELSE ~v6 /\ v7 = 2
    BY <1>1, <1>2, <1>4, <1>9, <2>1 DEF ReadTo
  <2>3. CASE length[1] = "l"
    <3>1. F!Long
      BY <2>2, <2>3, ActionOf
    <3>2. /\ UNCHANGED <<v1, v2, v3>> /\ v4' = v4 + 1 /\ UNCHANGED <<v8, v9>>
          /\ v5' /\ v6' /\ v7' = 8
      BY <2>2, <2>3, <3>1 DEF F!Long, F!Advance, F!call
    <3>3. Len(length) = 2
      BY <2>1 DEF L
    <3>4. ReadTo(d, length, i + 1, v6', v7')
      BY <2>1, <2>3, <3>2, <3>3 DEF ReadTo
    <3> QED
      BY <3>2, <3>4
  <2>4. CASE length[1] = "h"
    <3>1. F!Short
      BY <2>2, <2>4, ActionOf
    <3>2. /\ UNCHANGED <<v1, v2, v3>> /\ v4' = v4 + 1 /\ UNCHANGED <<v8, v9>>
          /\ v5' /\ v6' = v6 /\ v7' = v7 \div 2
      BY <2>2, <3>1 DEF F!Short, F!Advance, F!call
    <3>3. v7 = 2 /\ ~v6 /\ length[1] # "l"
      BY <2>2, <2>4
    <3>4. v7' = 1 /\ ~v6'
      BY <3>2, <3>3
    <3>5. Len(length) = 2
      BY <2>1 DEF L
    <3>6. ReadTo(d, length, i + 1, v6', v7')
      BY <2>1, <3>3, <3>4, <3>5 DEF ReadTo
    <3> QED
      BY <3>2, <3>6
  <2> QED
    BY <1>4, <2>1, <2>3, <2>4
<1>13. i <= d \/ i = d + 1 \/ i = d + 2
  BY <1>0
<1> QED
  BY <1>8, <1>10, <1>11, <1>12, <1>13, Zenon

\* Its last character: it takes as much as its modifiers and itself say.
LEMMA FormatConverts ==
  ASSUME NEW k, NEW n, NEW i, FormatAt(k, n, i), n # Len(k),
         NEW d, NEW length, NEW conv, Form(d, length, conv),
         k[n + 1] = F!Conversion(d, length, conv), Within(d, length, i, v5, v6, v7),
         i = d + Len(length) + 1, F!Next
  PROVE  FormatInv'
<1> DEFINE p == k[n + 1]
           L == Len(length)
           w == IF F!Wide(length, conv) THEN 2 ELSE 1
           b == F!Bits(length, conv)
<1>1. F!c = p.fmt[i + 1]
  BY FormatNext
<1>2. /\ Len(p.fmt) = d + L + 2 /\ p.fmt[d + L + 2] = conv
      /\ p.args = <<w>> /\ p.bits = <<b>>
  BY ConversionOf
<1>3. d \in Nat /\ L \in 0 .. 2 /\ i = d + L + 1
  <2>1. d \in Nat /\ length \in F!Lengths
    BY DEF Form
  <2>2. L \in 0 .. 2
    BY <2>1, LengthsOf
  <2> QED
    BY <2>1, <2>2
<1>4. /\ length \in F!Lengths
      /\ conv \in F!Integer \/ (length = << >> /\ conv \in F!Single \union F!Double)
  BY DEF Form
<1>5. /\ (length = << >>) <=> (L = 0)
      /\ L # 0 => length[1] \in {"l", "h"}
      /\ (length = <<"h">>) <=> (L = 1 /\ length[1] = "h")
      /\ (length = <<"l", "l">>) <=> (L = 2 /\ length[1] = "l")
      /\ (length = <<"h", "h">>) <=> (L = 2 /\ length[1] = "h")
  BY <1>4, LengthsOf
<1>6. w \in Nat /\ b \in Nat
  BY DEF F!Bits
<1> HIDE DEF p, L, w, b
<1>7. i # 0 /\ i + 1 = d + L + 2
  BY <1>3
<1>8. i + 1 = Len(p.fmt) /\ F!c = conv
  BY <1>1, <1>2, <1>7
<1>9. v5 /\ ReadTo(d, length, i, v6, v7)
  BY <1>7 DEF Within
<1>10. v7 = (IF length = <<"l", "l">> THEN 8 ELSE IF length = <<"h">> THEN 2
             ELSE IF length = <<"h", "h">> THEN 1 ELSE 4)
  <2>1. CASE L = 0
    <3>1. i # d + 2 /\ i # d + 3
      BY <1>3, <2>1
    <3>2. v7 = 4
      BY <1>9, <3>1 DEF ReadTo
    <3> QED
      BY <1>5, <2>1, <3>2
  <2>2. CASE L = 1
    <3>1. ~(i <= d + 1) /\ i # d + 3
      BY <1>3, <2>2
    <3>2. IF length[1] = "l" THEN v7 = 4 ELSE v7 = 2
      BY <1>9, <3>1 DEF ReadTo
    <3>3. length[1] = "l" \/ length[1] = "h"
      BY <1>5, <2>2
    <3> QED
      BY <1>5, <2>2, <3>2, <3>3
  <2>3. CASE L = 2
    <3>1. ~(i <= d + 1) /\ i # d + 2
      BY <1>3, <2>3
    <3>2. IF length[1] = "l" THEN v7 = 8 ELSE v7 = 1
      BY <1>9, <3>1 DEF ReadTo
    <3>3. length[1] = "l" \/ length[1] = "h"
      BY <1>5, <2>3
    <3> QED
      BY <1>5, <2>3, <3>2, <3>3
  <2> QED
    BY <1>3, <2>1, <2>2, <2>3
<1>11. ASSUME F!Take(w, b), UNCHANGED F!call, F!Converted, F!Advance
       PROVE  FormatInv'
  <2>1. /\ UNCHANGED <<v1, v2, v3>> /\ v4' = v4 + 1 /\ ~v5' /\ ~v6'
    BY <1>11 DEF F!call, F!Converted, F!Advance
  <2>2. /\ v9' \in Seq(Took) /\ Len(v9') = Len(Upto(Args(k), n + 1))
        /\ Left(v8', F!Pushed(v2), Len(Upto(Words(v2), Len(v9'))))
        /\ F!ArgumentsInStep'
    BY <1>2, <1>6, <1>11, <2>1, TakesOwn DEF p
  <2> QED
    BY <1>8, <2>1, <2>2, FormatEnds DEF p
<1>12. CASE conv \in F!Integer
  <2>1. F!Sized
    BY <1>8, <1>9, <1>12, ActionOf
  <2>2. conv \notin F!Double /\ conv # "c"
    BY <1>12 DEF F!Integer, F!Double
  <2>3. F!Wide(length, conv) <=> length = <<"l", "l">>
    BY <2>2 DEF F!Wide
  <2>4. /\ v7 >= 8 => w = 2 /\ b = 64
        /\ ~(v7 >= 8) => w = 1 /\ b = CASE v7 = 4 -> 32 [] v7 = 2 -> 16 [] OTHER -> 8
    <3>1. CASE length = <<"l", "l">>
      BY <1>10, <2>3, <3>1 DEF w, b, F!Bits
    <3>2. CASE length = <<"h">>
      <4>1. length # <<"l", "l">>
        BY <1>5, <3>2
      <4> QED
        BY <1>10, <2>3, <3>2, <4>1 DEF w, b, F!Bits
    <3>3. CASE length = <<"h", "h">>
      <4>1. length # <<"l", "l">> /\ length # <<"h">>
        BY <1>5, <3>3
      <4> QED
        BY <1>10, <2>3, <3>3, <4>1 DEF w, b, F!Bits
    <3>4. CASE length # <<"l", "l">> /\ length # <<"h">> /\ length # <<"h", "h">>
      BY <1>10, <2>2, <2>3, <3>4 DEF w, b, F!Bits
    <3> QED
      BY <3>1, <3>2, <3>3, <3>4
  <2>5. F!Take(w, b)
    BY <2>1, <2>4 DEF F!Sized
  <2> QED
    BY <1>11, <2>1, <2>5 DEF F!Sized
<1>13. CASE length = << >> /\ conv \in F!Single
  <2>1. F!OneWord
    BY <1>8, <1>9, <1>13, ActionOf
  <2>2. conv \notin F!Double /\ length # <<"l", "l">> /\ length # <<"h">> /\ length # <<"h", "h">>
    BY <1>5, <1>13 DEF F!Single, F!Double
  <2>3. w = 1 /\ b = IF conv = "c" THEN 8 ELSE 32
    BY <2>2 DEF w, b, F!Bits, F!Wide
  <2>4. F!Take(w, b)
    BY <1>8, <2>1, <2>3 DEF F!OneWord
  <2> QED
    BY <1>11, <2>1, <2>4 DEF F!OneWord
<1>14. CASE length = << >> /\ conv \in F!Double
  <2>1. F!TwoWords
    BY <1>8, <1>9, <1>14, ActionOf
  <2>2. w = 2 /\ b = 64
    BY <1>14 DEF w, b, F!Bits, F!Wide
  <2>3. F!Take(w, b)
    BY <2>1, <2>2 DEF F!TwoWords
  <2> QED
    BY <1>11, <2>1, <2>3 DEF F!TwoWords
<1> QED
  BY <1>4, <1>12, <1>13, <1>14

LEMMA FormatStep ==
  ASSUME FormatInv, F!Next
  PROVE  FormatInv'
<1>1. PICK k, n, i : FormatAt(k, n, i)
  BY DEF FormatInv
<1>2. n # Len(k)
  BY <1>1, FormatOver
<1> DEFINE p == k[n + 1]
<1>3. /\ k \in PrintfCalls /\ n + 1 \in 1 .. Len(k) /\ i \in Nat
      /\ i < Len(p.fmt) /\ Read(p, i, v5, v6, v7)
  BY <1>1, <1>2, FormatNext
<1>4. CASE p \in F!Plain
  BY <1>1, <1>2, <1>4, FormatPlain
<1>5. CASE p \notin F!Plain
  <2>1. PICK d, length, conv : /\ Form(d, length, conv) /\ p = F!Conversion(d, length, conv)
                               /\ Within(d, length, i, v5, v6, v7)
    <3>1. CASE i = 0
      <4>1. PICK d, length, conv : Form(d, length, conv) /\ p = F!Conversion(d, length, conv)
        BY <1>3, <1>5, PieceOf
      <4>2. ~v5 /\ ~v6
        BY <1>3, <3>1 DEF Read
      <4> QED
        BY <3>1, <4>1, <4>2 DEF Within
    <3>2. CASE i # 0
      BY <1>3, <1>5, <3>2 DEF Read, Within
    <3> QED
      BY <3>1, <3>2
  <2>2. Len(p.fmt) = d + Len(length) + 2
    BY <2>1, ConversionOf
  <2>3. d \in Nat /\ Len(length) \in Nat
    BY <2>1, LengthsOf DEF Form
  <2>4. i < d + Len(length) + 1 \/ i = d + Len(length) + 1
    BY <1>3, <2>2, <2>3
  <2>5. CASE i < d + Len(length) + 1
    BY <1>1, <1>2, <2>1, <2>5, FormatModifies
  <2>6. CASE i = d + Len(length) + 1
    BY <1>1, <1>2, <2>1, <2>6, FormatConverts
  <2> QED
    BY <2>4, <2>5, <2>6
<1> QED
  BY <1>4, <1>5

LEMMA FormatBegins ==
  ASSUME F!Init
  PROVE  FormatInv
<1>1. PICK k \in PrintfCalls : /\ v1 = F!FlattenSeq(Chars(k)) /\ v2 = F!FlattenSeq(Args(k))
                               /\ v3 = F!FlattenSeq(Widths(k))
  BY DEF F!Init, Chars, Args, Widths
<1>2. /\ v4 = 1 /\ ~v5 /\ ~v6 /\ v8 = F!Pushed(v2) /\ v9 = << >>
  BY DEF F!Init
<1>3. /\ Len(k) \in Nat
      /\ Len(Chars(k)) = Len(k) /\ Len(Args(k)) = Len(k)
      /\ \A j \in 1 .. Len(k) : Chars(k)[j] \in Seq(Chr)
      /\ \A j \in 1 .. Len(k) : Args(k)[j] \in Seq(Nat)
      /\ v1 = Upto(Chars(k), Len(k)) /\ v2 = Upto(Args(k), Len(k)) /\ v3 = Upto(Widths(k), Len(k))
  BY <1>1, CallOf
<1>4. Len(Upto(Chars(k), 0)) = 0 /\ Len(Upto(Args(k), 0)) = 0
  <2>1. Upto(Chars(k), 0) = << >>
    BY <1>3, UptoOf
  <2>2. Upto(Args(k), 0) = << >>
    BY <1>3, UptoOf
  <2> QED
    BY <2>1, <2>2
<1>5. v2 \in Seq(Nat)
  <2>1. Len(k) \in 0 .. Len(k)
    BY <1>3
  <2> QED
    BY <1>3, <2>1, WidthsMatch
<1>6. Left(v8, F!Pushed(v2), Len(Upto(Words(v2), Len(v9))))
  <2>1. Len(Upto(Words(v2), 0)) = 0 /\ F!Pushed(v2) \in Seq(Nat \X Nat)
    BY <1>5, PushedOf
  <2> DEFINE P == F!Pushed(v2)
  <2>2. Len(v9) = 0
    BY <1>2
  <2>3. v8 = P /\ P \in Seq(Nat \X Nat)
    BY <1>2, <2>1
  <2> HIDE DEF P
  <2>4. Len(v8) \in Nat
    BY <2>3, LenProperties
  <2>5. Left(v8, P, 0)
    BY <2>3, <2>4 DEF Left
  <2> QED
    BY <2>1, <2>2, <2>5 DEF P
<1>7. v9 \in Seq(Took) /\ Len(v9) = 0
  BY <1>2
<1>8. F!ArgumentsInStep
  BY <1>7 DEF F!ArgumentsInStep
<1>9. IF 0 = Len(k) THEN 0 = 0 /\ ~v5 /\ ~v6
      ELSE 0 < Len(k[0 + 1].fmt) /\ Read(k[0 + 1], 0, v5, v6, v7)
  <2>1. ASSUME 0 # Len(k)
        PROVE  0 < Len(k[0 + 1].fmt)
    <3>1. 0 + 1 \in 1 .. Len(k)
      BY <1>3, <2>1
    <3>2. Len(k[0 + 1].fmt) \in Nat \ {0}
      BY <3>1, PieceOf
    <3> QED
      BY <3>2
  <2> QED
    BY <1>2, <2>1 DEF Read
<1>10. FormatAt(k, 0, 0)
  <2>1. 0 \in 0 .. Len(k) /\ 0 \in Nat /\ v4 = Len(Upto(Chars(k), 0)) + 0 + 1
    BY <1>2, <1>3, <1>4
  <2> QED
    BY <1>3, <1>4, <1>6, <1>7, <1>8, <1>9, <2>1 DEF FormatAt
<1> QED
  BY <1>10 DEF FormatInv

-----------------------------------------------------------------------------
(* The reports together *)

GP == INSTANCE GdtReportProof WITH
        Tables <- Gdts, asked <- v1, gdt <- v2, limit <- v3, i <- v4, printed <- v5

\* The one that runs keeps its invariant.
ReportsInv ==
    /\ part = "gdt" => GP!GdtInv
    /\ part = "map" => MapInv
    /\ part = "trace" => TraceInv
    /\ part = "format" => FormatInv
    /\ part = "digits" => DigitsInv

\* The two instances of GdtReport are one.
LEMMA SameSize == \A S : G!Cardinality(S) = GP!Cardinality(S)
  BY Zenon DEF G!Cardinality, G!IsFiniteSet, GP!Cardinality, GP!IsFiniteSet

LEMMA GdtGiven == GP!RadixAssumption /\ GP!TablesAssumption
<1>1. G!W = GP!W /\ G!Requests = GP!Requests
  BY Zenon DEF G!W, GP!W, G!Requests, GP!Requests
<1>2. GP!RadixAssumption
  BY GdtAssumption, Zenon DEF G!RadixAssumption, GP!RadixAssumption
<1> QED
  BY GdtAssumption, <1>1, <1>2, SameSize, Zenon DEF G!TablesAssumption, GP!TablesAssumption

LEMMA GdtBegins ==
  ASSUME G!Init
  PROVE  GP!GdtInv
<1>1. \A r : G!initialize_segment_descriptor(r) = GP!initialize_segment_descriptor(r)
  BY Zenon DEF G!initialize_segment_descriptor, GP!initialize_segment_descriptor
<1>2. G!SizeofDesc = GP!SizeofDesc
  BY DEF G!SizeofDesc, GP!SizeofDesc
<1>3. GP!Init
  BY <1>1, <1>2, SameSize DEF G!Init, GP!Init
<1> QED
  BY <1>3, GdtGiven, GP!GdtInvInit

LEMMA GdtGoesOn ==
  ASSUME GP!GdtInv, G!Next \/ UNCHANGED pool
  PROVE  GP!GdtInv'
<1>1. G!Next => GP!Next
  BY DEF G!Next, G!PrintEntry, G!More, G!SizeofDesc, G!Base, G!End, G!Limit, G!W,
     G!display_type, G!SystemName, G!Bit,
     GP!Next, GP!PrintEntry, GP!More, GP!SizeofDesc, GP!Base, GP!End, GP!Limit, GP!W,
     GP!display_type, GP!SystemName, GP!Bit
<1>2. UNCHANGED pool => UNCHANGED GP!vars
  BY DEF pool, GP!vars
<1> QED
  BY <1>1, <1>2, GdtGiven, GP!GdtInvNext

LEMMA ReportsBegin ==
  ASSUME ReportsInit
  PROVE  ReportsInv
<1>1. /\ part = "gdt" => G!Init
      /\ part = "map" => M!Init
      /\ part = "trace" => T!Init
      /\ part = "format" => F!Init
      /\ part = "digits" => D!Init
  BY DEF ReportsInit
<1> QED
  BY <1>1, GdtBegins, MapInit, TraceInit, FormatBegins, DigitsInit DEF ReportsInv

LEMMA ReportsGoOn ==
  ASSUME ReportsInv, [ReportsNext]_<<part, vars, pool>>
  PROVE  ReportsInv'
<1>1. part' = part
  BY DEF ReportsNext, Report, Pages, Gdt, Map, Calls, Trace, Printf, Digits
<1>2. CASE part = "gdt"
  <2>1. G!Next \/ UNCHANGED pool
    BY <1>2 DEF ReportsNext, Report, Pages, Gdt, Map, Calls, Trace, Printf, Digits
  <2>2. GP!GdtInv'
    BY <1>2, <2>1, GdtGoesOn DEF ReportsInv
  <2> QED
    BY <1>1, <1>2, <2>2 DEF ReportsInv
<1>3. CASE part = "map"
  <2>1. M!Next \/ UNCHANGED pool
    BY <1>3 DEF ReportsNext, Report, Pages, Gdt, Map, Calls, Trace, Printf, Digits
  <2>2. MapInv'
    BY <1>3, <2>1, MapNext DEF ReportsInv, pool, MapInv
  <2> QED
    BY <1>1, <1>3, <2>2 DEF ReportsInv
<1>4. CASE part = "trace"
  <2>1. T!Next \/ UNCHANGED pool
    BY <1>4 DEF ReportsNext, Report, Pages, Gdt, Map, Calls, Trace, Printf, Digits, T!Next
  <2>2. TraceInv'
    BY <1>4, <2>1, TraceNext DEF ReportsInv, pool, TraceInv
  <2> QED
    BY <1>1, <1>4, <2>2 DEF ReportsInv
<1>5. CASE part = "digits"
  <2>1. D!Next \/ UNCHANGED pool
    BY <1>5 DEF ReportsNext, Report, Pages, Gdt, Map, Calls, Trace, Printf, Digits
  <2>2. DigitsInv'
    BY <1>5, <2>1, DigitsNext, DigitsStutters DEF ReportsInv
  <2> QED
    BY <1>1, <1>5, <2>2 DEF ReportsInv
<1>6. CASE part = "format"
  <2>1. F!Next \/ UNCHANGED pool
    BY <1>6 DEF ReportsNext, Report, Pages, Gdt, Map, Calls, Trace, Printf, Digits
  <2>2. UNCHANGED pool => UNCHANGED <<v1, v2, v3, v4, v5, v6, v7, v8, v9>>
    BY DEF pool
  <2>3. FormatInv'
    BY <1>6, <2>1, <2>2, FormatStep, FormatStays DEF ReportsInv
  <2> QED
    BY <1>1, <1>6, <2>3 DEF ReportsInv
<1>7. CASE part \notin {"gdt", "map", "trace", "format", "digits"}
  BY <1>1, <1>7 DEF ReportsInv
<1> QED
  BY <1>2, <1>3, <1>4, <1>5, <1>6, <1>7

THEOREM ReportsInvariant == ReportsSpec => []ReportsInv
<1>1. ReportsInit => ReportsInv
  BY ReportsBegin
<1>2. ReportsInv /\ [ReportsNext]_<<part, vars, pool>> => ReportsInv'
  BY ReportsGoOn
<1> QED
  BY <1>1, <1>2, PTL DEF ReportsSpec

\* print_gdt_content, beside the other reports: whatever the table and the sizes of the
\* fields, a line says of its entry what initialize_segment_descriptor was asked for.
THEOREM GdtLinesTrue == ReportsSpec => []LinesExact
<1>1. ReportsInv => LinesExact
  <2> SUFFICES ASSUME ReportsInv, part = "gdt" PROVE G!LinesExact
    BY DEF LinesExact
  <2>1. GP!LinesExact
    BY GdtGiven, GP!LineExact DEF ReportsInv
  <2> QED
    BY <2>1, Zenon DEF GP!LinesExact, G!LinesExact, GP!W, G!W, GP!DATA_E, G!DATA_E, GP!DATA_W,
       G!DATA_W, GP!CODE_C, G!CODE_C, GP!CODE_R, G!CODE_R, GP!SEG_DESC_SYS, G!SEG_DESC_SYS
<1> QED
  BY <1>1, ReportsInvariant, PTL

\* tp0's walk of the multiboot memory map, whatever the map: when the probes begin, the
\* list has a line for each region, in order, and below 4 GB its bounds are the region's.
THEOREM RegionsListed == ReportsSpec => []MapListed
<1>1. ReportsInv => MapListed
  BY ListedThen DEF ReportsInv, MapListed
<1> QED
  BY <1>1, ReportsInvariant, PTL

\* stack_trace, for a stack of any size, any calls and returns before the fault and
\* anything that GRUB left: the trace starts with the return addresses of the active
\* calls, the innermost first, and does not end before them.
THEOREM TraceShowsCallers == ReportsSpec => []CallersFirst
<1>1. ReportsInv => CallersFirst
  BY TracedThen DEF ReportsInv, CallersFirst
<1> QED
  BY <1>1, ReportsInvariant, PTL

\* __vsnprintf, for calls of any number and order of plain characters and conversions, with
\* any padding and every length that C gives their arguments: each conversion takes the words
\* of its own argument, all of them and no other, at the width its own modifiers say.
THEOREM ArgumentsTaken == ReportsSpec => []ArgumentsInStep
<1>1. ReportsInv => ArgumentsInStep
  BY DEF ReportsInv, ArgumentsInStep, FormatInv, FormatAt
<1> QED
  BY <1>1, ReportsInvariant, PTL

\* The conversions of print.c, for every number but the least one, whatever its width, base
\* and precision: what is written is the numeral, without a leading zero, or as many digits
\* of it as the precision asks for; and for every number, the least one included, no digit
\* is kept beyond the end of the local array.
THEOREM NumeralsExact == ReportsSpec => []NumeralExact
<1>1. ReportsInv => NumeralExact
  BY DigitsThen DEF ReportsInv, NumeralExact
<1> QED
  BY <1>1, ReportsInvariant, PTL
=============================================================================
