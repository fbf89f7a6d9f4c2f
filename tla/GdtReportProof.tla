---------------------------- MODULE GdtReportProof ----------------------------
(***************************************************************************)
(* print_gdt_content says of each descriptor what was asked of it, for     *)
(* every size of the fields, the processor's among them, every table and   *)
(* every base and limit.                                                   *)
(***************************************************************************)
EXTENDS GdtReport, SequenceTheorems, TLAPS

-----------------------------------------------------------------------------
(* Arithmetic *)

\* Quotient and remainder.
LEMMA DivMod ==
  ASSUME NEW m \in Nat, m > 0, NEW x \in Int
  PROVE  /\ x \div m \in Int /\ x % m \in 0 .. m - 1
         /\ x = m * (x \div m) + (x % m)
  BY SMT

\* They are the only ones.
LEMMA Quotient ==
  ASSUME NEW m \in Nat, m > 0, NEW q \in Int, NEW r \in 0 .. m - 1
  PROVE  (m * q + r) \div m = q /\ (m * q + r) % m = r
  BY SMT

LEMMA Multiple ==
  ASSUME NEW m \in Nat, m > 0, NEW q \in Int
  PROVE  (m * q) % m = 0
  BY SMT

LEMMA TimesMonotone ==
  ASSUME NEW m \in Nat, NEW x \in Int, NEW y \in Int, x <= y
  PROVE  m * x \in Int /\ m * y \in Int /\ m * x <= m * y
  BY SMT

\* A number that is not negative has a quotient that is not.
LEMMA QuotientNat ==
  ASSUME NEW m \in Nat, m > 0, NEW x \in Nat
  PROVE  x \div m \in Nat
<1> DEFINE q == x \div m
           r == x % m
<1>1. q \in Int /\ r \in 0 .. m - 1 /\ x = m * q + r
  BY DivMod
<1> HIDE DEF q, r
<1>2. SUFFICES ASSUME q <= -1 PROVE FALSE
  BY <1>1, SMT DEF q
<1>3. m * q <= m * (-1) /\ m * q \in Int
  BY <1>1, <1>2, SMT
<1>4. m * (-1) = -m
  BY SMT
<1> QED
  BY <1>1, <1>3, <1>4, SMT

\* Below a product, the quotient is below the other factor.
LEMMA QuotientBelow ==
  ASSUME NEW m \in Nat, m > 0, NEW n \in Nat, NEW x \in 0 .. m * n - 1
  PROVE  x \div m \in 0 .. n - 1
<1> DEFINE q == x \div m
           r == x % m
<1>1. /\ q \in Int /\ r \in 0 .. m - 1 /\ x = m * q + r
      /\ m * n \in Int /\ x \in Int /\ 0 <= x /\ x < m * n
  BY DivMod, SMT
<1>2. q \in Nat
  BY <1>1, QuotientNat, SMT
<1> HIDE DEF q, r
<1>3. SUFFICES ASSUME q >= n PROVE FALSE
  BY <1>1, <1>2, SMT DEF q
<1>4. m * q >= m * n /\ m * q \in Int
  BY <1>2, <1>3, SMT
<1> QED
  BY <1>1, <1>4, SMT

\* One more after the remainder, or before it.
LEMMA ModSuccessor ==
  ASSUME NEW m \in Nat, m > 0, NEW x \in Int
  PROVE  ((x % m) + 1) % m = (x + 1) % m
<1> DEFINE q == x \div m
           r == x % m
<1>1. q \in Int /\ r \in 0 .. m - 1 /\ x = m * q + r
  BY DivMod
<1> HIDE DEF q, r
<1>2. CASE r < m - 1
  <2>1. r + 1 \in 0 .. m - 1 /\ x + 1 = m * q + (r + 1) /\ r + 1 = m * 0 + (r + 1)
    BY <1>1, <1>2, SMT
  <2>2. (x + 1) % m = r + 1 /\ (r + 1) % m = r + 1
    BY <2>1, <1>1, Quotient
  <2> QED
    BY <2>2 DEF r
<1>3. CASE ~(r < m - 1)
  <2>1. r + 1 = m * 1 /\ r + 1 = m
    BY <1>1, <1>3, SMT
  <2>2. x + 1 = m * (q + 1) /\ q + 1 \in Int
    <3>1. m * (q + 1) = m * q + m /\ m * q \in Int
      BY <1>1, SMT
    <3> QED
      BY <1>1, <2>1, <3>1, SMT
  <2>3. (m * (q + 1)) % m = 0 /\ (m * 1) % m = 0
    <3>1. \A a \in Int : (m * a) % m = 0
      BY Multiple
    <3>2. 1 \in Int
      BY SMT
    <3> QED
      BY <2>2, <3>1, <3>2, Zenon
  <2>4. (x + 1) % m = 0 /\ (r + 1) % m = 0
    BY <2>1, <2>2, <2>3
  <2> QED
    BY <2>4 DEF r
<1> QED
  BY <1>2, <1>3

-----------------------------------------------------------------------------
(* The fields of a descriptor *)

LEMMA Radix ==
  ASSUME RadixAssumption
  PROVE  /\ LOW \in Nat /\ LOW > 0 /\ MID \in Nat /\ MID > 0 /\ HIGH \in Nat /\ HIGH > 0
         /\ LIM \in Nat /\ LIM > 0 /\ PAGE \in Nat /\ PAGE > 0
         /\ LOW * MID \in Nat /\ LOW * MID > 0
         /\ W \in Nat /\ W > 0 /\ W = (LOW * MID) * HIGH
<1>1. /\ LOW \in Nat /\ LOW > 0 /\ MID \in Nat /\ MID > 0 /\ HIGH \in Nat /\ HIGH > 0
      /\ LIM \in Nat /\ LIM > 0 /\ PAGE \in Nat /\ PAGE > 0
  BY SMT DEF RadixAssumption
<1>2. LOW * MID \in Nat /\ LOW * MID > 0
  BY <1>1, SMT
<1>3. (LOW * MID) * HIGH \in Nat /\ (LOW * MID) * HIGH > 0
  BY <1>1, <1>2, SMT
<1> QED
  BY <1>1, <1>2, <1>3 DEF W

\* The base put together from its three fields is the base that was cut.
LEMMA BaseKept ==
  ASSUME RadixAssumption, NEW r \in Requests
  PROVE  Base(initialize_segment_descriptor(r)) = r.base
<1> DEFINE b == r.base
           q1 == b \div LOW
           q2 == b \div (LOW * MID)
           r1 == b % LOW
           rest == b % (LOW * MID)
           r2 == q1 % MID
           q3 == q1 \div MID
<1>1. /\ LOW \in Nat /\ LOW > 0 /\ MID \in Nat /\ MID > 0 /\ HIGH \in Nat /\ HIGH > 0
      /\ LOW * MID \in Nat /\ LOW * MID > 0 /\ W = (LOW * MID) * HIGH /\ W \in Nat
  BY Radix
<1>2. b \in 0 .. (LOW * MID) * HIGH - 1 /\ b \in Int
  <2>1. b \in 0 .. W - 1
    BY DEF Requests
  <2> QED
    BY <1>1, <2>1, SMT
<1>3. q1 \in Int /\ r1 \in 0 .. LOW - 1 /\ b = LOW * q1 + r1
  BY <1>1, <1>2, DivMod
<1>4. q3 \in Int /\ r2 \in 0 .. MID - 1 /\ q1 = MID * q3 + r2
  BY <1>1, <1>3, DivMod
<1>5. q2 = q3
  <2> DEFINE low == LOW * r2 + r1
  <2>1. low \in 0 .. LOW * MID - 1
    <3>1. LOW * r2 <= LOW * (MID - 1) /\ LOW * r2 >= LOW * 0 /\ LOW * r2 \in Int
      <4>1. r2 \in Int /\ MID - 1 \in Int /\ r2 <= MID - 1 /\ 0 <= r2
        BY <1>1, <1>4, SMT
      <4> HIDE DEF r2
      <4> QED
        BY <1>1, <4>1, TimesMonotone
    <3>2. LOW * (MID - 1) = LOW * MID - LOW
      BY <1>1, SMT
    <3> QED
      BY <1>1, <1>3, <3>1, <3>2, SMT
  <2>2. b = (LOW * MID) * q3 + low
    <3>1. LOW * (MID * q3 + r2) = (LOW * MID) * q3 + LOW * r2
      BY <1>1, <1>4, SMT
    <3>2. (LOW * MID) * q3 \in Int /\ LOW * r2 \in Int
      BY <1>1, <1>4, SMT
    <3> QED
      BY <1>3, <1>4, <3>1, <3>2, SMT
  <2> HIDE DEF low, q3
  <2> QED
    BY <1>1, <1>4, <2>1, <2>2, Quotient
<1>6. q2 \in 0 .. HIGH - 1
  BY <1>1, <1>2, QuotientBelow
<1>7. q2 % HIGH = q2
  <2>1. q2 = HIGH * 0 + q2
    BY <1>1, <1>6, SMT
  <2> HIDE DEF q2
  <2> QED
    BY <1>1, <1>6, <2>1, Quotient
<1>8. Base(initialize_segment_descriptor(r)) = (q2 % HIGH) * (LOW * MID) + r2 * LOW + r1
  BY DEF Base, initialize_segment_descriptor
<1> HIDE DEF q1, q2, r1, r2, q3, b
<1>9. q2 * (LOW * MID) + r2 * LOW + r1 = b
  <2>1. LOW * (MID * q2 + r2) = q2 * (LOW * MID) + r2 * LOW
    BY <1>1, <1>4, <1>5, SMT
  <2> QED
    BY <1>3, <1>4, <1>5, <2>1, SMT
<1> QED
  BY <1>7, <1>8, <1>9 DEF b

\* So is the limit.
LEMMA LimitKept ==
  ASSUME RadixAssumption, NEW r \in Requests
  PROVE  Limit(initialize_segment_descriptor(r)) = r.limit
<1> DEFINE l == r.limit
           q == l \div LOW
           d == l % LOW
<1>1. LOW \in Nat /\ LOW > 0 /\ LIM \in Nat /\ LIM > 0
  BY Radix
<1>2. l \in 0 .. LOW * LIM - 1 /\ l \in Int
  <2>1. l \in 0 .. LOW * LIM - 1
    BY DEF Requests
  <2> QED
    BY <1>1, <2>1, SMT
<1>3. q \in Int /\ d \in 0 .. LOW - 1 /\ l = LOW * q + d
  BY <1>1, <1>2, DivMod
<1>4. q \in 0 .. LIM - 1
  BY <1>1, <1>2, QuotientBelow
<1>5. q % LIM = q
  <2>1. q = LIM * 0 + q
    BY <1>1, <1>4, SMT
  <2> HIDE DEF q
  <2> QED
    BY <1>1, <1>4, <2>1, Quotient
<1>6. Limit(initialize_segment_descriptor(r)) = (q % LIM) * LOW + d
  BY DEF Limit, initialize_segment_descriptor
<1> HIDE DEF q, d, l
<1>7. q * LOW = LOW * q
  BY <1>1, <1>3, SMT
<1> QED
  BY <1>3, <1>5, <1>6, <1>7 DEF l

\* The last byte printed is the one before the first that the segment leaves out.
LEMMA EndKept ==
  ASSUME RadixAssumption, NEW r \in Requests
  PROVE  LET d == initialize_segment_descriptor(r)
         IN  (End(d) + 1) % W = (r.base + (r.limit + 1) * (IF r.g = 1 THEN PAGE ELSE 1)) % W
<1> DEFINE d == initialize_segment_descriptor(r)
<1>1. Base(d) = r.base /\ Limit(d) = r.limit /\ d.g = r.g
  BY BaseKept, LimitKept DEF initialize_segment_descriptor
<1> HIDE DEF d
<1>2. r.base \in Int /\ r.limit \in Int /\ W \in Nat /\ W > 0 /\ PAGE \in Nat
  <2>1. r.base \in 0 .. W - 1 /\ r.limit \in 0 .. LOW * LIM - 1
    BY DEF Requests
  <2>2. W \in Nat /\ W > 0 /\ PAGE \in Nat /\ LOW \in Nat /\ LIM \in Nat
    BY Radix
  <2>3. LOW * LIM \in Int
    BY <2>2, SMT
  <2> QED
    BY <2>1, <2>2, <2>3, SMT
<1>3. CASE r.g = 1
  <2> DEFINE x == r.base + r.limit * PAGE + (PAGE - 1)
  <2>1. x \in Int /\ x + 1 = r.base + (r.limit + 1) * PAGE
    <3>1. (r.limit + 1) * PAGE = r.limit * PAGE + PAGE /\ r.limit * PAGE \in Int
      BY <1>2, SMT
    <3> DEFINE area == r.limit * PAGE
    <3>2. area \in Int /\ (r.limit + 1) * PAGE = area + PAGE
      BY <3>1
    <3>3. x = r.base + area + (PAGE - 1)
      OBVIOUS
    <3> HIDE DEF area, x
    <3> QED
      BY <1>2, <3>2, <3>3, SMT
  <2>2. End(d) = x % W
    BY <1>1, <1>3 DEF End
  <2> HIDE DEF x
  <2>3. (End(d) + 1) % W = (x + 1) % W
    BY <1>2, <2>1, <2>2, ModSuccessor
  <2> QED
    BY <1>3, <2>1, <2>3 DEF d
<1>4. CASE r.g # 1
  <2> DEFINE x == r.base + r.limit
  <2>1. x \in Int /\ x + 1 = r.base + (r.limit + 1) * 1
    BY <1>2, SMT
  <2>2. End(d) = x % W
    BY <1>1, <1>4 DEF End
  <2> HIDE DEF x
  <2>3. (End(d) + 1) % W = (x + 1) % W
    BY <1>2, <2>1, <2>2, ModSuccessor
  <2> QED
    BY <1>4, <2>1, <2>3 DEF d
<1> QED
  BY <1>3, <1>4

-----------------------------------------------------------------------------
(* The names of the types *)

\* The bits that display_type tests are those segmem.h's values have.
LEMMA TypeBits ==
  ASSUME NEW t \in 0 .. 15
  PROVE  /\ Bit(t, 8) <=> t \in 8 .. 15
         /\ Bit(t, 4) <=> t \in DATA_E \cup CODE_C
         /\ Bit(t, 2) <=> t \in DATA_W \cup CODE_R
         /\ Bit(t, 1) <=> t % 2 = 1
<1>1. t \in {0, 1, 2, 3, 4, 5, 6, 7, 8, 9, 10, 11, 12, 13, 14, 15}
  BY SMT
<1>2. /\ Bit(t, 8) <=> t \in 8 .. 15
      /\ Bit(t, 1) <=> t % 2 = 1
  BY SMT DEF Bit
<1>3. Bit(t, 4) <=> t \in {4, 5, 6, 7, 12, 13, 14, 15}
  BY <1>1, SMT DEF Bit
<1>4. Bit(t, 2) <=> t \in {2, 3, 6, 7, 10, 11, 14, 15}
  BY <1>1, SMT DEF Bit
<1>5. t \in DATA_E \cup CODE_C <=> t \in {4, 5, 6, 7, 12, 13, 14, 15}
  BY <1>1, SMT DEF DATA_E, CODE_C
<1>6. t \in DATA_W \cup CODE_R <=> t \in {2, 3, 6, 7, 10, 11, 14, 15}
  BY DEF DATA_W, CODE_R
<1> QED
  BY <1>2, <1>3, <1>4, <1>5, <1>6

\* The two lists of names agree.
LEMMA SystemTypes ==
  ASSUME NEW t \in DOMAIN SEG_DESC_SYS
  PROVE  SystemName[t] = SEG_DESC_SYS[t]
<1>1. t \in {1, 2, 3, 4, 5, 6, 7, 9, 11, 12, 14, 15}
  BY DEF SEG_DESC_SYS
<1> DEFINE names == << "TSS available 16", "LDT", "TSS busy 16", "call gate 16", "task gate",
                       "interrupt gate 16", "trap gate 16", "", "TSS available 32", "",
                       "TSS busy 32", "call gate 32", "", "interrupt gate 32", "trap gate 32" >>
           all == << "reserved", "TSS available 16", "LDT", "TSS busy 16", "call gate 16",
                     "task gate", "interrupt gate 16", "trap gate 16", "reserved",
                     "TSS available 32", "reserved", "TSS busy 32", "call gate 32", "reserved",
                     "interrupt gate 32", "trap gate 32" >>
<1>2. SEG_DESC_SYS[t] = names[t]
  BY <1>1, Zenon DEF SEG_DESC_SYS
<1>3. SystemName[t] = all[t + 1]
  <2>1. t \in 0 .. 15
    BY <1>1, SMT
  <2> QED
    BY <2>1, Zenon DEF SystemName
<1>4. all[t + 1] = names[t]
  <2>1. /\ all[2] = names[1] /\ all[3] = names[2] /\ all[4] = names[3] /\ all[5] = names[4]
        /\ all[6] = names[5] /\ all[7] = names[6] /\ all[8] = names[7] /\ all[10] = names[9]
        /\ all[12] = names[11] /\ all[13] = names[12] /\ all[15] = names[14]
        /\ all[16] = names[15]
    OBVIOUS
  <2> HIDE DEF names, all
  <2> QED
    BY <1>1, <2>1, SMT
<1> QED
  BY <1>2, <1>3, <1>4

-----------------------------------------------------------------------------
(* The loop *)

\* The line of an entry
Line(k) == [i |-> k, start |-> Base(gdt[k]), end |-> End(gdt[k]),
            type |-> display_type(gdt[k]), priv |-> gdt[k].dpl]

Size == Cardinality(DOMAIN asked)

\* The lines are those of the entries before gdt_ptr, and gdt_ptr does not pass the end.
GdtInv ==
    /\ asked \in Tables
    /\ gdt = [k \in DOMAIN asked |-> initialize_segment_descriptor(asked[k])]
    /\ limit = SizeofDesc * Size - 1
    /\ i \in 0 .. Size
    /\ printed \in Seq({Line(k) : k \in DOMAIN asked})
    /\ Len(printed) = i
    /\ \A k \in 1 .. i : printed[k] = Line(k - 1)

LEMMA TableSize ==
  ASSUME TablesAssumption, asked \in Tables
  PROVE  Size \in Nat /\ DOMAIN asked = 0 .. Size - 1 /\ \A k \in 0 .. Size - 1 : asked[k] \in Requests
  BY DEF TablesAssumption, Size

LEMMA GdtInvInit ==
  ASSUME TablesAssumption, Init
  PROVE  GdtInv
<1>1. Size \in Nat
  BY TableSize DEF Init
<1> QED
  BY <1>1, SMT DEF Init, GdtInv, Size

LEMMA GdtInvNext ==
  ASSUME TablesAssumption, GdtInv, [Next]_vars
  PROVE  GdtInv'
<1>1. CASE UNCHANGED vars
  BY <1>1 DEF vars, GdtInv, Size, Line
<1>2. CASE PrintEntry
  <2>1. /\ Size \in Nat /\ DOMAIN asked = 0 .. Size - 1 /\ i \in 0 .. Size /\ limit = 8 * Size - 1
    BY TableSize DEF GdtInv, SizeofDesc
  <2>2. 8 * i < limit
    BY <1>2 DEF PrintEntry, More, SizeofDesc
  <2>3. i \in 0 .. Size - 1 /\ i' = i + 1 /\ i' \in 0 .. Size
    BY <1>2, <2>1, <2>2, SMT DEF PrintEntry
  <2>4. asked' = asked /\ gdt' = gdt /\ limit' = limit
    BY <1>2 DEF PrintEntry
  <2>5. Size' = Size /\ \A k : Line(k)' = Line(k)
    BY <2>4 DEF Size, Line
  <2> DEFINE Lines == {Line(k) : k \in DOMAIN asked}
  <2>6. printed \in Seq(Lines) /\ Len(printed) = i /\ \A k \in 1 .. i : printed[k] = Line(k - 1)
    BY DEF GdtInv
  <2>7. printed' = Append(printed, Line(i)) /\ Line(i) \in Lines
    BY <1>2, <2>1, <2>3 DEF PrintEntry, Line
  <2> HIDE DEF Lines
  <2>8. /\ printed' \in Seq(Lines) /\ Len(printed') = i + 1
        /\ \A k \in 1 .. i : printed'[k] = printed[k]
        /\ printed'[i + 1] = Line(i)
    BY <2>6, <2>7, AppendProperties
  <2>9. \A k \in 1 .. i' : printed'[k] = Line(k - 1)
    <3> SUFFICES ASSUME NEW k \in 1 .. i' PROVE printed'[k] = Line(k - 1)
      OBVIOUS
    <3>1. CASE k \in 1 .. i
      BY <3>1, <2>6, <2>8
    <3>2. CASE k = i + 1
      <4>1. k - 1 = i
        BY <3>2, <2>3, SMT
      <4> QED
        BY <3>2, <4>1, <2>8
    <3> QED
      BY <3>1, <3>2, <2>3, SMT
  <2>10. {Line(k)' : k \in DOMAIN asked'} = Lines
    BY <2>4, <2>5 DEF Lines
  <2> QED
    BY <2>3, <2>4, <2>5, <2>8, <2>9, <2>10 DEF GdtInv
<1> QED
  BY <1>1, <1>2 DEF Next

\* A line says what was asked of its entry.
LEMMA LineExact ==
  ASSUME RadixAssumption, TablesAssumption, GdtInv
  PROVE  LinesExact
<1> SUFFICES ASSUME NEW k \in 1 .. Len(printed)
             PROVE  LET l == printed[k]
                        r == asked[l.i]
                    IN  /\ l.start = r.base /\ l.priv = r.dpl
                        /\ (l.end + 1) % W = (r.base + (r.limit + 1) * (IF r.g = 1 THEN PAGE ELSE 1)) % W
                        /\ IF r.s = 1
                           THEN l.type = [code |-> r.type \in 8 .. 15,
                                          special |-> r.type \in DATA_E \cup CODE_C,
                                          rw |-> r.type \in DATA_W \cup CODE_R,
                                          accessed |-> r.type % 2 = 1]
                           ELSE r.type \in DOMAIN SEG_DESC_SYS => l.type.system = SEG_DESC_SYS[r.type]
  BY DEF LinesExact
<1> DEFINE r == asked[k - 1]
           d == initialize_segment_descriptor(r)
<1>1. k - 1 \in 0 .. Size - 1 /\ k \in 1 .. i
  <2>1. Size \in Nat /\ i \in 0 .. Size /\ Len(printed) = i
    BY TableSize DEF GdtInv
  <2> QED
    BY <2>1, SMT
<1>2. r \in Requests /\ gdt[k - 1] = d
  BY <1>1, TableSize DEF GdtInv
<1>3. printed[k] = Line(k - 1)
  BY <1>1 DEF GdtInv
<1>4. /\ printed[k].i = k - 1 /\ printed[k].start = Base(d) /\ printed[k].end = End(d)
      /\ printed[k].type = display_type(d) /\ printed[k].priv = d.dpl
  BY <1>2, <1>3, SMT DEF Line
<1>5. d.s = r.s /\ d.type = r.type /\ d.dpl = r.dpl
  BY DEF initialize_segment_descriptor
<1>6. Base(d) = r.base
  BY <1>2, BaseKept
<1>7. (End(d) + 1) % W = (r.base + (r.limit + 1) * (IF r.g = 1 THEN PAGE ELSE 1)) % W
  BY <1>2, EndKept
<1>8. r.type \in 0 .. 15 /\ r.s \in {0, 1}
  BY <1>2 DEF Requests
<1> HIDE DEF d, r
<1>9. IF r.s = 1
      THEN display_type(d) = [code |-> r.type \in 8 .. 15,
                              special |-> r.type \in DATA_E \cup CODE_C,
                              rw |-> r.type \in DATA_W \cup CODE_R,
                              accessed |-> r.type % 2 = 1]
      ELSE r.type \in DOMAIN SEG_DESC_SYS => display_type(d).system = SEG_DESC_SYS[r.type]
  <2>1. CASE r.s = 1
    <3>1. display_type(d) = [code |-> Bit(r.type, 8), special |-> Bit(r.type, 4),
                             rw |-> Bit(r.type, 2), accessed |-> Bit(r.type, 1)]
      BY <1>5, <2>1, SMT DEF display_type
    <3>2. /\ Bit(r.type, 8) = (r.type \in 8 .. 15)
          /\ Bit(r.type, 4) = (r.type \in DATA_E \cup CODE_C)
          /\ Bit(r.type, 2) = (r.type \in DATA_W \cup CODE_R)
          /\ Bit(r.type, 1) = (r.type % 2 = 1)
      <4> DEFINE t == r.type
      <4>1. /\ Bit(t, 8) <=> t \in 8 .. 15
            /\ Bit(t, 4) <=> t \in DATA_E \cup CODE_C
            /\ Bit(t, 2) <=> t \in DATA_W \cup CODE_R
            /\ Bit(t, 1) <=> t % 2 = 1
        BY <1>8, TypeBits
      <4> HIDE DEF t
      <4>2. /\ Bit(t, 8) = (t \in 8 .. 15)
            /\ Bit(t, 4) = (t \in DATA_E \cup CODE_C)
            /\ Bit(t, 2) = (t \in DATA_W \cup CODE_R)
            /\ Bit(t, 1) = (t % 2 = 1)
        BY <4>1, SMT DEF Bit
      <4> QED
        BY <4>2 DEF t
    <3> QED
      BY <2>1, <3>1, <3>2
  <2>2. CASE r.s # 1
    <3>1. display_type(d) = [system |-> SystemName[r.type]]
      BY <1>5, <1>8, <2>2, SMT DEF display_type
    <3>2. r.type \in DOMAIN SEG_DESC_SYS => SystemName[r.type] = SEG_DESC_SYS[r.type]
      BY SystemTypes
    <3> QED
      BY <2>2, <3>1, <3>2
  <2> QED
    BY <2>1, <2>2
<1> QED
  BY <1>4, <1>5, <1>6, <1>7, <1>9, Zenon DEF r

\* The loop ends behind the last entry, although the bound it compares with is the
\* table's last byte.
LEMMA WholeAtEnd ==
  ASSUME TablesAssumption, GdtInv, ~More
  PROVE  WholeTable
<1>1. Size \in Nat /\ i \in 0 .. Size /\ limit = 8 * Size - 1 /\ ~(8 * i < limit)
  BY TableSize DEF GdtInv, More, SizeofDesc
<1>2. i = Size
  BY <1>1, SMT
<1>3. Len(printed) = Size /\ \A k \in 1 .. Size : printed[k].i = k - 1
  <2>1. Len(printed) = Size /\ \A k \in 1 .. Size : printed[k] = Line(k - 1)
    BY <1>2, Zenon DEF GdtInv
  <2>2. ASSUME NEW k PROVE Line(k).i = k
    BY DEF Line
  <2> QED
    BY <2>1, <2>2
<1> QED
  BY <1>3, Zenon DEF WholeTable, Size

THEOREM GdtInvariant ==
  ASSUME TablesAssumption
  PROVE  Spec => []GdtInv
<1>1. Init => GdtInv
  BY GdtInvInit
<1>2. GdtInv /\ [Next]_vars => GdtInv'
  BY GdtInvNext
<1> QED
  BY <1>1, <1>2, PTL DEF Spec

\* print_gdt_content prints of each entry the base, the last byte, the ring and the
\* kind of segment that initialize_segment_descriptor was asked for.
THEOREM GdtLinesExact ==
  ASSUME RadixAssumption, TablesAssumption
  PROVE  Spec => []LinesExact
<1>1. GdtInv => LinesExact
  BY LineExact
<1> QED
  BY <1>1, GdtInvariant, PTL

\* When it has no more to print it has printed the whole table, each entry once and in
\* order, and nothing behind it.
THEOREM GdtWholeTable ==
  ASSUME TablesAssumption
  PROVE  Spec => [](~More => WholeTable)
<1>1. GdtInv => (~More => WholeTable)
  BY WholeAtEnd
<1> QED
  BY <1>1, GdtInvariant, PTL
=============================================================================
