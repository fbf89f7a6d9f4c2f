----------------------------- MODULE SetupProof -----------------------------
(***************************************************************************)
(* What is set up, for every memory and every call of the string           *)
(* functions, whatever the chips held, and whenever bytes arrive, devices  *)
(* call and NMIs come.                                                     *)
(***************************************************************************)
EXTENDS Setup, SequenceTheorems, FiniteSetTheorems, TLAPS

-----------------------------------------------------------------------------
(* memset, memcpy, strchr and strlen: the invariant relates edi, esi and ecx at each
   repetition to the bytes done so far *)

Stores == {"memset", "memcpy"}
Searches == {"strchr", "strlen"}

Types ==
    /\ call \in Call /\ Fits(call)
    /\ df \in {0, 1} /\ flags \in {0, 1} /\ caller \in {0, 1}
    /\ edi \in Int /\ esi \in Int /\ ecx \in Int
    /\ found \in Int
    /\ call.op \in Searches => pc \in {"split", "scan", "done"}
    /\ call.op \notin Searches => pc \in {"split", "words", "after", "bytes", "done"}

\* The direction flag is the caller's, or cleared and the caller's saved
Flag ==
    IF pc \in {"words", "bytes", "scan"} THEN df = 0 /\ flags = caller ELSE df = caller

\* How far memset and memcpy are
Progress ==
    /\ pc = "split" => edi = call.dst
    /\ pc = "words" => ecx \in 0 .. Words /\ edi = call.dst + LONG * (Words - ecx)
    /\ pc = "after" => edi = call.dst + LONG * Words
    /\ pc = "bytes" => ecx \in 0 .. Rest /\ edi = call.dst + call.size - ecx
    /\ pc = "done" => edi = call.dst + call.size

\* memcpy reads as far on as it writes
Source ==
    /\ pc \in {"split", "words", "after", "bytes"} => esi = call.src + (edi - call.dst)

Apart == call.dst <= call.src \/ call.src + call.size <= call.dst

Done(a) == call.dst <= a /\ a < edi

Written ==
    /\ \A a \in Addr : ~Done(a) => mem[a] = old[a]
    /\ call.op = "memset" => \A a \in Addr : Done(a) => mem[a] = call.c
    /\ call.op = "memcpy" /\ Apart =>
            \A a \in Addr : Done(a) => mem[a] = old[call.src + (a - call.dst)]

\* Every byte scanned but the last is another one, and the last is c if zf says so
Scanned ==
    /\ mem = old
    /\ pc = "split" => edi = call.dst /\ ~zf
    /\ edi >= call.dst
    /\ \A a \in call.dst .. edi - 2 : mem[a] # call.c
    /\ IF zf THEN edi > call.dst /\ mem[edi - 1] = call.c
       ELSE \A a \in call.dst .. edi - 1 : mem[a] # call.c
    /\ pc = "scan" /\ call.op = "strchr" => ecx = call.size - (edi - call.dst) /\ ecx >= 0
    /\ pc = "scan" /\ call.op = "strlen" => ecx < 0
    /\ pc = "done" /\ call.op = "strlen" => zf /\ found = (edi - 1) - call.dst
    /\ pc = "done" /\ call.op = "strchr" =>
            IF found = -1 THEN edi = call.dst + call.size ELSE zf /\ found = edi - 1

StringsInv ==
    /\ Types /\ Flag
    /\ call.op \in Stores => Progress /\ Written
    /\ call.op = "memcpy" => Source
    /\ call.op \in Searches => Scanned

-----------------------------------------------------------------------------
(* Arithmetic of words *)

\* A size is its words and the rest, of less than a word.
LEMMA Divrm ==
  ASSUME NEW n \in Nat
  PROVE  /\ n \div 4 \in Nat /\ n % 4 \in 0 .. 3
         /\ n = 4 * (n \div 4) + (n % 4)
  BY SMT

\* Words and Rest of the call.
LEMMA Split4 ==
  ASSUME call \in Call
  PROVE  /\ Words \in Nat /\ Rest \in Nat
         /\ call.op \in Stores => call.size = LONG * Words + Rest
  BY Divrm, SMT DEF Call, Words, Rest, LONG, Stores

-----------------------------------------------------------------------------
(* Each step keeps StringsInv *)

\* The call begins.
LEMMA InvInit == Init => StringsInv
<1> SUFFICES ASSUME Init PROVE StringsInv
  OBVIOUS
<1>1. PICK b \in Boots : mem = b.mem /\ old = b.mem /\ call = b.call
  BY DEF Init
<1>2. call \in Call /\ Fits(call)
  BY <1>1, BootsAssumption, FitsAssumption
<1>3. Types
  BY <1>2, SMT DEF Init, Types, Call, Searches
<1>4. Flag
  BY DEF Init, Flag
<1>5. ~zf /\ mem = old /\ edi = call.dst /\ esi = call.src /\ pc = "split"
  BY <1>1, Zenon DEF Init
<1>6. call.dst \in Nat /\ call.src \in Nat
  BY <1>2 DEF Call
<1>7. Progress /\ Source
  BY <1>5, <1>6, SMT DEF Progress, Source
<1>9. \A a \in Addr : ~Done(a)
  BY <1>5, <1>6, AddrAssumption, SMT DEF Done
<1>10. Written
  BY <1>5, <1>9, Zenon DEF Written
<1>8. Scanned
  BY <1>5, <1>6, SMT DEF Scanned
<1> QED
  BY <1>3, <1>4, <1>7, <1>8, <1>10 DEF StringsInv

\* A repetition begins or ends, and the flags with it.
LEMMA InvFlags ==
  ASSUME Types, Flag, Next
  PROVE  Types' /\ Flag'
<1> USE DEF Types, Flag, Rep, EndRep
<1>0. call' = call /\ caller' = caller /\ Words \in Nat /\ Rest \in Nat
  BY Split4 DEF Next, Split, StoreWord, StoreByte, Store, EndWords, After, EndBytes, StartScan,
     ScanByte, EndScan
<1>1. CASE Split
  BY <1>0, <1>1, SMT DEF Split, Searches
<1>2. CASE StoreWord \/ StoreByte
  BY <1>0, <1>2, SMT DEF StoreWord, StoreByte, Store, Step, LONG, Searches
<1>3. CASE EndWords \/ EndBytes
  BY <1>0, <1>3, SMT DEF EndWords, EndBytes, Searches
<1>4. CASE After
  BY <1>0, <1>4, SMT DEF After, Searches, LONG, Call
<1>5. CASE StartScan
  BY <1>0, <1>5, SMT DEF StartScan, Searches, Call
<1>6. CASE ScanByte
  BY <1>0, <1>6, SMT DEF ScanByte, Searches, Step
<1>7. CASE EndScan
  BY <1>0, <1>7, SMT DEF EndScan, Searches, Call
<1> QED
  BY <1>1, <1>2, <1>3, <1>4, <1>5, <1>6, <1>7 DEF Next

\* A store of w bytes, all of them still to be done, moves the bytes done up by w.
LEMMA InvStore ==
  ASSUME Types, Written, call.op \in Stores, call.op = "memcpy" => Source,
         pc \in {"words", "bytes"}, df = 0, NEW w \in 1 .. 4, Store(w),
         edi >= call.dst, edi + w <= call.dst + call.size
  PROVE  /\ edi' = edi + w /\ ecx' = ecx - 1 /\ call' = call /\ pc' = pc
         /\ Written'
         /\ call.op = "memcpy" => Source'
<1>1. /\ edi' = edi + w /\ ecx' = ecx - 1 /\ call' = call /\ pc' = pc /\ old' = old
      /\ esi' = IF call.op = "memcpy" THEN esi + w ELSE esi
      /\ mem' = [a \in Addr |->
                    IF a \in edi .. edi + w - 1
                    THEN IF call.op = "memcpy" THEN mem[esi + (a - edi)] ELSE call.c
                    ELSE mem[a]]
  BY DEF Store, Step
<1>2. /\ edi \in Int /\ esi \in Int /\ call.dst \in Nat /\ call.src \in Nat
      /\ call.size \in Nat /\ Addr \subseteq Nat
  BY AddrAssumption DEF Types, Call
<1>3. call.op = "memcpy" => Source'
  BY <1>1, <1>2, SMT DEF Source
<1>4. ASSUME NEW a \in Addr, ~Done(a)' PROVE mem'[a] = old'[a]
  BY <1>1, <1>2, <1>4, SMT DEF Done, Written
<1>5. ASSUME NEW a \in Addr, Done(a)', call.op = "memset" PROVE mem'[a] = call'.c
  BY <1>1, <1>2, <1>5, SMT DEF Done, Written
<1>6. ASSUME NEW a \in Addr, Done(a)', call.op = "memcpy", Apart
      PROVE  mem'[a] = old'[call'.src + (a - call'.dst)]
  <2> DEFINE s == call.src + (a - call.dst)
  <2>1. CASE a < edi
    BY <1>1, <1>2, <1>6, <2>1, SMT DEF Done, Written
  <2>2. CASE a >= edi
    <3>0. esi = call.src + (edi - call.dst)
      BY <1>6, Zenon DEF Source
    <3>1. a \in edi .. edi + w - 1 /\ esi + (a - edi) = s
      <4>1. a < edi + w /\ a \in Int
        BY <1>1, <1>2, <1>6, SMT DEF Done
      <4> QED
        BY <1>2, <2>2, <3>0, <4>1, SMT
    <3>2. mem'[a] = mem[s]
      BY <1>1, <1>6, <3>1
    <3>3. s \in Addr
      BY <1>2, <1>6, <3>1, SMT DEF Types, Fits
    <3>4. ~Done(s)
      <4> HIDE DEF s
      <4>1. s \in Int /\ s - call.src = a - call.dst
        BY <1>2, SMT DEF s
      <4>2. a \in Int /\ edi <= a /\ a < call.dst + call.size
        BY <1>2, <3>1, SMT
      <4>3. CASE call.dst <= call.src
        BY <1>2, <4>1, <4>2, <4>3, SMT DEF Done
      <4>4. CASE call.src + call.size <= call.dst
        BY <1>2, <4>1, <4>2, <4>4, SMT DEF Done
      <4> QED
        BY <1>6, <4>3, <4>4 DEF Apart
    <3> QED
      BY <1>1, <3>2, <3>3, <3>4 DEF Written
  <2> QED
    BY <1>2, <2>1, <2>2, SMT
<1>7. Apart' = Apart
  BY <1>1 DEF Apart
<1> QED
  BY <1>1, <1>3, <1>4, <1>5, <1>6, <1>7 DEF Written

\* The steps of memset and memcpy.
LEMMA InvStores ==
  ASSUME Types, Flag, Next, call.op \in Stores, Progress, Written,
         call.op = "memcpy" => Source
  PROVE  Progress' /\ Written' /\ (call'.op = "memcpy" => Source')
<1>1. /\ Words \in Nat /\ Rest \in Nat /\ call.size = LONG * Words + Rest
      /\ call.dst \in Nat /\ call.src \in Nat /\ call.size \in Nat
      /\ edi \in Int /\ esi \in Int /\ ecx \in Int
  BY Split4 DEF Types, Call
<1>2. call.op \notin {"strchr", "strlen"}
  BY DEF Stores
<1>3. call' = call => Words' = Words /\ Rest' = Rest
  BY DEF Words, Rest
<1>4. call' = call /\ mem' = mem /\ old' = old /\ edi' = edi => Written'
  <2> SUFFICES ASSUME call' = call, mem' = mem, old' = old, edi' = edi PROVE Written'
    OBVIOUS
  <2>1. Apart' = Apart /\ \A a : Done(a)' = Done(a)
    BY DEF Apart, Done
  <2> QED
    BY <2>1 DEF Written
<1>5. CASE Split
  <2>1. /\ call' = call /\ mem' = mem /\ old' = old /\ edi' = edi /\ esi' = esi
        /\ pc = "split"
    BY <1>5 DEF Split
  <2>2. \/ Words > 0 /\ ecx' = Words /\ pc' = "words"
        \/ Words = 0 /\ Rest > 0 /\ ecx' = Rest /\ pc' = "bytes"
        \/ Words = 0 /\ Rest = 0 /\ pc' = "done"
    BY <1>1, <1>5, SMT DEF Split, Rep
  <2>3. Progress'
    BY <1>1, <1>3, <2>1, <2>2, SMT DEF Progress, LONG
  <2>4. call'.op = "memcpy" => Source'
    BY <1>1, <2>1, <2>2, SMT DEF Source
  <2> QED
    BY <1>4, <2>1, <2>3, <2>4
<1>6. CASE StoreWord
  <2>1. pc = "words" /\ Store(4) /\ ecx > 0 /\ ecx \in 0 .. Words /\ df = 0
        /\ edi = call.dst + LONG * (Words - ecx)
    BY <1>6, SMT DEF StoreWord, Store, Progress, Flag, LONG
  <2>2. edi >= call.dst /\ edi + 4 <= call.dst + call.size
    BY <1>1, <2>1, SMT DEF LONG
  <2>3. /\ edi' = edi + 4 /\ ecx' = ecx - 1 /\ call' = call /\ pc' = pc
        /\ Written' /\ (call.op = "memcpy" => Source')
    BY <2>1, <2>2, InvStore
  <2>4. Progress'
    BY <1>1, <1>3, <2>1, <2>3, SMT DEF Progress, LONG
  <2> QED
    BY <2>3, <2>4
<1>7. CASE StoreByte
  <2>1. pc = "bytes" /\ Store(1) /\ ecx > 0 /\ ecx \in 0 .. Rest /\ df = 0
        /\ edi = call.dst + call.size - ecx
    BY <1>7, SMT DEF StoreByte, Store, Progress, Flag
  <2>2. edi >= call.dst /\ edi + 1 <= call.dst + call.size
    BY <1>1, <2>1, SMT DEF LONG
  <2>3. /\ edi' = edi + 1 /\ ecx' = ecx - 1 /\ call' = call /\ pc' = pc
        /\ Written' /\ (call.op = "memcpy" => Source')
    BY <2>1, <2>2, InvStore
  <2>4. Progress'
    BY <1>1, <1>3, <2>1, <2>3, SMT DEF Progress
  <2> QED
    BY <2>3, <2>4
<1>8. CASE EndWords
  <2>1. /\ call' = call /\ mem' = mem /\ old' = old /\ edi' = edi /\ esi' = esi
        /\ pc = "words" /\ ecx = 0 /\ pc' = "after"
    BY <1>8 DEF EndWords, EndRep
  <2>2. Progress'
    BY <1>1, <1>3, <2>1, SMT DEF Progress, LONG
  <2>3. call'.op = "memcpy" => Source'
    BY <2>1, SMT DEF Source
  <2> QED
    BY <1>4, <2>1, <2>2, <2>3
<1>9. CASE After
  <2>1. /\ call' = call /\ mem' = mem /\ old' = old
        /\ pc = "after" /\ edi' = call.dst + LONG * Words
        /\ esi' = IF call.op = "memcpy" THEN call.src + LONG * Words ELSE esi
    BY <1>9 DEF After
  <2>2. \/ Rest > 0 /\ ecx' = Rest /\ pc' = "bytes"
        \/ Rest = 0 /\ pc' = "done"
    BY <1>1, <1>9, SMT DEF After, Rep
  <2>3. edi' = edi
    BY <2>1 DEF Progress
  <2>4. Progress'
    BY <1>1, <1>3, <2>1, <2>2, SMT DEF Progress, LONG
  <2>5. call'.op = "memcpy" => Source'
    BY <1>1, <1>2, <2>1, <2>2, SMT DEF Source, LONG
  <2> QED
    BY <1>4, <2>1, <2>3, <2>4, <2>5
<1>10. CASE EndBytes
  <2>1. /\ call' = call /\ mem' = mem /\ old' = old /\ edi' = edi
        /\ pc = "bytes" /\ ecx = 0 /\ pc' = "done"
    BY <1>10 DEF EndBytes, EndRep
  <2>2. Progress' /\ Source'
    BY <1>1, <2>1, SMT DEF Progress, Source
  <2> QED
    BY <1>4, <2>1, <2>2
<1>11. ~(StartScan \/ ScanByte \/ EndScan)
  BY <1>2 DEF StartScan, ScanByte, EndScan, Types, Searches
<1> QED
  BY <1>5, <1>6, <1>7, <1>8, <1>9, <1>10, <1>11 DEF Next

\* The steps of strchr and strlen.
LEMMA InvScan ==
  ASSUME Types, Flag, Next, call.op \in Searches, Scanned
  PROVE  Scanned'
<1>1. /\ call.op \in {"strchr", "strlen"} /\ call.dst \in Nat /\ call.size \in Nat
      /\ edi \in Int /\ ecx \in Int
  BY DEF Types, Call, Searches
<1>2. pc \in {"split", "scan", "done"}
  BY DEF Types
<1>3. CASE StartScan
  <2>1. /\ call' = call /\ mem' = mem /\ old' = old /\ edi' = edi /\ zf' = zf
        /\ pc = "split" /\ pc' = "scan"
        /\ ecx' = IF call.op = "strchr" THEN call.size ELSE -1
    BY <1>3 DEF StartScan, Rep
  <2> QED
    BY <1>1, <2>1, SMT DEF Scanned
<1>4. CASE ScanByte
  <2>1. /\ call' = call /\ mem' = mem /\ old' = old /\ pc' = pc /\ pc = "scan"
        /\ ~zf /\ ecx # 0 /\ ecx' = ecx - 1 /\ edi' = edi + 1
        /\ zf' <=> mem[edi] = call.c
    BY <1>4 DEF ScanByte, Step, Flag
  <2>2. \A a \in call.dst .. edi' - 2 : mem[a] # call.c
    BY <1>1, <2>1, SMT DEF Scanned
  <2>3. CASE zf'
    BY <1>1, <2>1, <2>2, <2>3, SMT DEF Scanned
  <2>4. CASE ~zf'
    BY <1>1, <2>1, <2>2, <2>4, SMT DEF Scanned
  <2> QED
    BY <2>3, <2>4
<1>5. CASE EndScan
  <2>1. /\ call' = call /\ mem' = mem /\ old' = old /\ edi' = edi /\ zf' = zf
        /\ pc = "scan" /\ pc' = "done" /\ (ecx = 0 \/ zf)
        /\ found' = IF call.op = "strlen" THEN (edi - 1) - call.dst
                    ELSE IF ecx = 0 THEN -1 ELSE edi - 1
    BY <1>5 DEF EndScan, EndRep
  <2> QED
    BY <1>1, <2>1, SMT DEF Scanned
<1>6. ~(Split \/ StoreWord \/ StoreByte \/ EndWords \/ After \/ EndBytes)
  BY <1>1, <1>2 DEF Split, StoreWord, StoreByte, EndWords, After, EndBytes
<1> QED
  BY <1>3, <1>4, <1>5, <1>6 DEF Next

\* A state that stays as it is keeps the invariant.
LEMMA InvStutter == StringsInv /\ UNCHANGED vars => StringsInv'
  BY DEF StringsInv, vars, Types, Flag, Progress, Source, Written, Done, Apart, Scanned,
         Words, Rest, Fits

\* StringsInv is inductive.
THEOREM StringsInvariant == Spec => []StringsInv
<1>1. ASSUME StringsInv, Next PROVE StringsInv'
  <2>1. Types' /\ Flag'
    BY <1>1, InvFlags DEF StringsInv
  <2>2. call' = call
    BY <1>1 DEF Next, Split, StoreWord, StoreByte, Store, EndWords, After, EndBytes,
       StartScan, ScanByte, EndScan
  <2>3. call.op \in Stores => Progress' /\ Written' /\ (call'.op = "memcpy" => Source')
    BY <1>1, InvStores DEF StringsInv, Stores
  <2>4. call.op \in Searches => Scanned'
    BY <1>1, InvScan DEF StringsInv
  <2> QED
    BY <2>1, <2>2, <2>3, <2>4 DEF StringsInv, Stores
<1> QED
  BY <1>1, InvInit, InvStutter, PTL DEF Spec

-----------------------------------------------------------------------------
(* What the callers may rely on *)

\* memset and memcpy write no byte but those asked for, at no time; strchr and strlen
\* write none (string.h:50-122).
THEOREM StoresInPlace == Spec => []OutsideUntouched
<1>1. StringsInv => OutsideUntouched
  <2> SUFFICES ASSUME StringsInv PROVE OutsideUntouched
    OBVIOUS
  <2>1. call.op \in Searches => mem = old
    BY DEF StringsInv, Scanned
  <2>2. ASSUME call.op \in Stores, NEW a \in Addr \ Target PROVE mem[a] = old[a]
    <3>1. /\ Progress /\ Written /\ Words \in Nat /\ Rest \in Nat
          /\ call.size = LONG * Words + Rest
          /\ call.dst \in Nat /\ call.size \in Nat
          /\ edi \in Int /\ ecx \in Int /\ a \in Nat
          /\ pc \in {"split", "words", "after", "bytes", "done"}
      BY <2>2, Split4, AddrAssumption DEF StringsInv, Types, Call, Stores, Searches
    <3>2. edi <= call.dst + call.size
      BY <3>1, SMT DEF Progress, LONG
    <3>3. ~Done(a)
      BY <2>2, <3>1, <3>2, SMT DEF Done, Target
    <3> QED
      BY <3>1, <3>3 DEF Written
  <2> QED
    BY <2>1, <2>2 DEF OutsideUntouched, Stores, Searches
<1> QED
  BY <1>1, StringsInvariant, PTL

\* memset sets them all, from words and the bytes that remain (string.h:50-73).
THEOREM MemsetSets == Spec => []SetWhole
<1>1. StringsInv => SetWhole
  <2> SUFFICES ASSUME StringsInv, pc = "done", call.op = "memset", NEW a \in Target
               PROVE  mem[a] = call.c
    BY DEF SetWhole
  <2>1. /\ Progress /\ Written /\ a \in Addr
        /\ call.dst \in Nat /\ call.size \in Nat
    BY DEF StringsInv, Stores, Types, Call, Fits, Target
  <2>2. Done(a)
    BY <2>1, SMT DEF Progress, Done, Target
  <2> QED
    BY <2>1, <2>2 DEF Written
<1> QED
  BY <1>1, StringsInvariant, PTL

\* memcpy copies what was there, of memory that is apart or further on
\* (string.h:75-99).
THEOREM MemcpyCopies == Spec => []Copied
<1>1. StringsInv => Copied
  <2> SUFFICES ASSUME StringsInv, pc = "done", call.op = "memcpy", Apart, NEW a \in Target
               PROVE  mem[a] = old[call.src + (a - call.dst)]
    BY DEF Copied, Apart
  <2>1. /\ Progress /\ Written /\ a \in Addr
        /\ call.dst \in Nat /\ call.size \in Nat
    BY DEF StringsInv, Stores, Types, Call, Fits, Target
  <2>2. Done(a)
    BY <2>1, SMT DEF Progress, Done, Target
  <2> QED
    BY <2>1, <2>2 DEF Written
<1> QED
  BY <1>1, StringsInvariant, PTL

\* __fix_str_dir gives the caller its direction flag back (string.h:14-22).
THEOREM DirectionKept == Spec => []FlagRestored
<1>1. StringsInv => FlagRestored
  BY DEF StringsInv, Flag, FlagRestored
<1> QED
  BY <1>1, StringsInvariant, PTL

\* memset and memcpy store exactly the bytes they are asked for, for every size, place
\* and direction flag (string.h:50-99).
THEOREM StoresExactly == Spec => []StoresExact
<1>1. OutsideUntouched /\ SetWhole /\ Copied /\ FlagRestored => StoresExact
  BY DEF StoresExact
<1> QED
  BY <1>1, StoresInPlace, MemsetSets, MemcpyCopies, DirectionKept, PTL

\* strlen and strchr find the first, strchr but for the last place
\* (string.h:101-122).
THEOREM SearchesFind == Spec => []Searched
<1>1. StringsInv => Searched
  <2> SUFFICES ASSUME StringsInv, pc = "done" PROVE
        /\ call.op = "strlen" =>
                mem[call.dst + found] = 0 /\ \A i \in 0 .. found - 1 : mem[call.dst + i] # 0
        /\ call.op = "strchr" =>
                IF found = -1
                THEN \A a \in call.dst .. call.dst + call.size - 2 : mem[a] # call.c
                ELSE mem[found] = call.c /\ \A a \in call.dst .. found - 1 : mem[a] # call.c
    BY DEF Searched
  <2>1. /\ call.op \in Searches => Scanned
        /\ call.dst \in Nat /\ call.size \in Nat /\ edi \in Int
        /\ call.op = "strlen" => call.c = 0
    BY DEF StringsInv, Types, Call, Fits
  <2>2. CASE call.op = "strlen"
    <3>1. /\ zf /\ found = (edi - 1) - call.dst /\ mem[edi - 1] = 0
          /\ \A a \in call.dst .. edi - 2 : mem[a] # 0
      BY <2>1, <2>2 DEF Scanned, Searches
    <3>2. call.dst + found = edi - 1
      BY <2>1, <3>1, SMT
    <3>3. ASSUME NEW i \in 0 .. found - 1 PROVE mem[call.dst + i] # 0
      BY <2>1, <3>1, <3>3, SMT
    <3> QED
      BY <2>2, <3>1, <3>2, <3>3
  <2>3. CASE call.op = "strchr"
    <3>1. Scanned
      BY <2>1, <2>3 DEF Searches
    <3>2. \A a \in call.dst .. edi - 2 : mem[a] # call.c
      BY <3>1 DEF Scanned
    <3>3. CASE found = -1
      <4>1. edi = call.dst + call.size
        BY <2>3, <3>1, <3>3 DEF Scanned
      <4>2. \A a \in call.dst .. call.dst + call.size - 2 : mem[a] # call.c
        BY <2>1, <3>2, <4>1, SMT
      <4> QED
        BY <2>3, <3>3, <4>2
    <3>4. CASE found # -1
      <4>1. found = edi - 1 /\ mem[edi - 1] = call.c
        BY <2>3, <3>1, <3>4 DEF Scanned
      <4>2. found - 1 = edi - 2
        BY <2>1, <4>1, SMT
      <4> QED
        BY <2>3, <3>2, <3>4, <4>1, <4>2
    <3> QED
      BY <3>3, <3>4
  <2>4. CASE call.op \notin {"strlen", "strchr"}
    BY <2>4
  <2> QED
    BY <2>2, <2>3, <2>4
<1> QED
  BY <1>1, StringsInvariant, PTL

-----------------------------------------------------------------------------
(* The serial line *)

\* Increasing ranks, of bytes that have arrived
Up(s, n) == s \in Seq(1 .. n) /\ \A i, j \in 1 .. Len(s) : i < j => s[i] < s[j]

\* All of one come before all of another
Under(s, t) == \A i \in 1 .. Len(s), j \in 1 .. Len(t) : s[i] < t[j]
Below(x, s) == \A i \in 1 .. Len(s) : x < s[i]

LEMMA UpEmpty ==
  ASSUME NEW n \in Nat
  PROVE  /\ Up(<< >>, n) /\ \A s : Under(s, << >>) /\ Under(<< >>, s)
         /\ \A x : Below(x, << >>)
<1>1. << >> \in Seq(1 .. n) /\ Len(<< >>) = 0 /\ 1 .. 0 = {}
  BY SMT
<1> QED
  BY <1>1 DEF Up, Under, Below

\* What has arrived stays so.
LEMMA UpMore ==
  ASSUME NEW n \in Nat, NEW s, Up(s, n)
  PROVE  Up(s, n + 1)
<1>1. \A i \in 1 .. n : i \in 1 .. n + 1
  BY SMT
<1>2. s \in Seq(1 .. n + 1)
  BY <1>1, SMT DEF Up
<1> QED
  BY <1>2 DEF Up

\* A later byte goes at the end.
LEMMA UpAppend ==
  ASSUME NEW n \in Nat, NEW s, Up(s, n), NEW x \in 1 .. n, \A i \in 1 .. Len(s) : s[i] < x
  PROVE  /\ Up(Append(s, x), n) /\ Len(Append(s, x)) = Len(s) + 1
         /\ \A i \in 1 .. Len(s) + 1 : \/ i \in 1 .. Len(s) /\ Append(s, x)[i] = s[i]
                                       \/ i = Len(s) + 1 /\ Append(s, x)[i] = x
<1> DEFINE t == Append(s, x)
           l == Len(s)
<1>1. /\ t \in Seq(1 .. n) /\ l \in Nat /\ Len(t) = l + 1 /\ t[l + 1] = x
      /\ \A i \in 1 .. l : t[i] = s[i]
  BY SMT DEF Up
<1> HIDE DEF t, l
<1>2. \A i \in 1 .. l + 1 : i \in 1 .. l \/ i = l + 1
  BY <1>1, SMT
<1>3. ASSUME NEW i \in 1 .. l + 1, NEW j \in 1 .. l + 1, i < j
      PROVE  t[i] < t[j]
  <2>1. i \in 1 .. l
    BY <1>1, <1>3, SMT
  <2>2. CASE j = l + 1
    BY <1>1, <2>1, <2>2 DEF l
  <2>3. CASE j \in 1 .. l
    BY <1>1, <1>3, <2>1, <2>3 DEF Up, l
  <2> QED
    BY <1>2, <2>2, <2>3
<1> QED
  BY <1>1, <1>2, <1>3 DEF Up, t, l

\* The first is taken.
LEMMA UpTail ==
  ASSUME NEW n \in Nat, NEW s, Up(s, n), s # << >>
  PROVE  /\ Up(Tail(s), n) /\ 1 \in 1 .. Len(s) /\ Head(s) = s[1] /\ s[1] \in 1 .. n
         /\ Below(s[1], Tail(s))
         /\ \A i \in 1 .. Len(Tail(s)) : i + 1 \in 1 .. Len(s) /\ Tail(s)[i] = s[i + 1]
<1> DEFINE t == Tail(s)
           l == Len(s)
<1>1. /\ t \in Seq(1 .. n) /\ l \in Nat /\ l > 0 /\ Len(t) = l - 1
      /\ \A i \in 1 .. l - 1 : t[i] = s[i + 1]
  BY HeadTailProperties, EmptySeq, LenProperties DEF Up
<1>2. Head(s) = s[1]
  BY <1>1, SMT
<1> HIDE DEF t
<1>3. 1 \in 1 .. l /\ \A i \in 1 .. l - 1 : i + 1 \in 1 .. l /\ 1 < i + 1
  BY <1>1, SMT
<1>4. s[1] \in 1 .. n
  BY <1>3, ElementOfSeq DEF Up
<1>5. ASSUME NEW i \in 1 .. l - 1, NEW j \in 1 .. l - 1, i < j
      PROVE  t[i] < t[j]
  <2>1. i + 1 < j + 1
    BY <1>1, <1>5, SMT
  <2> QED
    BY <1>1, <1>3, <2>1 DEF Up
<1>6. \A i \in 1 .. l - 1 : s[1] < t[i]
  BY <1>1, <1>3 DEF Up
<1> QED
  BY <1>1, <1>2, <1>3, <1>4, <1>5, <1>6 DEF Up, Below, t

\* The writes of uart_init, one by one
LEMMA Writes ==
  /\ Len(L!uart_init) = 10
  /\ L!uart_init[1] = L!Out("LCR", 191) /\ L!uart_init[2] = L!Out("EFR", 16)
  /\ L!uart_init[3] = L!Out("FCR", v6) /\ L!uart_init[4] = L!Out("LCR", 0)
  /\ L!uart_init[5] = L!Out("EFR", 192) /\ L!uart_init[6] = L!Out("LCR", 128)
  /\ L!uart_init[7] = L!Out("DLA_LSB", 1) /\ L!uart_init[8] = L!Out("DLA_MSB", 0)
  /\ L!uart_init[9] = L!Out("LCR", 3) /\ L!uart_init[10] = L!Out("IER", 0)
<1> DEFINE A == {L!Out("LCR", 191), L!Out("EFR", 16), L!Out("FCR", v6), L!Out("LCR", 0),
                 L!Out("EFR", 192), L!Out("LCR", 128), L!Out("DLA_LSB", 1),
                 L!Out("DLA_MSB", 0), L!Out("LCR", 3), L!Out("IER", 0)}
           a == L!fifo_init
           b == L!common_init
           s == L!uart_init
<1>1. /\ a = << L!Out("LCR", 191), L!Out("EFR", 16), L!Out("FCR", v6),
                L!Out("LCR", 0), L!Out("EFR", 192) >>
      /\ b = << L!Out("LCR", 128), L!Out("DLA_LSB", 1), L!Out("DLA_MSB", 0),
                L!Out("LCR", 3), L!Out("IER", 0) >>
  <2>1. 64 + 128 = 192
    BY SMT
  <2> QED
    BY <2>1, Zenon DEF L!fifo_init, L!common_init, L!EnableEfr, L!EnableDla,
       L!EfrCtl, L!EfrAuto, L!EightBits
<1>2. s = a \o b
  BY DEF L!uart_init
<1> HIDE DEF a, b, s
<1>3. a \in Seq(A) /\ Len(a) = 5 /\ b \in Seq(A) /\ Len(b) = 5
  BY <1>1, SMT
<1>4. /\ a[1] = L!Out("LCR", 191) /\ a[2] = L!Out("EFR", 16) /\ a[3] = L!Out("FCR", v6)
      /\ a[4] = L!Out("LCR", 0) /\ a[5] = L!Out("EFR", 192)
      /\ b[1] = L!Out("LCR", 128) /\ b[2] = L!Out("DLA_LSB", 1) /\ b[3] = L!Out("DLA_MSB", 0)
      /\ b[4] = L!Out("LCR", 3) /\ b[5] = L!Out("IER", 0)
  BY <1>1, SMT
<1> HIDE DEF A
<1>5. /\ Len(s) = Len(a) + Len(b)
      /\ \A i \in 1 .. Len(a) + Len(b) : s[i] = IF i <= Len(a) THEN a[i] ELSE b[i - Len(a)]
  BY <1>2, <1>3, ConcatProperties
<1>6. Len(s) = 10 /\ \A i \in 1 .. 10 : s[i] = IF i <= 5 THEN a[i] ELSE b[i - 5]
  BY <1>3, <1>5, SMT
<1>7. /\ s[1] = a[1] /\ s[2] = a[2] /\ s[3] = a[3] /\ s[4] = a[4] /\ s[5] = a[5]
      /\ s[6] = b[1] /\ s[7] = b[2] /\ s[8] = b[3] /\ s[9] = b[4] /\ s[10] = b[5]
  BY <1>6, SMT
<1> QED
  BY <1>4, <1>6, <1>7 DEF s

\* The registers, as far as uart_init has come: the banks are selected, and what is
\* written into them is what they keep
RegInv ==
    /\ v1 \in {"16550", "16650"} /\ v6 \in FcrJunk /\ v5 = << >>
    /\ DOMAIN v2 = {"TXRX", "IER", "FCR", "LCR", "DLA_LSB", "DLA_MSB", "EFR"}
    /\ v7 \in 1 .. 11 /\ (v8 = "init" <=> v7 # 11)
    /\ v7 \in 2 .. 4 => v2.LCR = 191
    /\ v7 \in 5 .. 6 => v2.LCR = 0
    /\ v7 \in 7 .. 9 => v2.LCR = 128
    /\ v7 \in 10 .. 11 => v2.LCR = 3
    /\ v7 \in 6 .. 11 => v2.FCR = 0
    /\ v7 \in 8 .. 11 => v2.DLA_LSB = 1
    /\ v7 \in 9 .. 11 => v2.DLA_MSB = 0
    /\ v7 = 11 => v2.IER = 0

LEMMA RegInit ==
  ASSUME L!Init
  PROVE  RegInv
BY SMT DEF L!Init, RegInv

\* The register that a port means, in and out of the divisor's bank
LEMMA Banks ==
  ASSUME v1 \in {"16550", "16650"}
  PROVE  /\ L!Selected(3) = "LCR"
         /\ L!Selected(2) \in {"EFR", "FCR"} /\ (v2.LCR = 0 => L!Selected(2) = "FCR")
         /\ v2.LCR = 128 => L!Selected(0) = "DLA_LSB" /\ L!Selected(1) = "DLA_MSB"
         /\ v2.LCR = 3 => L!Selected(0) = "TXRX" /\ L!Selected(1) = "IER"
<1>1. L!Selected(3) = "LCR"
  BY SMT DEF L!Selected
<1>2. L!Selected(2) \in {"EFR", "FCR"} /\ (v2.LCR = 0 => L!Selected(2) = "FCR")
  BY SMT DEF L!Selected
<1>3. v2.LCR = 128 => L!Selected(0) = "DLA_LSB" /\ L!Selected(1) = "DLA_MSB"
  BY SMT DEF L!Selected
<1>4. v2.LCR = 3 => L!Selected(0) = "TXRX" /\ L!Selected(1) = "IER"
  BY SMT DEF L!Selected
<1> QED
  BY <1>1, <1>2, <1>3, <1>4

\* A write changes the register that is selected, and an FCR that is not enabled is 0.
LEMMA PutIn ==
  ASSUME RegInv, L!StepInit, NEW q, NEW x, L!uart_init[v7] = L!Out(q, x),
         NEW r \in DOMAIN v2, r = L!Selected(L!PortOf[q]), r # "TXRX"
  PROVE  /\ v1' = v1 /\ v6' = v6 /\ v5' = << >> /\ v7' = v7 + 1
         /\ v8' = IF v7 = 10 THEN "flush" ELSE v8
         /\ DOMAIN v2' = DOMAIN v2
         /\ v2'[r] = IF r = "FCR" /\ ~L!FcrEnabled(x) THEN 0 ELSE x
         /\ \A f \in DOMAIN v2 : f # r => v2'[f] = v2[f]
<1>1. L!Out(q, x).reg = q /\ L!Out(q, x).val = x
  BY DEF L!Out
<1>2. v2' = [v2 EXCEPT ![r] = IF r = "FCR" /\ ~L!FcrEnabled(x) THEN 0 ELSE x]
  BY <1>1 DEF L!StepInit
<1>3. v5' = v5
  BY <1>1 DEF L!StepInit
<1>4. v1' = v1 /\ v6' = v6 /\ v7' = v7 + 1 /\ v8' = IF v7 = 10 THEN "flush" ELSE v8
  BY Writes DEF L!StepInit
<1>5. v5 = << >>
  BY DEF RegInv
<1> QED
  BY <1>2, <1>3, <1>4, <1>5

LEMMA RegStep ==
  ASSUME RegInv, L!StepInit
  PROVE  RegInv'
<1>1. v8 = "init" /\ v7 \in 1 .. 10
  <2>1. v8 = "init"
    BY DEF L!StepInit
  <2>2. v7 \in 1 .. 11 /\ v7 # 11
    BY <2>1 DEF RegInv
  <2> QED
    BY <2>1, <2>2, SMT
<1>2. DOMAIN v2 = {"TXRX", "IER", "FCR", "LCR", "DLA_LSB", "DLA_MSB", "EFR"} /\ v6 \in FcrJunk
  BY DEF RegInv
<1>3. /\ L!PortOf["LCR"] = 3 /\ L!PortOf["FCR"] = 2 /\ L!PortOf["EFR"] = 2
      /\ L!PortOf["DLA_LSB"] = 0 /\ L!PortOf["DLA_MSB"] = 1 /\ L!PortOf["IER"] = 1
  BY SMT DEF L!PortOf
<1>4. ~L!FcrEnabled(16) /\ ~L!FcrEnabled(192) /\ ~L!FcrEnabled(v6)
  <2>1. v6 \in Nat /\ v6 % 2 = 0
    BY <1>2, LineAssumption DEF L!LineAssumption
  <2> QED
    BY <2>1, SMT DEF L!FcrEnabled
<1>5. CASE v7 = 1
  <2> DEFINE r == L!Selected(L!PortOf["LCR"])
  <2>1. L!uart_init[v7] = L!Out("LCR", 191)
    BY <1>5, Writes
  <2>3. r = "LCR"
    BY <1>3, Banks DEF RegInv
  <2> HIDE DEF r
  <2>4. r \in DOMAIN v2 /\ r # "TXRX"
    BY <1>2, <2>3
  <2>5. /\ v1' = v1 /\ v6' = v6 /\ v5' = << >> /\ v7' = 2
        /\ v8' = v8
        /\ DOMAIN v2' = DOMAIN v2
        /\ v2'[r] = IF r = "FCR" /\ ~L!FcrEnabled(191) THEN 0 ELSE 191
        /\ \A f \in DOMAIN v2 : f # r => v2'[f] = v2[f]
    BY <1>5, <2>1, <2>4, PutIn, SMT DEF r
  <2> QED
    BY <1>1, <1>2, <1>4, <1>5, <2>3, <2>5, SMT DEF RegInv
<1>6. CASE v7 = 2
  <2> DEFINE r == L!Selected(L!PortOf["EFR"])
  <2>1. L!uart_init[v7] = L!Out("EFR", 16)
    BY <1>6, Writes
  <2>3. r \in {"EFR", "FCR"}
    BY <1>3, Banks DEF RegInv
  <2> HIDE DEF r
  <2>4. r \in DOMAIN v2 /\ r # "TXRX"
    BY <1>2, <2>3
  <2>5. /\ v1' = v1 /\ v6' = v6 /\ v5' = << >> /\ v7' = 3
        /\ v8' = v8
        /\ DOMAIN v2' = DOMAIN v2
        /\ v2'[r] = IF r = "FCR" /\ ~L!FcrEnabled(16) THEN 0 ELSE 16
        /\ \A f \in DOMAIN v2 : f # r => v2'[f] = v2[f]
    BY <1>6, <2>1, <2>4, PutIn, SMT DEF r
  <2> QED
    BY <1>1, <1>2, <1>4, <1>6, <2>3, <2>5, SMT DEF RegInv
<1>7. CASE v7 = 3
  <2> DEFINE r == L!Selected(L!PortOf["FCR"])
  <2>1. L!uart_init[v7] = L!Out("FCR", v6)
    BY <1>7, Writes
  <2>3. r \in {"EFR", "FCR"}
    BY <1>3, Banks DEF RegInv
  <2> HIDE DEF r
  <2>4. r \in DOMAIN v2 /\ r # "TXRX"
    BY <1>2, <2>3
  <2>5. /\ v1' = v1 /\ v6' = v6 /\ v5' = << >> /\ v7' = 4
        /\ v8' = v8
        /\ DOMAIN v2' = DOMAIN v2
        /\ v2'[r] = IF r = "FCR" /\ ~L!FcrEnabled(v6) THEN 0 ELSE v6
        /\ \A f \in DOMAIN v2 : f # r => v2'[f] = v2[f]
    BY <1>7, <2>1, <2>4, PutIn, SMT DEF r
  <2> QED
    BY <1>1, <1>2, <1>4, <1>7, <2>3, <2>5, SMT DEF RegInv
<1>8. CASE v7 = 4
  <2> DEFINE r == L!Selected(L!PortOf["LCR"])
  <2>1. L!uart_init[v7] = L!Out("LCR", 0)
    BY <1>8, Writes
  <2>3. r = "LCR"
    BY <1>3, Banks DEF RegInv
  <2> HIDE DEF r
  <2>4. r \in DOMAIN v2 /\ r # "TXRX"
    BY <1>2, <2>3
  <2>5. /\ v1' = v1 /\ v6' = v6 /\ v5' = << >> /\ v7' = 5
        /\ v8' = v8
        /\ DOMAIN v2' = DOMAIN v2
        /\ v2'[r] = IF r = "FCR" /\ ~L!FcrEnabled(0) THEN 0 ELSE 0
        /\ \A f \in DOMAIN v2 : f # r => v2'[f] = v2[f]
    BY <1>8, <2>1, <2>4, PutIn, SMT DEF r
  <2> QED
    BY <1>1, <1>2, <1>4, <1>8, <2>3, <2>5, SMT DEF RegInv
<1>9. CASE v7 = 5
  <2> DEFINE r == L!Selected(L!PortOf["EFR"])
  <2>1. L!uart_init[v7] = L!Out("EFR", 192)
    BY <1>9, Writes
  <2>2. v2.LCR = 0
    BY <1>9, SMT DEF RegInv
  <2>3. r = "FCR"
    BY <1>3, <2>2, Banks DEF RegInv
  <2> HIDE DEF r
  <2>4. r \in DOMAIN v2 /\ r # "TXRX"
    BY <1>2, <2>3
  <2>5. /\ v1' = v1 /\ v6' = v6 /\ v5' = << >> /\ v7' = 6
        /\ v8' = v8
        /\ DOMAIN v2' = DOMAIN v2
        /\ v2'[r] = IF r = "FCR" /\ ~L!FcrEnabled(192) THEN 0 ELSE 192
        /\ \A f \in DOMAIN v2 : f # r => v2'[f] = v2[f]
    BY <1>9, <2>1, <2>4, PutIn, SMT DEF r
  <2> QED
    BY <1>1, <1>2, <1>4, <1>9, <2>3, <2>5, SMT DEF RegInv
<1>10. CASE v7 = 6
  <2> DEFINE r == L!Selected(L!PortOf["LCR"])
  <2>1. L!uart_init[v7] = L!Out("LCR", 128)
    BY <1>10, Writes
  <2>3. r = "LCR"
    BY <1>3, Banks DEF RegInv
  <2> HIDE DEF r
  <2>4. r \in DOMAIN v2 /\ r # "TXRX"
    BY <1>2, <2>3
  <2>5. /\ v1' = v1 /\ v6' = v6 /\ v5' = << >> /\ v7' = 7
        /\ v8' = v8
        /\ DOMAIN v2' = DOMAIN v2
        /\ v2'[r] = IF r = "FCR" /\ ~L!FcrEnabled(128) THEN 0 ELSE 128
        /\ \A f \in DOMAIN v2 : f # r => v2'[f] = v2[f]
    BY <1>10, <2>1, <2>4, PutIn, SMT DEF r
  <2> QED
    BY <1>1, <1>2, <1>4, <1>10, <2>3, <2>5, SMT DEF RegInv
<1>11. CASE v7 = 7
  <2> DEFINE r == L!Selected(L!PortOf["DLA_LSB"])
  <2>1. L!uart_init[v7] = L!Out("DLA_LSB", 1)
    BY <1>11, Writes
  <2>2. v2.LCR = 128
    BY <1>11, SMT DEF RegInv
  <2>3. r = "DLA_LSB"
    BY <1>3, <2>2, Banks DEF RegInv
  <2> HIDE DEF r
  <2>4. r \in DOMAIN v2 /\ r # "TXRX"
    BY <1>2, <2>3
  <2>5. /\ v1' = v1 /\ v6' = v6 /\ v5' = << >> /\ v7' = 8
        /\ v8' = v8
        /\ DOMAIN v2' = DOMAIN v2
        /\ v2'[r] = IF r = "FCR" /\ ~L!FcrEnabled(1) THEN 0 ELSE 1
        /\ \A f \in DOMAIN v2 : f # r => v2'[f] = v2[f]
    BY <1>11, <2>1, <2>4, PutIn, SMT DEF r
  <2> QED
    BY <1>1, <1>2, <1>4, <1>11, <2>3, <2>5, SMT DEF RegInv
<1>12. CASE v7 = 8
  <2> DEFINE r == L!Selected(L!PortOf["DLA_MSB"])
  <2>1. L!uart_init[v7] = L!Out("DLA_MSB", 0)
    BY <1>12, Writes
  <2>2. v2.LCR = 128
    BY <1>12, SMT DEF RegInv
  <2>3. r = "DLA_MSB"
    BY <1>3, <2>2, Banks DEF RegInv
  <2> HIDE DEF r
  <2>4. r \in DOMAIN v2 /\ r # "TXRX"
    BY <1>2, <2>3
  <2>5. /\ v1' = v1 /\ v6' = v6 /\ v5' = << >> /\ v7' = 9
        /\ v8' = v8
        /\ DOMAIN v2' = DOMAIN v2
        /\ v2'[r] = IF r = "FCR" /\ ~L!FcrEnabled(0) THEN 0 ELSE 0
        /\ \A f \in DOMAIN v2 : f # r => v2'[f] = v2[f]
    BY <1>12, <2>1, <2>4, PutIn, SMT DEF r
  <2> QED
    BY <1>1, <1>2, <1>4, <1>12, <2>3, <2>5, SMT DEF RegInv
<1>13. CASE v7 = 9
  <2> DEFINE r == L!Selected(L!PortOf["LCR"])
  <2>1. L!uart_init[v7] = L!Out("LCR", 3)
    BY <1>13, Writes
  <2>3. r = "LCR"
    BY <1>3, Banks DEF RegInv
  <2> HIDE DEF r
  <2>4. r \in DOMAIN v2 /\ r # "TXRX"
    BY <1>2, <2>3
  <2>5. /\ v1' = v1 /\ v6' = v6 /\ v5' = << >> /\ v7' = 10
        /\ v8' = v8
        /\ DOMAIN v2' = DOMAIN v2
        /\ v2'[r] = IF r = "FCR" /\ ~L!FcrEnabled(3) THEN 0 ELSE 3
        /\ \A f \in DOMAIN v2 : f # r => v2'[f] = v2[f]
    BY <1>13, <2>1, <2>4, PutIn, SMT DEF r
  <2> QED
    BY <1>1, <1>2, <1>4, <1>13, <2>3, <2>5, SMT DEF RegInv
<1>14. CASE v7 = 10
  <2> DEFINE r == L!Selected(L!PortOf["IER"])
  <2>1. L!uart_init[v7] = L!Out("IER", 0)
    BY <1>14, Writes
  <2>2. v2.LCR = 3
    BY <1>14, SMT DEF RegInv
  <2>3. r = "IER"
    BY <1>3, <2>2, Banks DEF RegInv
  <2> HIDE DEF r
  <2>4. r \in DOMAIN v2 /\ r # "TXRX"
    BY <1>2, <2>3
  <2>5. /\ v1' = v1 /\ v6' = v6 /\ v5' = << >> /\ v7' = 11
        /\ v8' = "flush"
        /\ DOMAIN v2' = DOMAIN v2
        /\ v2'[r] = IF r = "FCR" /\ ~L!FcrEnabled(0) THEN 0 ELSE 0
        /\ \A f \in DOMAIN v2 : f # r => v2'[f] = v2[f]
    BY <1>14, <2>1, <2>4, PutIn, SMT DEF r
  <2> QED
    BY <1>1, <1>2, <1>4, <1>14, <2>3, <2>5, SMT DEF RegInv
<1> QED
  BY <1>1, <1>5, <1>6, <1>7, <1>8, <1>9, <1>10, <1>11, <1>12, <1>13, <1>14, SMT

LEMMA RegNext ==
  ASSUME RegInv, L!Next
  PROVE  RegInv'
<1>1. CASE L!StepInit
  BY <1>1, RegStep
<1>2. CASE L!Arrive \/ L!Receive
  BY <1>2 DEF L!Arrive, L!Receive, RegInv
<1>3. CASE L!Poll \/ L!Read
  <2>1. /\ UNCHANGED <<v1, v2, v5, v6, v7>>
        /\ v8 # "init" /\ v8' # "init"
    BY <1>3 DEF L!Poll, L!Read, L!Reading
  <2> QED
    BY <2>1 DEF RegInv
<1> QED
  BY <1>1, <1>2, <1>3 DEF L!Next

LEMMA LineThen ==
  ASSUME RegInv
  PROVE  L!LineSetUp
<1> SUFFICES ASSUME v8 # "init"
             PROVE  /\ v2.DLA_LSB = 1 /\ v2.DLA_MSB = 0
                    /\ v2.LCR = 3 /\ v2.IER = 0 /\ ~L!FcrEnabled(v2.FCR)
  BY DEF L!LineSetUp, L!Done, RegInv
<1>1. v7 = 11
  BY DEF RegInv
<1> QED
  BY <1>1, SMT DEF RegInv, L!FcrEnabled

\* What has been read, what was thrown away, and what waits in the receiver, in the order
\* of its arrival; __uart_can_recv is right about what __uart_recv_char then finds
ReadInv ==
    /\ v4 \in Nat /\ v9 \in BOOLEAN /\ v8 \in {"init", "flush", "ready", "read"}
    /\ Up(v3, v4) /\ Up(v11, v4) /\ v10 \subseteq 1 .. v4
    /\ \A x \in v10 : Below(x, v3) /\ Below(x, v11)
    /\ Under(v11, v3)
    /\ Len(v11) <= MaxRead
    /\ v9 => /\ v3 # << >> /\ v8 \in {"flush", "read"}
             /\ v8 = "read" => Len(v11) < MaxRead
    /\ v8 \in {"init", "flush"} => v11 = << >>

LEMMA ReadInit ==
  ASSUME L!Init
  PROVE  ReadInv
<1>1. v3 = << >> /\ v4 = 0 /\ v8 = "init" /\ v9 = FALSE /\ v10 = {} /\ v11 = << >>
  BY DEF L!Init
<1>2. 0 \in Nat /\ Len(<< >>) <= MaxRead
  BY LineAssumption, SMT DEF L!LineAssumption
<1> QED
  BY <1>1, <1>2, UpEmpty DEF ReadInv

\* A byte that arrives comes after all the others.
LEMMA ArriveRead ==
  ASSUME ReadInv, L!Arrive
  PROVE  ReadInv'
<1> DEFINE n == v4 + 1
<1>1. /\ v4' = n /\ UNCHANGED <<v8, v9, v10, v11>>
      /\ v3' = <<n>> \/ v3' = Append(v3, n) \/ v3' = v3
  BY DEF L!Arrive
<1>2. /\ v4 \in Nat /\ Up(v3, v4) /\ Up(v11, v4) /\ v10 \subseteq 1 .. v4
      /\ \A x \in v10 : Below(x, v3) /\ Below(x, v11)
      /\ Under(v11, v3)
  BY DEF ReadInv
<1>3. n \in Nat /\ n \in 1 .. n /\ \A x \in 1 .. v4 : x < n /\ x \in 1 .. n
  BY <1>2, SMT
<1> HIDE DEF n
<1>4. Up(v3, n) /\ Up(v11, n) /\ v10 \subseteq 1 .. n
  BY <1>2, <1>3, UpMore DEF n
<1>5. \A i \in 1 .. Len(v3) : v3[i] < n
  BY <1>2, <1>3, ElementOfSeq DEF Up
<1>6. \A i \in 1 .. Len(v11) : v11[i] < n
  BY <1>2, <1>3, ElementOfSeq DEF Up
<1>7. /\ Up(v3', n) /\ Under(v11, v3') /\ \A x \in v10 : Below(x, v3')
      /\ v3 # << >> => v3' # << >>
  <2>1. CASE v3' = <<n>>
    <3>1. v3' \in Seq(1 .. n) /\ Len(v3') = 1 /\ v3'[1] = n /\ v3' # << >>
      BY <1>3, <2>1, SMT
    <3>2. (\A i \in 1 .. 1 : i = 1) /\ ~(1 < 1)
      BY SMT
    <3>3. Up(v3', n)
      BY <3>1, <3>2 DEF Up
    <3> QED
      BY <1>2, <1>3, <1>6, <3>1, <3>2, <3>3 DEF Under, Below
  <2>2. CASE v3' = Append(v3, n)
    <3>1. /\ Up(v3', n) /\ Len(v3') = Len(v3) + 1
          /\ \A i \in 1 .. Len(v3) + 1 : \/ i \in 1 .. Len(v3) /\ v3'[i] = v3[i]
                                         \/ i = Len(v3) + 1 /\ v3'[i] = n
      BY <1>3, <1>4, <1>5, <2>2, UpAppend
    <3>2. v3' # << >>
      BY <1>2, <2>2, SMT DEF Up
    <3> QED
      BY <1>2, <1>3, <1>6, <3>1, <3>2 DEF Under, Below
  <2>3. CASE v3' = v3
    BY <1>2, <1>4, <2>3
  <2> QED
    BY <1>1, <2>1, <2>2, <2>3
<1> QED
  BY <1>1, <1>2, <1>3, <1>4, <1>7 DEF ReadInv

\* A byte is taken from the head of the receiver, and thrown away or read.
LEMMA ReceiveRead ==
  ASSUME RegInv, ReadInv, L!Receive
  PROVE  ReadInv'
<1> DEFINE x == v3[1]
           t == Tail(v3)
<1>1. /\ v4 \in Nat /\ v8 \in {"flush", "read"} /\ v3 # << >>
      /\ v8 = "read" => Len(v11) < MaxRead
      /\ Up(v3, v4) /\ Up(v11, v4) /\ v10 \subseteq 1 .. v4
      /\ \A y \in v10 : Below(y, v3) /\ Below(y, v11)
      /\ Under(v11, v3)
      /\ v8 = "flush" => v11 = << >>
  BY DEF ReadInv, L!Receive
<1>2. L!recv_char = x
  <2>1. v2.LCR = 3 /\ v1 \in {"16550", "16650"}
    BY <1>1, SMT DEF RegInv
  <2>2. L!PortOf["TXRX"] = 0
    BY SMT DEF L!PortOf
  <2>3. Head(v3) = v3[1]
    BY <1>1, UpTail
  <2> QED
    BY <2>1, <2>2, <2>3, Banks DEF L!recv_char
<1>3. /\ v3' = t /\ v9' = FALSE /\ UNCHANGED <<v4, v8>>
      /\ v8 = "flush" => v10' = v10 \cup {x} /\ v11' = v11
      /\ v8 = "read" => v11' = Append(v11, x) /\ v10' = v10
  BY <1>1, <1>2 DEF L!Receive
<1>4. /\ Up(t, v4) /\ 1 \in 1 .. Len(v3) /\ x \in 1 .. v4 /\ Below(x, t)
      /\ \A i \in 1 .. Len(t) : i + 1 \in 1 .. Len(v3) /\ t[i] = v3[i + 1]
  BY <1>1, UpTail
<1>5. \A y : Below(y, v3) => Below(y, t)
  BY <1>4 DEF Below
<1>6. Under(v11, t)
  BY <1>1, <1>4 DEF Under
<1>7. \A i \in 1 .. Len(v11) : v11[i] < x
  BY <1>1, <1>4 DEF Under
<1>8. \A y \in v10 : y < x
  BY <1>1, <1>4 DEF Below
<1> HIDE DEF x, t
<1>9. CASE v8 = "flush"
  <2>1. \A y \in v10' : Below(y, t) /\ Below(y, << >>)
    BY <1>1, <1>3, <1>4, <1>5, <1>9, UpEmpty
  <2>2. Len(v11') <= MaxRead
    BY <1>3, <1>9 DEF ReadInv
  <2> QED
    BY <1>1, <1>3, <1>4, <1>6, <1>9, <2>1, <2>2 DEF ReadInv
<1>10. CASE v8 = "read"
  <2>1. /\ Up(v11', v4) /\ Len(v11') = Len(v11) + 1
        /\ \A i \in 1 .. Len(v11) + 1 : \/ i \in 1 .. Len(v11) /\ v11'[i] = v11[i]
                                        \/ i = Len(v11) + 1 /\ v11'[i] = x
    <3>1. v11' = Append(v11, x)
      BY <1>3, <1>10
    <3>2. /\ Up(Append(v11, x), v4) /\ Len(Append(v11, x)) = Len(v11) + 1
          /\ \A i \in 1 .. Len(v11) + 1 :
                \/ i \in 1 .. Len(v11) /\ Append(v11, x)[i] = v11[i]
                \/ i = Len(v11) + 1 /\ Append(v11, x)[i] = x
      BY <1>1, <1>4, <1>7, UpAppend
    <3> QED
      BY <3>1, <3>2
  <2>2. Under(v11', t)
    BY <1>4, <1>6, <2>1 DEF Under, Below
  <2>3. \A y \in v10 : Below(y, t) /\ Below(y, v11')
    BY <1>1, <1>5, <1>8, <2>1 DEF Below
  <2>4. Len(v11') <= MaxRead
    <3>1. Len(v11) \in Nat /\ MaxRead \in Nat
      BY <1>1, LenProperties, LineAssumption DEF Up, L!LineAssumption
    <3> QED
      BY <1>1, <1>10, <2>1, <3>1, SMT
  <2> QED
    BY <1>1, <1>3, <1>4, <1>10, <2>1, <2>2, <2>3, <2>4 DEF ReadInv
<1> QED
  BY <1>1, <1>9, <1>10

\* uart_init's writes may only empty the receiver.
LEMMA InitRead ==
  ASSUME ReadInv, L!StepInit
  PROVE  ReadInv'
<1>1. /\ v8 = "init" /\ v8' \in {"init", "flush"} /\ UNCHANGED <<v4, v9, v10, v11>>
      /\ v3' = << >> \/ v3' = v3
  BY DEF L!StepInit
<1>2. CASE v3' = << >>
  <2>1. Up(v3', v4) /\ Under(v11, v3') /\ \A x \in v10 : Below(x, v3')
    BY <1>2, UpEmpty DEF ReadInv
  <2> QED
    BY <1>1, <2>1 DEF ReadInv
<1>3. CASE v3' = v3
  BY <1>1, <1>3 DEF ReadInv
<1> QED
  BY <1>1, <1>2, <1>3

LEMMA ReadNext ==
  ASSUME RegInv, ReadInv, L!Next
  PROVE  ReadInv'
<1>1. CASE L!Poll
  <2>1. UNCHANGED <<v3, v4, v10, v11>> /\ v8 \in {"flush", "read"}
    BY <1>1 DEF L!Poll, L!Reading
  <2>2. \/ L!CanRecv /\ v9' = TRUE /\ v8' = v8
        \/ v9' = FALSE /\ v8' = "ready"
    BY <1>1 DEF L!Poll
  <2> QED
    BY <2>1, <2>2 DEF ReadInv, L!CanRecv
<1>2. CASE L!Read
  BY <1>2 DEF L!Read, ReadInv
<1> QED
  BY <1>1, <1>2, ArriveRead, ReceiveRead, InitRead DEF L!Next

LEMMA ReadThen ==
  ASSUME ReadInv
  PROVE  L!ReadOnce
<1>1. /\ v11 \in Seq(1 .. v4) /\ \A i, j \in 1 .. Len(v11) : i < j => v11[i] < v11[j]
      /\ \A x \in v10 : \A i \in 1 .. Len(v11) : x < v11[i]
      /\ Len(v11) <= MaxRead /\ v4 \in Nat
  BY DEF ReadInv, Up, Below
<1>2. ASSUME NEW i \in 1 .. Len(v11)
      PROVE  v11[i] \in 1 .. v4 \ v10 /\ (i > 1 => v11[i - 1] < v11[i])
  <2>1. v11[i] \in 1 .. v4
    BY <1>1, ElementOfSeq
  <2>2. v11[i] \notin v10
    <3> SUFFICES ASSUME v11[i] \in v10 PROVE FALSE
      OBVIOUS
    <3>1. v11[i] < v11[i]
      BY <1>1
    <3> QED
      BY <1>1, <2>1, <3>1, SMT
  <2>3. ASSUME i > 1 PROVE v11[i - 1] < v11[i]
    <3>1. i - 1 \in 1 .. Len(v11) /\ i - 1 < i
      BY <1>1, <2>3, LenProperties, SMT
    <3> QED
      BY <1>1, <3>1
  <2> QED
    BY <2>1, <2>2, <2>3
<1> QED
  BY <1>1, <1>2 DEF L!ReadOnce

-----------------------------------------------------------------------------
(* pic_init *)

Chips == {S!PIC1, S!PIC2}
Chip == [step : {"ready", "icw2", "icw3", "icw4"}, icw4 : BOOLEAN, auto : BOOLEAN,
         imr : SUBSET (0 .. 7), base : Int, cascade : Int]

\* How far a chip is: where its own first, second, third and last word are among the
\* eight, and the values that the second and the third have
ChipAt(k, n, w1, w2, w3, w4, base, cascade) ==
    /\ n >= w1 => k.imr = {} /\ k.auto = FALSE /\ k.icw4 = TRUE
    /\ n >= w1 /\ n < w2 => k.step = "icw2"
    /\ n >= w2 => k.base = base
    /\ n >= w2 /\ n < w3 => k.step = "icw3"
    /\ n >= w3 => k.cascade = cascade
    /\ n >= w3 /\ n < w4 => k.step = "icw4"
    /\ n >= w4 => k.step = "ready"

ChipInv ==
    /\ v4 \in [Chips -> Chip] /\ v5 \in 0 .. 8
    /\ ChipAt(v4[S!PIC1], v5, 1, 3, 5, 7, 32, 4)
    /\ ChipAt(v4[S!PIC2], v5, 2, 4, 6, 8, 40, 2)
    /\ v2 = {} /\ v3 = {}

LEMMA Ports == S!PIC1 = 32 /\ S!PIC2 = 160 /\ S!PIC1 # S!PIC2
  BY SMT DEF S!PIC1, S!PIC2

LEMMA WordBits ==
  /\ 0 \in S!Bits(17) /\ 2 \in S!Bits(4) /\ 1 \notin S!Bits(1)
  /\ \A n : S!Bits(n) \in SUBSET (0 .. 7)
<1>1. S!Weight[0 + 1] = 1 /\ S!Weight[1 + 1] = 2 /\ S!Weight[2 + 1] = 4
  BY SMT DEF S!Weight
<1>2. (17 \div 1) % 2 = 1 /\ (4 \div 4) % 2 = 1 /\ ~((1 \div 2) % 2 = 1)
  BY SMT
<1>3. 0 \in 0 .. 7 /\ 1 \in 0 .. 7 /\ 2 \in 0 .. 7
  BY SMT
<1> QED
  BY <1>1, <1>2, <1>3 DEF S!Bits

LEMMA ChipInit ==
  ASSUME S!Init
  PROVE  ChipInv
<1>1. PICK imr \in {{}, 0 .. 7} :
          v4 = [c \in {S!PIC1, S!PIC2} |->
                   [step |-> "ready", icw4 |-> FALSE, auto |-> FALSE, imr |-> imr,
                    base |-> IF c = S!PIC1 THEN 8 ELSE 112,
                    cascade |-> IF c = S!PIC1 THEN S!Weight[S!Cascade + 1] ELSE S!Cascade]]
  BY DEF S!Init
<1>2. S!Weight[S!Cascade + 1] = 4 /\ S!Cascade = 2
  BY SMT DEF S!Weight, S!Cascade
<1>3. \A n : n \in {8, 112, 4, 2} => n \in Int
  BY SMT
<1>4. v4 \in [Chips -> Chip]
  BY <1>1, <1>2, <1>3 DEF Chips, Chip
<1>5. v5 = 0 /\ v2 = {} /\ v3 = {}
  BY DEF S!Init, S!PicInit
<1> QED
  BY <1>4, <1>5, SMT DEF ChipInv, ChipAt

\* The first word starts the chip's sequence, and it will take a fourth.
LEMMA FirstWord ==
  ASSUME v4 \in [Chips -> Chip], v2 = {}, v3 = {}, NEW c \in Chips, S!ICW1(c, 17)
  PROVE  /\ v4' \in [Chips -> Chip] /\ v2' = {} /\ v3' = {}
         /\ v4'[c].step = "icw2" /\ v4'[c].imr = {} /\ v4'[c].auto = FALSE
         /\ v4'[c].icw4 = TRUE
         /\ \A d \in Chips : d # c => v4'[d] = v4[d]
<1> DEFINE k == [v4[c] EXCEPT !.step = "icw2", !.imr = {}, !.auto = FALSE, !.icw4 = TRUE]
<1>1. v4[c] \in Chip
  OBVIOUS
<1>2. k \in Chip /\ k.step = "icw2" /\ k.imr = {} /\ k.auto = FALSE /\ k.icw4 = TRUE
  BY <1>1 DEF Chip
<1>3. v4' = [v4 EXCEPT ![c] = k]
  BY WordBits DEF S!ICW1
<1>4. v2' = {} /\ v3' = {}
  BY DEF S!ICW1
<1> HIDE DEF k
<1> QED
  BY <1>2, <1>3, <1>4

\* The others follow the step that the chip is at.
LEMMA LaterWord ==
  ASSUME v4 \in [Chips -> Chip], v2 = {}, v3 = {}, NEW c \in Chips, NEW d \in Int,
         S!Data(c, d), v4[c].icw4 = TRUE, v4[c].step \in {"icw2", "icw3", "icw4"},
         v4[c].step = "icw4" => 1 \notin S!Bits(d), v4[c].step = "icw2" => 8 * (d \div 8) = d
  PROVE  /\ v4' \in [Chips -> Chip] /\ v2' = {} /\ v3' = {}
         /\ v4'[c].imr = v4[c].imr /\ v4'[c].icw4 = TRUE
         /\ v4[c].step = "icw2" => /\ v4'[c].step = "icw3" /\ v4'[c].base = d
                                   /\ v4'[c].auto = v4[c].auto
         /\ v4[c].step = "icw3" => /\ v4'[c].step = "icw4" /\ v4'[c].cascade = d
                                   /\ v4'[c].base = v4[c].base /\ v4'[c].auto = v4[c].auto
         /\ v4[c].step = "icw4" => /\ v4'[c].step = "ready" /\ v4'[c].auto = FALSE
                                   /\ v4'[c].base = v4[c].base
                                   /\ v4'[c].cascade = v4[c].cascade
         /\ \A e \in Chips : e # c => v4'[e] = v4[e]
<1> DEFINE k == v4[c]
           l == CASE k.step = "icw2" -> [k EXCEPT !.step = "icw3", !.base = 8 * (d \div 8)]
                  [] k.step = "icw3" ->
                        [k EXCEPT !.step = IF k.icw4 THEN "icw4" ELSE "ready", !.cascade = d]
                  [] k.step = "icw4" -> [k EXCEPT !.step = "ready", !.auto = 1 \in S!Bits(d)]
                  [] OTHER -> [k EXCEPT !.imr = S!Bits(d)]
<1>1. v4' = [v4 EXCEPT ![c] = l]
  BY DEF S!Data
<1>2. v2' = {} /\ v3' = {}
  BY DEF S!Data, S!pics
<1>3. k \in Chip
  OBVIOUS
<1>4. CASE k.step = "icw2"
  <2>1. l = [k EXCEPT !.step = "icw3", !.base = d]
    BY <1>4
  <2>2. l \in Chip /\ l.step = "icw3" /\ l.base = d /\ l.imr = k.imr /\ l.icw4 = k.icw4
        /\ l.auto = k.auto
    BY <1>3, <2>1 DEF Chip
  <2> HIDE DEF l
  <2> QED
    BY <1>1, <1>2, <1>4, <2>2
<1>5. CASE k.step = "icw3"
  <2>1. l = [k EXCEPT !.step = "icw4", !.cascade = d]
    BY <1>5
  <2>2. l \in Chip /\ l.step = "icw4" /\ l.cascade = d /\ l.imr = k.imr /\ l.icw4 = k.icw4
        /\ l.auto = k.auto /\ l.base = k.base
    BY <1>3, <2>1 DEF Chip
  <2> HIDE DEF l
  <2> QED
    BY <1>1, <1>2, <1>5, <2>2
<1>6. CASE k.step = "icw4"
  <2>0. (1 \in S!Bits(d)) = FALSE
    BY <1>6
  <2>3. l = [k EXCEPT !.step = "ready", !.auto = 1 \in S!Bits(d)]
    BY <1>6
  <2>1. l = [k EXCEPT !.step = "ready", !.auto = FALSE]
    BY <2>0, <2>3, Zenon
  <2>2. l \in Chip /\ l.step = "ready" /\ l.auto = FALSE /\ l.imr = k.imr /\ l.icw4 = k.icw4
        /\ l.base = k.base /\ l.cascade = k.cascade
    BY <1>3, <2>1 DEF Chip
  <2> HIDE DEF l
  <2> QED
    BY <1>1, <1>2, <1>6, <2>2
<1> QED
  BY <1>4, <1>5, <1>6

LEMMA WordsLength == Len(S!Words) = 8
  BY SMT DEF S!Words

\* Word by word.
LEMMA WordNext ==
  ASSUME ChipInv, S!pic_init
  PROVE  ChipInv'
<1> DEFINE a == v4[S!PIC1]
           b == v4[S!PIC2]
<1>1. /\ v4 \in [Chips -> Chip] /\ v5 \in 0 .. 8 /\ v2 = {} /\ v3 = {}
      /\ ChipAt(a, v5, 1, 3, 5, 7, 32, 4) /\ ChipAt(b, v5, 2, 4, 6, 8, 40, 2)
  BY DEF ChipInv
<1>2. v5 < 8 /\ v5' = v5 + 1
  BY WordsLength DEF S!pic_init
<1>3. S!PIC1 \in Chips /\ S!PIC2 \in Chips /\ S!PIC1 # S!PIC2
  BY Ports DEF Chips
<1>4. \A e \in Chips : e = S!PIC1 \/ e = S!PIC2
  BY DEF Chips
<1>5. \A n : n \in {32, 40, 4, 2, 1} => n \in Int
  BY SMT
<1>6. CASE v5 = 0
  <2>1. S!ICW1(S!PIC1, 17)
    <3>1. S!Words[0 + 1] = << S!PIC1, 0, 17 >>
      BY SMT DEF S!Words
    <3> QED
      BY <1>6, <3>1 DEF S!pic_init
  <2>2. /\ v4' \in [Chips -> Chip] /\ v2' = {} /\ v3' = {}
        /\ v4'[S!PIC1].step = "icw2" /\ v4'[S!PIC1].imr = {}
        /\ v4'[S!PIC1].auto = FALSE /\ v4'[S!PIC1].icw4 = TRUE
        /\ \A e \in Chips : e # S!PIC1 => v4'[e] = v4[e]
    BY <1>1, <1>3, <2>1, FirstWord
  <2>5. v5' = 1 /\ v5' \in 0 .. 8
    BY <1>2, <1>6, SMT
  <2>6. ChipAt(v4'[S!PIC1], v5', 1, 3, 5, 7, 32, 4)
    BY <1>1, <1>6, <2>2, <2>5, SMT DEF ChipAt
  <2>7. v4'[S!PIC2] = b
    BY <1>3, <2>2
  <2>8. ChipAt(b, v5', 2, 4, 6, 8, 40, 2)
    BY <1>1, <1>6, <2>5, SMT DEF ChipAt
  <2> QED
    BY <2>2, <2>5, <2>6, <2>7, <2>8 DEF ChipInv
<1>7. CASE v5 = 1
  <2>1. S!ICW1(S!PIC2, 17)
    <3>1. S!Words[1 + 1] = << S!PIC2, 0, 17 >>
      BY SMT DEF S!Words
    <3> QED
      BY <1>7, <3>1 DEF S!pic_init
  <2>2. /\ v4' \in [Chips -> Chip] /\ v2' = {} /\ v3' = {}
        /\ v4'[S!PIC2].step = "icw2" /\ v4'[S!PIC2].imr = {}
        /\ v4'[S!PIC2].auto = FALSE /\ v4'[S!PIC2].icw4 = TRUE
        /\ \A e \in Chips : e # S!PIC2 => v4'[e] = v4[e]
    BY <1>1, <1>3, <2>1, FirstWord
  <2>5. v5' = 2 /\ v5' \in 0 .. 8
    BY <1>2, <1>7, SMT
  <2>6. ChipAt(v4'[S!PIC2], v5', 2, 4, 6, 8, 40, 2)
    BY <1>1, <1>7, <2>2, <2>5, SMT DEF ChipAt
  <2>7. v4'[S!PIC1] = a
    BY <1>3, <2>2
  <2>8. ChipAt(a, v5', 1, 3, 5, 7, 32, 4)
    BY <1>1, <1>7, <2>5, SMT DEF ChipAt
  <2> QED
    BY <2>2, <2>5, <2>6, <2>7, <2>8 DEF ChipInv
<1>8. CASE v5 = 2
  <2>1. S!Data(S!PIC1, 32)
    <3>1. S!Words[2 + 1] = << S!PIC1, 1, 32 >>
      BY SMT DEF S!Words
    <3>2. 1 # 0
      BY SMT
    <3> QED
      BY <1>8, <3>1, <3>2 DEF S!pic_init
  <2>2. a.icw4 = TRUE /\ a.step = "icw2"
    BY <1>1, <1>8, SMT DEF ChipAt
  <2>3. 8 * (32 \div 8) = 32
    BY SMT
  <2>4. /\ v4' \in [Chips -> Chip] /\ v2' = {} /\ v3' = {}
        /\ v4'[S!PIC1].imr = a.imr /\ v4'[S!PIC1].icw4 = TRUE
        /\ v4'[S!PIC1].step = "icw3" /\ v4'[S!PIC1].base = 32
              /\ v4'[S!PIC1].auto = a.auto
        /\ \A e \in Chips : e # S!PIC1 => v4'[e] = v4[e]
    BY <1>1, <1>3, <1>5, <2>1, <2>2, <2>3, LaterWord
  <2>5. v5' = 3 /\ v5' \in 0 .. 8
    BY <1>2, <1>8, SMT
  <2>6. ChipAt(v4'[S!PIC1], v5', 1, 3, 5, 7, 32, 4)
    BY <1>1, <1>8, <2>2, <2>4, <2>5, SMT DEF ChipAt
  <2>7. v4'[S!PIC2] = b
    BY <1>3, <2>4
  <2>8. ChipAt(b, v5', 2, 4, 6, 8, 40, 2)
    BY <1>1, <1>8, <2>5, SMT DEF ChipAt
  <2> QED
    BY <2>4, <2>5, <2>6, <2>7, <2>8 DEF ChipInv
<1>9. CASE v5 = 3
  <2>1. S!Data(S!PIC2, 40)
    <3>1. S!Words[3 + 1] = << S!PIC2, 1, 40 >>
      BY SMT DEF S!Words
    <3>2. 1 # 0
      BY SMT
    <3> QED
      BY <1>9, <3>1, <3>2 DEF S!pic_init
  <2>2. b.icw4 = TRUE /\ b.step = "icw2"
    BY <1>1, <1>9, SMT DEF ChipAt
  <2>3. 8 * (40 \div 8) = 40
    BY SMT
  <2>4. /\ v4' \in [Chips -> Chip] /\ v2' = {} /\ v3' = {}
        /\ v4'[S!PIC2].imr = b.imr /\ v4'[S!PIC2].icw4 = TRUE
        /\ v4'[S!PIC2].step = "icw3" /\ v4'[S!PIC2].base = 40
              /\ v4'[S!PIC2].auto = b.auto
        /\ \A e \in Chips : e # S!PIC2 => v4'[e] = v4[e]
    BY <1>1, <1>3, <1>5, <2>1, <2>2, <2>3, LaterWord
  <2>5. v5' = 4 /\ v5' \in 0 .. 8
    BY <1>2, <1>9, SMT
  <2>6. ChipAt(v4'[S!PIC2], v5', 2, 4, 6, 8, 40, 2)
    BY <1>1, <1>9, <2>2, <2>4, <2>5, SMT DEF ChipAt
  <2>7. v4'[S!PIC1] = a
    BY <1>3, <2>4
  <2>8. ChipAt(a, v5', 1, 3, 5, 7, 32, 4)
    BY <1>1, <1>9, <2>5, SMT DEF ChipAt
  <2> QED
    BY <2>4, <2>5, <2>6, <2>7, <2>8 DEF ChipInv
<1>10. CASE v5 = 4
  <2>1. S!Data(S!PIC1, 4)
    <3>1. S!Words[4 + 1] = << S!PIC1, 1, 4 >>
      BY SMT DEF S!Words
    <3>2. 1 # 0
      BY SMT
    <3> QED
      BY <1>10, <3>1, <3>2 DEF S!pic_init
  <2>2. a.icw4 = TRUE /\ a.step = "icw3"
    BY <1>1, <1>10, SMT DEF ChipAt
  <2>4. /\ v4' \in [Chips -> Chip] /\ v2' = {} /\ v3' = {}
        /\ v4'[S!PIC1].imr = a.imr /\ v4'[S!PIC1].icw4 = TRUE
        /\ v4'[S!PIC1].step = "icw4" /\ v4'[S!PIC1].cascade = 4
              /\ v4'[S!PIC1].base = a.base /\ v4'[S!PIC1].auto = a.auto
        /\ \A e \in Chips : e # S!PIC1 => v4'[e] = v4[e]
    BY <1>1, <1>3, <1>5, <2>1, <2>2, LaterWord
  <2>5. v5' = 5 /\ v5' \in 0 .. 8
    BY <1>2, <1>10, SMT
  <2>6. ChipAt(v4'[S!PIC1], v5', 1, 3, 5, 7, 32, 4)
    BY <1>1, <1>10, <2>2, <2>4, <2>5, SMT DEF ChipAt
  <2>7. v4'[S!PIC2] = b
    BY <1>3, <2>4
  <2>8. ChipAt(b, v5', 2, 4, 6, 8, 40, 2)
    BY <1>1, <1>10, <2>5, SMT DEF ChipAt
  <2> QED
    BY <2>4, <2>5, <2>6, <2>7, <2>8 DEF ChipInv
<1>11. CASE v5 = 5
  <2>1. S!Data(S!PIC2, 2)
    <3>1. S!Words[5 + 1] = << S!PIC2, 1, 2 >>
      BY SMT DEF S!Words
    <3>2. 1 # 0
      BY SMT
    <3> QED
      BY <1>11, <3>1, <3>2 DEF S!pic_init
  <2>2. b.icw4 = TRUE /\ b.step = "icw3"
    BY <1>1, <1>11, SMT DEF ChipAt
  <2>4. /\ v4' \in [Chips -> Chip] /\ v2' = {} /\ v3' = {}
        /\ v4'[S!PIC2].imr = b.imr /\ v4'[S!PIC2].icw4 = TRUE
        /\ v4'[S!PIC2].step = "icw4" /\ v4'[S!PIC2].cascade = 2
              /\ v4'[S!PIC2].base = b.base /\ v4'[S!PIC2].auto = b.auto
        /\ \A e \in Chips : e # S!PIC2 => v4'[e] = v4[e]
    BY <1>1, <1>3, <1>5, <2>1, <2>2, LaterWord
  <2>5. v5' = 6 /\ v5' \in 0 .. 8
    BY <1>2, <1>11, SMT
  <2>6. ChipAt(v4'[S!PIC2], v5', 2, 4, 6, 8, 40, 2)
    BY <1>1, <1>11, <2>2, <2>4, <2>5, SMT DEF ChipAt
  <2>7. v4'[S!PIC1] = a
    BY <1>3, <2>4
  <2>8. ChipAt(a, v5', 1, 3, 5, 7, 32, 4)
    BY <1>1, <1>11, <2>5, SMT DEF ChipAt
  <2> QED
    BY <2>4, <2>5, <2>6, <2>7, <2>8 DEF ChipInv
<1>12. CASE v5 = 6
  <2>1. S!Data(S!PIC1, 1)
    <3>1. S!Words[6 + 1] = << S!PIC1, 1, 1 >>
      BY SMT DEF S!Words
    <3>2. 1 # 0
      BY SMT
    <3> QED
      BY <1>12, <3>1, <3>2 DEF S!pic_init
  <2>2. a.icw4 = TRUE /\ a.step = "icw4"
    BY <1>1, <1>12, SMT DEF ChipAt
  <2>3. 1 \notin S!Bits(1)
    BY WordBits
  <2>4. /\ v4' \in [Chips -> Chip] /\ v2' = {} /\ v3' = {}
        /\ v4'[S!PIC1].imr = a.imr /\ v4'[S!PIC1].icw4 = TRUE
        /\ v4'[S!PIC1].step = "ready" /\ v4'[S!PIC1].auto = FALSE
              /\ v4'[S!PIC1].base = a.base /\ v4'[S!PIC1].cascade = a.cascade
        /\ \A e \in Chips : e # S!PIC1 => v4'[e] = v4[e]
    BY <1>1, <1>3, <1>5, <2>1, <2>2, <2>3, LaterWord
  <2>5. v5' = 7 /\ v5' \in 0 .. 8
    BY <1>2, <1>12, SMT
  <2>6. ChipAt(v4'[S!PIC1], v5', 1, 3, 5, 7, 32, 4)
    BY <1>1, <1>12, <2>2, <2>4, <2>5, SMT DEF ChipAt
  <2>7. v4'[S!PIC2] = b
    BY <1>3, <2>4
  <2>8. ChipAt(b, v5', 2, 4, 6, 8, 40, 2)
    BY <1>1, <1>12, <2>5, SMT DEF ChipAt
  <2> QED
    BY <2>4, <2>5, <2>6, <2>7, <2>8 DEF ChipInv
<1>13. CASE v5 = 7
  <2>1. S!Data(S!PIC2, 1)
    <3>1. S!Words[7 + 1] = << S!PIC2, 1, 1 >>
      BY SMT DEF S!Words
    <3>2. 1 # 0
      BY SMT
    <3> QED
      BY <1>13, <3>1, <3>2 DEF S!pic_init
  <2>2. b.icw4 = TRUE /\ b.step = "icw4"
    BY <1>1, <1>13, SMT DEF ChipAt
  <2>3. 1 \notin S!Bits(1)
    BY WordBits
  <2>4. /\ v4' \in [Chips -> Chip] /\ v2' = {} /\ v3' = {}
        /\ v4'[S!PIC2].imr = b.imr /\ v4'[S!PIC2].icw4 = TRUE
        /\ v4'[S!PIC2].step = "ready" /\ v4'[S!PIC2].auto = FALSE
              /\ v4'[S!PIC2].base = b.base /\ v4'[S!PIC2].cascade = b.cascade
        /\ \A e \in Chips : e # S!PIC2 => v4'[e] = v4[e]
    BY <1>1, <1>3, <1>5, <2>1, <2>2, <2>3, LaterWord
  <2>5. v5' = 8 /\ v5' \in 0 .. 8
    BY <1>2, <1>13, SMT
  <2>6. ChipAt(v4'[S!PIC2], v5', 2, 4, 6, 8, 40, 2)
    BY <1>1, <1>13, <2>2, <2>4, <2>5, SMT DEF ChipAt
  <2>7. v4'[S!PIC1] = a
    BY <1>3, <2>4
  <2>8. ChipAt(a, v5', 1, 3, 5, 7, 32, 4)
    BY <1>1, <1>13, <2>5, SMT DEF ChipAt
  <2> QED
    BY <2>4, <2>5, <2>6, <2>7, <2>8 DEF ChipInv
<1> QED
  <2>1. v5 \in 0 .. 7
    BY <1>1, <1>2, SMT
  <2> QED
    BY <2>1, <1>6, <1>7, <1>8, <1>9, <1>10, <1>11, <1>12, <1>13, SMT

LEMMA ChipNext ==
  ASSUME ChipInv, S!Next
  PROVE  ChipInv'
<1>1. ASSUME S!pic_init PROVE ChipInv'
  BY <1>1, WordNext
<1>2. ASSUME UNCHANGED <<v2, v3, v4, v5>> PROVE ChipInv'
  BY <1>2 DEF ChipInv
<1>3. S!pic_init \/ UNCHANGED <<v2, v3, v4, v5>>
  BY DEF S!Next, S!Run, S!intr_init, S!install_low, S!install_high, S!install_dpl, S!NMI,
     S!SoftwareInterrupt, S!Return, S!RaiseLine, S!Raise, S!pics
<1> QED
  BY <1>1, <1>2, <1>3

\* The vectors of the lines
LEMMA VectorsGiven ==
  ASSUME ChipInv, v5 = 8, NEW i \in 0 .. 15
  PROVE  S!VectorGiven(i) = 32 + i /\ S!VectorOf(i) = 32 + i
<1>1. /\ v4[S!PIC1].base = 32 /\ v4[S!PIC1].cascade = 4
      /\ v4[S!PIC2].base = 40 /\ v4[S!PIC2].cascade = 2
  BY SMT DEF ChipInv, ChipAt
<1>2. S!VectorOf(i) = 32 + i
  BY SMT DEF S!VectorOf, S!IrqBase1, S!IrqBase2
<1>3. S!VectorGiven(i) = IF i < 8 THEN 32 + i ELSE 40 + (i - 8)
  BY <1>1, WordBits DEF S!VectorGiven
<1>4. S!VectorGiven(i) = 32 + i
  BY <1>3, SMT
<1> QED
  BY <1>2, <1>4

LEMMA ChipsThen ==
  ASSUME ChipInv
  PROVE  S!ControllersReady
<1> SUFFICES ASSUME v5 = 8 PROVE
        /\ \A c \in {S!PIC1, S!PIC2} :
              v4[c].step = "ready" /\ v4[c].imr = {} /\ ~v4[c].auto
        /\ \A i \in 0 .. 15 : S!VectorGiven(i) = S!VectorOf(i)
        /\ v2 = {} /\ v3 = {}
  BY WordsLength DEF S!ControllersReady
<1>1. /\ v4[S!PIC1].step = "ready" /\ v4[S!PIC1].imr = {} /\ v4[S!PIC1].auto = FALSE
      /\ v4[S!PIC2].step = "ready" /\ v4[S!PIC2].imr = {} /\ v4[S!PIC2].auto = FALSE
  BY SMT DEF ChipInv, ChipAt
<1> QED
  BY <1>1, VectorsGiven DEF ChipInv

-----------------------------------------------------------------------------
(* The trampolines, in their places *)

\* The two instances of FiniteSets are one.
LEMMA SameCardinality == \A X : S!Cardinality(X) = Cardinality(X)
  BY Zenon DEF S!Cardinality, S!IsFiniteSet, Cardinality, IsFiniteSet

\* Each trampoline fits in 16 bytes, and begins where 16 of each before it end.
LEMMA TrampolinePlaces ==
  \A v \in S!Vector :
      v \in 0 .. 255 /\ S!StartOf[v] = 16 * v /\ S!Place(v) = idt_trampoline + 16 * v
<1> SUFFICES ASSUME NEW v \in S!Vector
             PROVE  /\ v \in 0 .. 255 /\ S!StartOf[v] = 16 * v
                    /\ S!Place(v) = idt_trampoline + 16 * v
  OBVIOUS
<1>1. v \in 0 .. 255 /\ S!Vector = 0 .. 255
  BY SMT DEF S!Vector, S!IDT_NR_DESC
<1>2. ASSUME NEW w \in 0 .. v - 1
      PROVE  S!Aligned(S!SizeOf(w)) = 16
  <2>1. S!SizeOf(w) \in 1 .. 12
    BY SMT DEF S!SizeOf
  <2>2. \A n \in 1 .. 12 : S!Aligned(n) = 16
    BY SMT DEF S!Aligned
  <2> QED
    BY <2>1, <2>2
<1>3. S!BytesBefore(v) = (0 .. v - 1) \X (1 .. 16)
  <2>1. ASSUME NEW x \in (0 .. v - 1) \X (1 .. 16)
        PROVE  x[2] <= S!Aligned(S!SizeOf(x[1]))
    <3>1. x[1] \in 0 .. v - 1 /\ x[2] \in 1 .. 16
      BY SMT
    <3>2. S!Aligned(S!SizeOf(x[1])) = 16
      BY <1>2, <3>1
    <3> QED
      BY <3>1, <3>2, SMT
  <2> QED
    BY <2>1 DEF S!BytesBefore
<1>4. /\ IsFiniteSet(0 .. v - 1) /\ Cardinality(0 .. v - 1) = v
      /\ IsFiniteSet(1 .. 16) /\ Cardinality(1 .. 16) = 16
  <2>1. /\ 0 \in Int /\ v - 1 \in Int /\ 1 \in Int /\ 16 \in Int
        /\ (IF 0 > v - 1 THEN 0 ELSE v - 1 - 0 + 1) = v
        /\ (IF 1 > 16 THEN 0 ELSE 16 - 1 + 1) = 16
    BY <1>1, SMT
  <2> QED
    BY <2>1, FS_Interval
<1>5. Cardinality((0 .. v - 1) \X (1 .. 16)) = v * 16
  <2> DEFINE A == 0 .. v - 1
             B == 1 .. 16
  <2>1. IsFiniteSet(A) /\ Cardinality(A) = v /\ IsFiniteSet(B) /\ Cardinality(B) = 16
    BY <1>4
  <2> SUFFICES Cardinality(A \X B) = v * 16
    OBVIOUS
  <2> HIDE DEF A, B
  <2> QED
    BY <2>1, FS_Product
<1>6. S!StartOf[v] = v * 16
  BY <1>3, <1>5, SameCardinality DEF S!StartOf
<1>7. v * 16 = 16 * v
  BY <1>1, SMT
<1> QED
  BY <1>1, <1>6, <1>7 DEF S!Place

\* A trampoline's place tells its vector.
LEMMA PlaceTells ==
  ASSUME NEW v \in S!Vector
  PROVE  S!TrampolineAt(S!Place(v)) = v
<1>1. ASSUME NEW w \in S!Vector, S!Place(w) = S!Place(v)
      PROVE  w = v
  <2>1. idt_trampoline + 16 * w = idt_trampoline + 16 * v
    BY <1>1, TrampolinePlaces
  <2>2. w \in 0 .. 255 /\ v \in 0 .. 255
    BY TrampolinePlaces
  <2>3. idt_trampoline \in Nat
    BY StartupAssumption DEF S!InstallsAssumption
  <2> QED
    BY <2>1, <2>2, <2>3, SMT
<1>2. S!TrampolineAt(S!Place(v)) \in S!Vector
      /\ S!Place(S!TrampolineAt(S!Place(v))) = S!Place(v)
  BY Zenon DEF S!TrampolineAt
<1> QED
  BY <1>1, <1>2

-----------------------------------------------------------------------------
(* intr_init, and the gate that a tp writes *)

Gate == [offset_1 : Nat, offset_2 : Nat, type : Nat, dpl : {0, 3}, p : {0, 1}]
Leads(g, a) == g.offset_1 = a % S!Half /\ g.offset_2 = a \div S!Half

\* The gates that intr_init has built, and what the tp has written in its own
GateTypes ==
    /\ v6 \in [S!Vector -> Gate] /\ v7 \in 0 .. 256
    /\ v9.what \in Installs /\ v9.step \in {"low", "high", "dpl", "done"}
    /\ DOMAIN v9 = {"what", "step"}
GatesBuilt ==
    \A v \in 0 .. v7 - 1 :
        /\ v6[v].p = 1 /\ v6[v].type = 14
        /\ v # v9.what.nr \/ v9.step = "low" => Leads(v6[v], S!Place(v))
GateWritten ==
    /\ v9.step \in {"high", "dpl", "done"} =>
           v6[v9.what.nr].offset_1 = v9.what.handler % S!Half
    /\ v9.step \in {"dpl", "done"} => v6[v9.what.nr].offset_2 = v9.what.handler \div S!Half
    /\ v9.step = "dpl" => v9.what.ring = 3
    /\ v9.step = "done" => v6[v9.what.nr].dpl >= v9.what.ring
GatesHold == GateTypes /\ GatesBuilt /\ GateWritten

\* The order of pic_init, intr_init and the tp
GateInv ==
    /\ GatesHold
    /\ v8 \in {-1, 2047} /\ (v8 = -1 => v9.step = "low")
    /\ v5 \in 0 .. 8 /\ (v8 # -1 => v7 = 256 /\ v5 = 8)

\* Where the last event has gone
EventInv ==
    /\ v10.by \in {"none", "nmi", "int"}
    /\ v10.by = "none" => v10 = S!NoEvent
    /\ v10.by = "nmi" => v10.to \in {-1, S!Place(2)}
    /\ v10.by = "int" => /\ v9.step = "done" /\ v10.nr = v9.what.nr
                         /\ v10.to = v9.what.handler

\* What may be installed.
LEMMA Installed ==
  ASSUME NEW i \in Installs
  PROVE  /\ i.nr \in S!Vector /\ i.nr # 2 /\ i.nr \in 0 .. 255 /\ i.handler \in Nat
         /\ i.ring \in {0, 3} /\ idt_trampoline \in Nat
<1>1. S!Vector = 0 .. 255
  BY SMT DEF S!Vector, S!IDT_NR_DESC
<1> QED
  BY <1>1, StartupAssumption DEF S!InstallsAssumption

\* An address is its two halves.
LEMMA Halves ==
  ASSUME NEW a \in Nat
  PROVE  /\ a % S!Half \in Nat /\ a \div S!Half \in Nat
         /\ ((a \div S!Half) * S!Half) + (a % S!Half) = a
  BY SMT DEF S!Half

\* A gate in its place, of the table in use, leads to the address that it has.
LEMMA TargetOf ==
  ASSUME GateInv, v8 # -1, NEW v \in S!Vector, NEW a \in Nat, Leads(v6[v], a)
  PROVE  S!Target(v) = a
<1>1. v \in 0 .. v7 - 1
  BY TrampolinePlaces, SMT DEF GateInv, GatesHold, GateTypes, GatesBuilt, GateWritten
<1>2. v6[v].p = 1 /\ v6[v].type = 14 /\ 1 # 0
  BY <1>1 DEF GateInv, GatesHold, GateTypes, GatesBuilt, GateWritten
<1>3. S!Target(v) = ((a \div S!Half) * S!Half) + (a % S!Half)
  BY <1>2 DEF S!Target, S!INTR_GATE, Leads
<1> QED
  BY <1>3, Halves

LEMMA GateInit ==
  ASSUME S!Init
  PROVE  GateInv /\ EventInv
<1>1. PICK i \in Installs : v9 = [what |-> i, step |-> "low"]
  BY DEF S!Init
<1>2. /\ v7 = 0 /\ v8 = -1 /\ v10 = S!NoEvent /\ v6 = [v \in S!Vector |-> S!Null] /\ v5 = 0
  BY DEF S!Init
<1>3. S!Null \in Gate
  BY SMT DEF S!Null, Gate
<1>4. 0 .. 0 - 1 = {} /\ 0 \in 0 .. 256 /\ 0 \in 0 .. 8
  BY SMT
<1>5. v9.what = i /\ v9.step = "low" /\ DOMAIN v9 = {"what", "step"}
  BY <1>1
<1>6. v6 \in [S!Vector -> Gate]
  BY <1>2, <1>3
<1>7. GateInv
  BY <1>2, <1>4, <1>5, <1>6 DEF GateInv, GatesHold, GateTypes, GatesBuilt, GateWritten
<1>8. v10.by = "none"
  BY <1>2 DEF S!NoEvent
<1> QED
  BY <1>2, <1>7, <1>8 DEF EventInv

\* intr_init builds the gates by adding up addresses.
LEMMA GateBuilt ==
  ASSUME GateInv, S!intr_init
  PROVE  GateInv'
<1>1. /\ v6 \in [S!Vector -> Gate] /\ v7 \in 0 .. 256 /\ v8 = -1 /\ v9.step = "low"
      /\ v9.what \in Installs
      /\ \A v \in 0 .. v7 - 1 : /\ v6[v].p = 1 /\ v6[v].type = 14 /\ Leads(v6[v], S!Place(v))
  BY DEF GateInv, GatesHold, GateTypes, GatesBuilt, GateWritten, S!intr_init
<1>2. v5 = 8 /\ UNCHANGED <<v4, v5, v9, v10>>
  BY WordsLength DEF S!intr_init
<1>3. CASE v7 < 256
  <2> DEFINE a == idt_trampoline + v7 * 16
             g == S!build_int_desc(a)
  <2>1. v6' = [v6 EXCEPT ![v7] = g] /\ v7' = v7 + 1 /\ v8' = v8
    BY <1>3 DEF S!intr_init, S!IDT_NR_DESC, S!IDT_ISR_ALGN
  <2>2. v7 \in S!Vector /\ v7' \in 0 .. 256 /\ v7' - 1 = v7 /\ v7 \in Nat
    BY <1>1, <1>3, <2>1, SMT DEF S!Vector, S!IDT_NR_DESC
  <2>3. a = S!Place(v7) /\ a \in Nat
    BY <2>2, TrampolinePlaces, Installed, <1>1, SMT
  <2> HIDE DEF a
  <2>4. g \in Gate /\ g.p = 1 /\ g.type = 14 /\ Leads(g, a)
    BY <2>3, Halves DEF S!build_int_desc, S!INTR_GATE, Gate, Leads
  <2> HIDE DEF g
  <2>5. v6' \in [S!Vector -> Gate] /\ v6'[v7] = g /\ \A v \in S!Vector : v # v7 => v6'[v] = v6[v]
    BY <1>1, <2>1, <2>2, <2>4
  <2>6. \A v \in 0 .. v7 : v = v7 \/ (v \in 0 .. v7 - 1 /\ v \in S!Vector /\ v # v7)
    BY <1>1, <1>3, SMT DEF S!Vector, S!IDT_NR_DESC
  <2>7. ASSUME NEW v \in 0 .. v7
        PROVE  v6'[v].p = 1 /\ v6'[v].type = 14 /\ Leads(v6'[v], S!Place(v))
    BY <1>1, <2>3, <2>4, <2>5, <2>6 DEF Leads
  <2> QED
    BY <1>1, <1>2, <2>1, <2>2, <2>5, <2>7 DEF GateInv, GatesHold, GateTypes, GatesBuilt, GateWritten
<1>4. CASE v7 = 256
  <2>1. v8' = 2047 /\ UNCHANGED <<v6, v7>>
    BY <1>4, SMT DEF S!intr_init, S!IDT_NR_DESC
  <2>2. v8' # -1 /\ v8' \in {-1, 2047}
    BY <2>1, SMT
  <2>3. UNCHANGED <<v5, v6, v7, v9>> /\ v5' = 8 /\ v7' = 256
    BY <1>2, <1>4, <2>1
  <2>4. GatesHold'
    BY <2>3 DEF GateInv, GatesHold, GateTypes, GatesBuilt, GateWritten
  <2>5. 8 \in 0 .. 8
    BY SMT
  <2> QED
    BY <2>2, <2>3, <2>4, <2>5 DEF GateInv
<1> QED
  <2>1. v7 < 256 \/ v7 = 256
    BY <1>1, SMT
  <2> QED
    BY <1>3, <1>4, <2>1

\* The step of a tp that writes in its gate: the table is loaded and complete.
LEMMA Loaded ==
  ASSUME GateInv, v8 # -1
  PROVE  /\ GatesHold /\ v7 = 256 /\ v5 = 8 /\ v9.what.nr \in 0 .. v7 - 1
         /\ v9.what.nr \in S!Vector /\ v9.what.nr # 2 /\ v9.what.handler \in Nat
         /\ v9.what.ring \in {0, 3}
<1>1. GatesHold /\ v7 = 256 /\ v5 = 8 /\ v9.what \in Installs
  BY DEF GateInv, GatesHold, GateTypes, GatesBuilt, GateWritten
<1>2. v9.what.nr \in 0 .. 255
  BY <1>1, Installed
<1>3. v9.what.nr \in 0 .. v7 - 1
  BY <1>1, <1>2, SMT
<1> QED
  BY <1>1, <1>3, Installed

\* A write in its own gate leaves the others as intr_init has built them.
LEMMA OthersStay ==
  ASSUME GateTypes, GatesBuilt, v7 = 256, UNCHANGED v7, v9'.what = v9.what,
         v9'.step # "low",
         \A v \in S!Vector : v # v9.what.nr => v6'[v] = v6[v],
         v6'[v9.what.nr].p = v6[v9.what.nr].p, v6'[v9.what.nr].type = v6[v9.what.nr].type
  PROVE  GatesBuilt'
<1> SUFFICES ASSUME NEW v \in 0 .. v7' - 1
             PROVE  (/\ v6[v].p = 1 /\ v6[v].type = 14
                     /\ v # v9.what.nr \/ v9.step = "low" => Leads(v6[v], S!Place(v)))'
  BY DEF GatesBuilt
<1> SUFFICES /\ v6'[v].p = 1 /\ v6'[v].type = 14
             /\ v # v9.what.nr => Leads(v6'[v], S!Place(v))
  <2>1. S!Place(v)' = S!Place(v)
    BY DEF S!Place
  <2> QED
    BY <2>1 DEF Leads
<1>1. v \in S!Vector
  BY SMT DEF S!Vector, S!IDT_NR_DESC
<1>2. /\ v6[v].p = 1 /\ v6[v].type = 14
      /\ v # v9.what.nr => Leads(v6[v], S!Place(v))
  BY DEF GatesBuilt
<1>3. CASE v = v9.what.nr
  BY <1>2, <1>3
<1>4. CASE v # v9.what.nr
  BY <1>1, <1>2, <1>4
<1> QED
  BY <1>3, <1>4

LEMMA GateLow ==
  ASSUME GateInv, S!install_low
  PROVE  GateInv'
<1> DEFINE nr == v9.what.nr
           n  == v9.what.handler % S!Half
<1>1. v8 # -1 /\ v9.step = "low" /\ UNCHANGED <<v5, v7, v8>>
      /\ v6' = [v6 EXCEPT ![nr].offset_1 = n] /\ v9' = [v9 EXCEPT !.step = "high"]
  BY DEF S!install_low
<1>2. /\ GateTypes /\ GatesBuilt /\ v7 = 256 /\ nr \in S!Vector /\ n \in Nat
  BY <1>1, Loaded, Halves DEF GatesHold
<1>3. v6 \in [S!Vector -> Gate] /\ v9.what \in Installs /\ DOMAIN v9 = {"what", "step"}
  BY <1>2 DEF GateTypes
<1>4. v9'.what = v9.what /\ v9'.step = "high" /\ DOMAIN v9' = {"what", "step"}
  BY <1>1, <1>3
<1> HIDE DEF n
<1>5. /\ v6' \in [S!Vector -> Gate] /\ v6'[nr].offset_1 = n
      /\ v6'[nr].p = v6[nr].p /\ v6'[nr].type = v6[nr].type
      /\ \A v \in S!Vector : v # nr => v6'[v] = v6[v]
  <2> HIDE DEF nr
  <2> QED
    BY <1>1, <1>2, <1>3 DEF Gate
<1>6. GateTypes'
  BY <1>1, <1>2, <1>3, <1>4, <1>5 DEF GateTypes
<1>7. GatesBuilt'
  BY <1>1, <1>2, <1>4, <1>5, OthersStay
<1>8. GateWritten'
  BY <1>4, <1>5 DEF GateWritten, n
<1> QED
  BY <1>1, <1>6, <1>7, <1>8 DEF GateInv, GatesHold

LEMMA GateHigh ==
  ASSUME GateInv, S!install_high
  PROVE  GateInv'
<1> DEFINE nr == v9.what.nr
           n  == v9.what.handler \div S!Half
           s  == IF v9.what.ring = 3 THEN "dpl" ELSE "done"
<1>1. v9.step = "high" /\ v8 # -1 /\ UNCHANGED <<v5, v7, v8>>
      /\ v6' = [v6 EXCEPT ![nr].offset_2 = n] /\ v9' = [v9 EXCEPT !.step = s]
  BY DEF S!install_high, GateInv
<1>2. /\ GateTypes /\ GatesBuilt /\ GateWritten /\ v7 = 256 /\ nr \in S!Vector
      /\ n \in Nat /\ v9.what.ring \in {0, 3}
  BY <1>1, Loaded, Halves DEF GatesHold
<1>3. v6 \in [S!Vector -> Gate] /\ v9.what \in Installs /\ DOMAIN v9 = {"what", "step"}
  BY <1>2 DEF GateTypes
<1>4. v9'.what = v9.what /\ v9'.step = s /\ DOMAIN v9' = {"what", "step"}
  BY <1>1, <1>3
<1> HIDE DEF n
<1>5. /\ v6' \in [S!Vector -> Gate] /\ v6'[nr].offset_2 = n
      /\ v6'[nr].p = v6[nr].p /\ v6'[nr].type = v6[nr].type
      /\ v6'[nr].offset_1 = v6[nr].offset_1 /\ v6'[nr].dpl \in {0, 3}
      /\ \A v \in S!Vector : v # nr => v6'[v] = v6[v]
  <2> HIDE DEF nr, s
  <2> QED
    BY <1>1, <1>2, <1>3 DEF Gate
<1>6. /\ v9'.step \in {"dpl", "done"}
      /\ v9'.step = "dpl" => v9.what.ring = 3
      /\ v9'.step = "done" => v9.what.ring = 0
  BY <1>2, <1>4
<1>7. v9'.step = "done" => v6'[nr].dpl >= v9.what.ring
  BY <1>5, <1>6, SMT
<1>8. v6'[nr].offset_1 = v9.what.handler % S!Half
  BY <1>1, <1>2, <1>5 DEF GateWritten
<1>9. GateTypes'
  BY <1>1, <1>2, <1>3, <1>4, <1>5, <1>6 DEF GateTypes
<1>10. GatesBuilt'
  <2>1. v9'.step # "low"
    BY <1>6
  <2> QED
    BY <1>1, <1>2, <1>4, <1>5, <2>1, OthersStay
<1>11. GateWritten'
  BY <1>4, <1>5, <1>6, <1>7, <1>8 DEF GateWritten, n
<1> QED
  BY <1>1, <1>9, <1>10, <1>11 DEF GateInv, GatesHold

LEMMA GateRing ==
  ASSUME GateInv, S!install_dpl
  PROVE  GateInv'
<1> DEFINE nr == v9.what.nr
<1>1. v9.step = "dpl" /\ v8 # -1 /\ UNCHANGED <<v5, v7, v8>>
      /\ v6' = [v6 EXCEPT ![nr].dpl = 3] /\ v9' = [v9 EXCEPT !.step = "done"]
  BY DEF S!install_dpl, GateInv
<1>2. /\ GateTypes /\ GatesBuilt /\ GateWritten /\ v7 = 256 /\ nr \in S!Vector
      /\ v9.what.ring \in {0, 3}
  BY <1>1, Loaded DEF GatesHold, GateTypes, GatesBuilt, GateWritten
<1>3. v6 \in [S!Vector -> Gate] /\ v9.what \in Installs /\ DOMAIN v9 = {"what", "step"}
  BY <1>2 DEF GateTypes
<1>4. v9'.what = v9.what /\ v9'.step = "done" /\ DOMAIN v9' = {"what", "step"}
  BY <1>1, <1>3
<1>5. /\ v6' \in [S!Vector -> Gate] /\ v6'[nr].offset_2 = v6[nr].offset_2
      /\ v6'[nr].p = v6[nr].p /\ v6'[nr].type = v6[nr].type
      /\ v6'[nr].offset_1 = v6[nr].offset_1 /\ v6'[nr].dpl = 3
      /\ \A v \in S!Vector : v # nr => v6'[v] = v6[v]
  <2> HIDE DEF nr
  <2> QED
    BY <1>1, <1>2, <1>3 DEF Gate
<1>6. v6'[nr].dpl >= v9.what.ring
  BY <1>2, <1>5, SMT
<1>7. GateTypes'
  BY <1>1, <1>2, <1>3, <1>4, <1>5 DEF GateTypes
<1>8. GatesBuilt'
  BY <1>1, <1>2, <1>4, <1>5, OthersStay
<1>9. /\ v6[nr].offset_1 = v9.what.handler % S!Half
      /\ v6[nr].offset_2 = v9.what.handler \div S!Half
  BY <1>1, <1>2 DEF GateWritten
<1>10. GateWritten'
  BY <1>4, <1>5, <1>6, <1>9 DEF GateWritten
<1> QED
  BY <1>1, <1>7, <1>8, <1>10 DEF GateInv, GatesHold

LEMMA GateNext ==
  ASSUME GateInv, ChipInv', S!Next
  PROVE  GateInv'
<1>1. CASE S!pic_init
  <2>1. UNCHANGED <<v6, v7, v8, v9>> /\ v5 < 8 /\ v5' \in 0 .. 8
    BY <1>1, WordsLength DEF S!pic_init, ChipInv
  <2>2. v8 = -1
    <3>1. ~(8 < 8)
      BY SMT
    <3> QED
      BY <2>1, <3>1 DEF GateInv
  <2>3. GatesHold'
    BY <2>1 DEF GateInv, GatesHold, GateTypes, GatesBuilt, GateWritten
  <2> QED
    BY <2>1, <2>2, <2>3 DEF GateInv
<1>2. CASE UNCHANGED <<v5, v6, v7, v8, v9>>
  BY <1>2 DEF GateInv, GatesHold, GateTypes, GatesBuilt, GateWritten
<1>3. \/ S!pic_init \/ S!intr_init \/ S!install_low \/ S!install_high \/ S!install_dpl
      \/ UNCHANGED <<v5, v6, v7, v8, v9>>
  BY DEF S!Next, S!Run, S!NMI, S!SoftwareInterrupt, S!Return, S!RaiseLine
<1> QED
  BY <1>1, <1>2, <1>3, GateBuilt, GateLow, GateHigh, GateRing

\* The gate of a vector that no tp installs a handler for leads to its trampoline.
LEMMA ToTrampoline ==
  ASSUME GateInv, v8 # -1, NEW v \in S!Vector, v # v9.what.nr
  PROVE  S!Target(v) = S!Place(v)
<1>1. v \in 0 .. v7 - 1
  <2>1. v7 = 256 /\ v \in 0 .. 255
    BY Loaded, TrampolinePlaces
  <2> QED
    BY <2>1, SMT
<1>2. Leads(v6[v], S!Place(v))
  BY <1>1, Loaded DEF GatesHold, GateTypes, GatesBuilt, GateWritten
<1>3. S!Place(v) \in Nat
  <2>1. S!Place(v) = idt_trampoline + 16 * v /\ v \in 0 .. 255 /\ idt_trampoline \in Nat
    BY TrampolinePlaces, StartupAssumption DEF S!InstallsAssumption
  <2> QED
    BY <2>1, SMT
<1> QED
  BY <1>2, <1>3, TargetOf

LEMMA EventNext ==
  ASSUME GateInv, EventInv, S!Next
  PROVE  EventInv'
<1>1. CASE S!Run \/ S!Return
  <2>1. v10' = S!NoEvent
    BY <1>1 DEF S!Run, S!Return, S!pic_init, S!intr_init, S!install_low, S!install_high,
       S!install_dpl
  <2>2. v10'.by = "none"
    BY <2>1 DEF S!NoEvent
  <2> QED
    BY <2>1, <2>2 DEF EventInv
<1>2. CASE S!NMI
  <2>1. v10' = [by |-> "nmi", nr |-> 2, to |-> S!Target(2)]
    BY <1>2 DEF S!NMI, S!Take
  <2>2. S!Target(2) \in {-1, S!Place(2)}
    <3>1. CASE v8 = -1
      BY <3>1 DEF S!Target
    <3>2. CASE v8 # -1
      <4>1. 2 \in S!Vector
        BY SMT DEF S!Vector, S!IDT_NR_DESC
      <4>2. 2 # v9.what.nr
        BY <3>2, Loaded
      <4> QED
        BY <3>2, <4>1, <4>2, ToTrampoline
    <3> QED
      BY <3>1, <3>2
  <2>3. v10'.by = "nmi" /\ v10'.to = S!Target(2)
    BY <2>1
  <2>4. S!Place(2)' = S!Place(2)
    BY DEF S!Place
  <2> QED
    BY <2>2, <2>3, <2>4 DEF EventInv
<1>3. CASE S!SoftwareInterrupt
  <2> DEFINE nr == v9.what.nr
  <2>1. v9.step = "done" /\ v9' = v9 /\ v8 # -1
    BY <1>3 DEF S!SoftwareInterrupt, GateInv
  <2>2. GatesHold /\ nr \in S!Vector /\ v9.what.handler \in Nat
    BY <2>1, Loaded
  <2>3. v6[nr].dpl >= v9.what.ring /\ Leads(v6[nr], v9.what.handler)
    BY <2>1, <2>2 DEF GatesHold, GateWritten, Leads
  <2>4. v10' = [by |-> "int", nr |-> nr, to |-> S!Target(nr)]
    BY <1>3, <2>3 DEF S!SoftwareInterrupt, S!Take
  <2>5. S!Target(nr) = v9.what.handler
    BY <2>1, <2>2, <2>3, TargetOf
  <2> QED
    BY <2>1, <2>4, <2>5 DEF EventInv
<1>4. CASE S!RaiseLine
  <2>1. UNCHANGED <<v9, v10>>
    BY <1>4 DEF S!RaiseLine
  <2> QED
    BY <2>1 DEF EventInv, S!Place
<1> QED
  BY <1>1, <1>2, <1>3, <1>4 DEF S!Next

\* Where the events lead, from the gates.
LEMMA GatesThen ==
  ASSUME ChipInv, GateInv, EventInv
  PROVE  S!GatesLead /\ S!LinesAcknowledged /\ S!HandlerReached
<1>1. S!GatesLead
  BY ToTrampoline DEF S!GatesLead
<1>2. S!LinesAcknowledged
  <2> SUFFICES ASSUME v8 # -1, NEW i \in (0 .. 15) \ {S!Cascade},
                      S!VectorGiven(i) # v9.what.nr
               PROVE  S!AcksOf(S!TrampolineAt(S!Target(S!VectorGiven(i))))
                          = IF i < 8 THEN {S!PIC1} ELSE {S!PIC1, S!PIC2}
    BY DEF S!LinesAcknowledged
  <2>1. S!VectorGiven(i) = 32 + i
    BY Loaded, VectorsGiven
  <2>2. 32 + i \in S!Vector
    BY SMT DEF S!Vector, S!IDT_NR_DESC
  <2>3. S!Target(32 + i) = S!Place(32 + i)
    BY <2>1, <2>2, ToTrampoline
  <2>4. S!TrampolineAt(S!Place(32 + i)) = 32 + i
    BY <2>2, PlaceTells
  <2>5. S!AcksOf(32 + i) = IF i < 8 THEN {S!PIC1} ELSE {S!PIC1, S!PIC2}
    BY SMT DEF S!AcksOf
  <2> QED
    BY <2>1, <2>3, <2>4, <2>5
<1>3. S!HandlerReached
  BY DEF S!HandlerReached, EventInv
<1> QED
  BY <1>1, <1>2, <1>3

-----------------------------------------------------------------------------
(* The segments: what the programs are *)

LEMMA FlatText ==
  /\ Len(G!init_gdt) = 12
  /\ G!init_gdt[1] = G!Describe(0, G!Null)
  /\ G!init_gdt[2] = G!Describe(1, G!gdt_flat_dsc(0, 10))
  /\ G!init_gdt[3] = G!Describe(2, G!gdt_flat_dsc(0, 2))
  /\ G!init_gdt[4] = G!Describe(3, G!gdt_flat_dsc(3, 10))
  /\ G!init_gdt[5] = G!Describe(4, G!gdt_flat_dsc(3, 2))
  /\ G!init_gdt[6] = G!set_gdtr(6)
  /\ G!init_gdt[7] = G!set_cs(8)
  /\ G!init_gdt[8] = G!set("ss", 16)
  /\ G!init_gdt[9] = G!set("ds", 16)
  /\ G!init_gdt[10] = G!set("es", 16)
  /\ G!init_gdt[11] = G!set("fs", 16)
  /\ G!init_gdt[12] = G!set("gs", 16)
  BY SMTT(60) DEF G!init_gdt, G!FlatTable, G!SetAll, G!c0_idx, G!d0_idx, G!c3_idx, G!d3_idx, G!gdt_krn_seg_sel, G!CODE_XR, G!DATA_RW

LEMMA RingText ==
  \A w \in Int :
      /\ Len(G!ToRing3(w)) = 8
      /\ G!ToRing3(w)[1] = G!set("ds", 35)
      /\ G!ToRing3(w)[2] = G!set("es", 35)
      /\ G!ToRing3(w)[3] = G!set("fs", 35)
      /\ G!ToRing3(w)[4] = G!set("gs", 35)
      /\ G!ToRing3(w)[5] = G!set_tss(30)
      /\ G!ToRing3(w)[6] = G!Describe(5, G!tss_dsc)
      /\ G!ToRing3(w)[7] = G!set_tr(40)
      /\ G!ToRing3(w)[8] = G!iret(27, 35, w)
  BY SMTT(60) DEF G!ToRing3, G!SetAll, G!c3_idx, G!d3_idx, G!ts_idx, G!gdt_krn_seg_sel, G!gdt_usr_seg_sel, G!EBP

LEMMA ExamText ==
  /\ Len(G!init_tss) = 4
  /\ G!init_tss[1] = G!Describe(5, G!initialize_segment_descriptor(3, 8329, 9, 0, 0, 0, 1))
  /\ G!init_tss[2] = G!rep(3, 8329)
  /\ G!init_tss[3] = G!set_tss(50)
  /\ G!init_tss[4] = G!set_tr(40)
  BY SMTT(60) DEF G!init_tss, G!ts_idx, G!gdt_krn_seg_sel, G!PHY_KERNEL_STACK, G!TSS_ADDR, G!SizeofTss, G!TSS_AVL

LEMMA Tp1Text ==
  /\ Len(G!tp1) = 18
  /\ G!tp1[1] = G!Describe(0, G!Null)
  /\ G!tp1[2] = G!Describe(1, G!Descriptor(1, 11, 0, 1, 1, 0, G!FLAT))
  /\ G!tp1[3] = G!Describe(2, G!Descriptor(1, 3, 0, 1, 1, 0, G!FLAT))
  /\ G!tp1[4] = G!set_gdtr(7)
  /\ G!tp1[5] = G!set("ds", 16)
  /\ G!tp1[6] = G!set_cs(8)
  /\ G!tp1[7] = G!rep(30, 64)
  /\ G!tp1[8] = G!Describe(3, G!Descriptor(1, 3, 0, 1, 0, 6, 31))
  /\ G!tp1[9] = G!set("es", 24)
  /\ G!tp1[10] = G!rep(0, 32)
  /\ G!tp1[11] = G!Describe(4, G!Descriptor(1, 11, 3, 1, 1, 0, G!FLAT))
  /\ G!tp1[12] = G!Describe(5, G!Descriptor(1, 3, 3, 1, 1, 0, G!FLAT))
  /\ G!tp1[13] = G!set("ds", 43)
  /\ G!tp1[14] = G!set("es", 43)
  /\ G!tp1[15] = G!set("fs", 43)
  /\ G!tp1[16] = G!set("gs", 43)
  /\ G!tp1[17] = G!Op("return")
  /\ G!tp1[18] = G!Op("panic")
  BY SMTT(60) DEF G!tp1, G!SetAll, G!gdt_krn_seg_sel, G!gdt_usr_seg_sel, G!EBP, G!CODE_XRA, G!DATA_RWA

Rings == {"tp3", "tp5"}         \* the programs that go to ring 3

LEMMA ProgramText ==
  /\ G!Code["tp1"] = G!tp1 /\ G!Code["tp3"] = G!tp3 /\ G!Code["tp5"] = G!tp5
  /\ G!Code["exam"] = G!tp_exam
  /\ DOMAIN G!Code = {"tp1", "tp3", "tp5", "exam"}
  /\ Len(G!tp3) = 22 /\ Len(G!tp5) = 23 /\ Len(G!tp_exam) = 18
  /\ \A k \in 1 .. 12 : /\ G!tp3[k] = G!init_gdt[k]
                        /\ G!tp5[k] = G!init_gdt[k]
                        /\ G!tp_exam[k] = G!init_gdt[k]
  /\ \A k \in 13 .. 20 : /\ G!tp3[k] = G!ToRing3(30)[k - 12]
                         /\ G!tp5[k] = G!ToRing3(60)[k - 12]
  /\ \A k \in 13 .. 16 : G!tp_exam[k] = G!init_tss[k - 12]
  /\ G!tp3[21] = G!Op("push") /\ G!tp3[22] = G!Op("privileged")
  /\ G!tp5[21] = G!Op("push") /\ G!tp5[22] = G!Op("int48") /\ G!tp5[23] = G!Op("loop")
  /\ G!tp_exam[17] = G!Op("return") /\ G!tp_exam[18] = G!Op("panic")
<1>1. /\ G!Code["tp1"] = G!tp1 /\ G!Code["tp3"] = G!tp3 /\ G!Code["tp5"] = G!tp5
      /\ G!Code["exam"] = G!tp_exam
      /\ DOMAIN G!Code = {"tp1", "tp3", "tp5", "exam"}
  BY DEF G!Code
<1>2. /\ Len(G!tp3) = 22
      /\ \A k \in 1 .. 12 : G!tp3[k] = G!init_gdt[k]
      /\ \A k \in 13 .. 20 : G!tp3[k] = G!ToRing3(30)[k - 12]
      /\ G!tp3[21] = G!Op("push") /\ G!tp3[22] = G!Op("privileged")
  BY SMTT(60) DEF G!tp3, G!init_gdt, G!FlatTable, G!SetAll, G!ToRing3, G!EBP
<1>3. /\ Len(G!tp5) = 23
      /\ \A k \in 1 .. 12 : G!tp5[k] = G!init_gdt[k]
      /\ \A k \in 13 .. 20 : G!tp5[k] = G!ToRing3(60)[k - 12]
      /\ G!tp5[21] = G!Op("push") /\ G!tp5[22] = G!Op("int48") /\ G!tp5[23] = G!Op("loop")
  BY SMTT(60) DEF G!tp5, G!init_gdt, G!FlatTable, G!SetAll, G!ToRing3, G!tp5_stack, G!UStack
<1>4. /\ Len(G!tp_exam) = 18
      /\ \A k \in 1 .. 12 : G!tp_exam[k] = G!init_gdt[k]
      /\ \A k \in 13 .. 16 : G!tp_exam[k] = G!init_tss[k - 12]
      /\ G!tp_exam[17] = G!Op("return") /\ G!tp_exam[18] = G!Op("panic")
  BY SMTT(60) DEF G!tp_exam, G!init_gdt, G!FlatTable, G!SetAll, G!init_tss
<1> QED
  BY <1>1, <1>2, <1>3, <1>4

\* What kind of instruction is where
Kinds ==
    [tp1 |-> <<"describe", "describe", "describe", "lgdt", "load", "jump", "string", "describe",
               "load", "string", "describe", "describe", "load", "load", "load", "load",
               "return", "panic">>,
     tp3 |-> <<"describe", "describe", "describe", "describe", "describe", "lgdt", "jump", "load",
               "load", "load", "load", "load", "load", "load", "load", "load", "tss", "describe",
               "ltr", "iret", "push", "privileged">>,
     tp5 |-> <<"describe", "describe", "describe", "describe", "describe", "lgdt", "jump", "load",
               "load", "load", "load", "load", "load", "load", "load", "load", "tss", "describe",
               "ltr", "iret", "push", "int48", "loop">>,
     exam |-> <<"describe", "describe", "describe", "describe", "describe", "lgdt", "jump", "load",
                "load", "load", "load", "load", "describe", "string", "tss", "ltr", "return",
                "panic">>]
Progs == {"tp1", "tp3", "tp5", "exam"}
LastOp(p) == IF p = "tp3" THEN 22 ELSE IF p = "tp5" THEN 23 ELSE 18

LEMMA OpsOf ==
  \A p \in Progs : /\ Len(G!Code[p]) = LastOp(p)
                   /\ \A k \in 1 .. LastOp(p) : G!Code[p][k].op = Kinds[p][k]
<1>1. \A k \in 1 .. 12 : G!init_gdt[k].op = Kinds["exam"][k]
  BY FlatText, SMTT(60) DEF Kinds, G!Describe, G!set_gdtr, G!set_cs, G!set
<1>2. \A w \in Int : \A k \in 1 .. 8 : G!ToRing3(w)[k].op = Kinds["tp3"][k + 12]
  <2> SUFFICES ASSUME NEW w \in Int, NEW k \in 1 .. 8
               PROVE  G!ToRing3(w)[k].op = Kinds["tp3"][k + 12]
    OBVIOUS
  <2> DEFINE t == G!ToRing3(w)
  <2>1. /\ t[1].op = "load" /\ t[2].op = "load" /\ t[3].op = "load" /\ t[4].op = "load"
        /\ t[5].op = "tss" /\ t[6].op = "describe" /\ t[7].op = "ltr" /\ t[8].op = "iret"
    <3>1. /\ t[1] = G!set("ds", 35) /\ t[2] = G!set("es", 35) /\ t[3] = G!set("fs", 35)
          /\ t[4] = G!set("gs", 35) /\ t[5] = G!set_tss(30)
          /\ t[6] = G!Describe(5, G!tss_dsc) /\ t[7] = G!set_tr(40) /\ t[8] = G!iret(27, 35, w)
      BY RingText, Zenon
    <3> HIDE DEF t
    <3> QED
      BY <3>1 DEF G!Describe, G!set, G!set_tss, G!set_tr, G!iret
  <2> HIDE DEF t
  <2>2. t[k].op = Kinds["tp3"][k + 12]
    BY <2>1, SMTT(60) DEF Kinds
  <2> QED
    BY <2>2 DEF t
<1>3. \A k \in 1 .. 4 : G!init_tss[k].op = Kinds["exam"][k + 12]
  BY ExamText, SMTT(60) DEF Kinds, G!Describe, G!rep, G!set_tss, G!set_tr
<1>4. \A k \in 1 .. 18 : G!tp1[k].op = Kinds["tp1"][k]
  BY Tp1Text, SMTT(60) DEF Kinds, G!Describe, G!set_gdtr, G!set_cs, G!set, G!rep, G!Op
<1>5. \A k \in 1 .. 22 : G!tp3[k].op = Kinds["tp3"][k]
  <2> SUFFICES ASSUME NEW k \in 1 .. 22 PROVE G!tp3[k].op = Kinds["tp3"][k]
    OBVIOUS
  <2>1. CASE k \in 1 .. 12
    <3>1. Kinds["tp3"][k] = Kinds["exam"][k]
      BY <2>1, SMT DEF Kinds
    <3> QED
      BY <1>1, <2>1, <3>1, ProgramText
  <2>2. CASE k \in 13 .. 20
    <3>1. k - 12 \in 1 .. 8 /\ k - 12 + 12 = k /\ 30 \in Int
      BY <2>2, SMT
    <3> QED
      BY <1>2, <2>2, <3>1, ProgramText
  <2>3. CASE k \in {21, 22}
    BY <2>3, ProgramText, SMT DEF Kinds, G!Op
  <2> QED
    BY <2>1, <2>2, <2>3, SMT
<1>6. \A k \in 1 .. 23 : G!tp5[k].op = Kinds["tp5"][k]
  <2> SUFFICES ASSUME NEW k \in 1 .. 23 PROVE G!tp5[k].op = Kinds["tp5"][k]
    OBVIOUS
  <2>1. CASE k \in 1 .. 12
    <3>1. Kinds["tp5"][k] = Kinds["exam"][k]
      BY <2>1, SMT DEF Kinds
    <3> QED
      BY <1>1, <2>1, <3>1, ProgramText
  <2>2. CASE k \in 13 .. 20
    <3>1. k - 12 \in 1 .. 8 /\ k - 12 + 12 = k /\ 60 \in Int
      BY <2>2, SMT
    <3>2. Kinds["tp5"][k] = Kinds["tp3"][k]
      BY <2>2, SMT DEF Kinds
    <3> QED
      BY <1>2, <2>2, <3>1, <3>2, ProgramText
  <2>3. CASE k \in {21, 22, 23}
    BY <2>3, ProgramText, SMT DEF Kinds, G!Op
  <2> QED
    BY <2>1, <2>2, <2>3, SMT
<1>7. \A k \in 1 .. 18 : G!tp_exam[k].op = Kinds["exam"][k]
  <2> SUFFICES ASSUME NEW k \in 1 .. 18 PROVE G!tp_exam[k].op = Kinds["exam"][k]
    OBVIOUS
  <2>1. CASE k \in 1 .. 12
    BY <1>1, <2>1, ProgramText
  <2>2. CASE k \in 13 .. 16
    <3>1. k - 12 \in 1 .. 4 /\ k - 12 + 12 = k
      BY <2>2, SMT
    <3> QED
      BY <1>3, <2>2, <3>1, ProgramText
  <2>3. CASE k \in {17, 18}
    BY <2>3, ProgramText, SMT DEF Kinds, G!Op
  <2> QED
    BY <2>1, <2>2, <2>3, SMT
<1> SUFFICES ASSUME NEW p \in Progs
             PROVE  /\ Len(G!Code[p]) = LastOp(p)
                    /\ \A k \in 1 .. LastOp(p) : G!Code[p][k].op = Kinds[p][k]
  OBVIOUS
<1>8. CASE p = "tp1"
  BY <1>4, <1>8, ProgramText, Tp1Text DEF LastOp
<1>9. CASE p = "tp3"
  BY <1>5, <1>9, ProgramText DEF LastOp
<1>10. CASE p = "tp5"
  BY <1>6, <1>10, ProgramText DEF LastOp
<1>11. CASE p = "exam"
  BY <1>7, <1>11, ProgramText DEF LastOp
<1> QED
  BY <1>8, <1>9, <1>10, <1>11 DEF Progs

\* The instructions of one kind
LEMMA WhereIs ==
  ASSUME v1 \in Progs, v2 \in 1 .. LastOp(v1) + 1, NEW o, G!At(o)
  PROVE  /\ v2 \in 1 .. LastOp(v1) /\ G!now = G!Code[v1][v2] /\ o = Kinds[v1][v2]
         /\ v11 = << >> /\ v12 = 0
<1>1. v2 <= Len(G!Code[v1]) /\ G!now.op = o /\ v11 = << >> /\ v12 = 0
  BY DEF G!At, G!Running
<1>2. v2 \in 1 .. LastOp(v1)
  BY <1>1, OpsOf, SMT DEF LastOp
<1> QED
  BY <1>1, <1>2, OpsOf DEF G!now

LEMMA WhereDescribe ==
  ASSUME v1 \in Progs, v2 \in 1 .. LastOp(v1), Kinds[v1][v2] = "describe"
  PROVE  \/ (v1 = "tp1" /\ v2 \in {1, 2, 3, 8, 11, 12})
         \/ (v1 # "tp1" /\ v2 \in 1 .. 5)
         \/ (v1 \in Rings /\ v2 = 18)
         \/ (v1 = "exam" /\ v2 = 13)
  BY SMTT(60) DEF Progs, LastOp, Kinds, Rings

LEMMA WhereLoad ==
  ASSUME v1 \in Progs, v2 \in 1 .. LastOp(v1), Kinds[v1][v2] = "load"
  PROVE  \/ (v1 = "tp1" /\ v2 \in {5, 9, 13, 14, 15, 16})
         \/ (v1 # "tp1" /\ v2 \in 8 .. 12)
         \/ (v1 \in Rings /\ v2 \in 13 .. 16)
  BY SMTT(60) DEF Progs, LastOp, Kinds, Rings

LEMMA WhereOthers ==
  ASSUME v1 \in Progs, v2 \in 1 .. LastOp(v1)
  PROVE  /\ Kinds[v1][v2] = "lgdt" => v2 = IF v1 = "tp1" THEN 4 ELSE 6
         /\ Kinds[v1][v2] = "jump" => v2 = IF v1 = "tp1" THEN 6 ELSE 7
         /\ Kinds[v1][v2] = "ltr" => v1 # "tp1" /\ v2 = IF v1 = "exam" THEN 16 ELSE 19
         /\ Kinds[v1][v2] = "tss" => v1 # "tp1" /\ v2 = IF v1 = "exam" THEN 15 ELSE 17
         /\ Kinds[v1][v2] = "string" =>
                (v1 = "tp1" /\ v2 \in {7, 10}) \/ (v1 = "exam" /\ v2 = 14)
         /\ Kinds[v1][v2] = "iret" => v1 \in Rings /\ v2 = 20
         /\ Kinds[v1][v2] = "push" => v1 \in Rings /\ v2 = 21
         /\ Kinds[v1][v2] = "privileged" => v1 = "tp3" /\ v2 = 22
         /\ Kinds[v1][v2] = "int48" => v1 = "tp5" /\ v2 = 22
         /\ Kinds[v1][v2] = "return" => v1 \in {"tp1", "exam"} /\ v2 = 17
         /\ Kinds[v1][v2] = "panic" => v1 \in {"tp1", "exam"} /\ v2 = 18
  BY SMTT(60) DEF Progs, LastOp, Kinds, Rings

-----------------------------------------------------------------------------
(* The segments: tables and registers *)

Descr == [s : Nat, type : Nat, dpl : Nat, p : Nat, d : Nat, g : Nat, base : Nat, limit : Nat]

\* Descriptors of the whole memory, accessed or not, and tp1's of 32 bytes
FlatCode(x, ring) ==
    /\ x.s = 1 /\ x.type \in {10, 11} /\ x.dpl = ring /\ x.p = 1 /\ x.d = 1 /\ x.g = 1
    /\ x.base = 0 /\ x.limit = G!FLAT
FlatData(x, ring) ==
    /\ x.s = 1 /\ x.type \in {2, 3} /\ x.dpl = ring /\ x.p = 1 /\ x.d = 1 /\ x.g = 1
    /\ x.base = 0 /\ x.limit = G!FLAT
SmallData(x) ==
    /\ x.s = 1 /\ x.type = 3 /\ x.dpl = 0 /\ x.p = 1 /\ x.d = 1 /\ x.g = 0
    /\ x.base = 6 /\ x.limit = 31
TssEntry(x) == x.p = 1 /\ x.s = 0 /\ x.type = 9

\* tp1's table has gone with its frame
Gone == v1 = "tp1" /\ v2 = 19

\* What the program has described by its instruction v2, and loaded in GDTR and TR
TableInv ==
    /\ v4 \in [0 .. 6 -> Descr]
    /\ v3 \in BOOLEAN
    /\ v1 = "tp1" => (v3 <=> v2 <= 4) /\ (~v3 => v5 = 7)
    /\ v1 # "tp1" => (v3 <=> v2 <= 6) /\ (~v3 => v5 = 6)
    /\ v2 >= 3 => FlatCode(v4[1], 0) \/ (Gone /\ v11 = << >> /\ v4[1].p = 0)
    /\ v2 >= 4 /\ ~Gone => FlatData(v4[2], 0)
    /\ v1 = "tp1" /\ ~Gone => /\ v2 >= 9 => SmallData(v4[3])
                              /\ v2 >= 13 => FlatData(v4[5], 3)
    /\ v1 # "tp1" => /\ v2 >= 5 => FlatCode(v4[3], 3)
                     /\ v2 >= 6 => FlatData(v4[4], 3)
                     /\ (v1 \in Rings /\ v2 = 19) \/ (v1 = "exam" /\ v2 \in 14 .. 16) =>
                            TssEntry(v4[5])
    /\ v1 \in Rings /\ v2 >= 18 => v8.ss0 = 16 /\ v8.esp0 = 30
    /\ v1 \in Rings /\ v2 >= 20 => v7 = 5

\* What a segment register may hold when program p is at its instruction k
RegOK(x, p, k) ==
    \/ x.sel = 8 /\ FlatCode(x.dsc, 0)
    \/ x.sel = 16 /\ FlatData(x.dsc, 0)
    \/ x.sel = 24 /\ SmallData(x.dsc) /\ p = "tp1" /\ k >= 10
    \/ x.sel = 27 /\ FlatCode(x.dsc, 3) /\ p \in Rings /\ k >= 21
    \/ x.sel = 35 /\ FlatData(x.dsc, 3) /\ p \in Rings /\ k >= 14
    \/ x.sel = 43 /\ FlatData(x.dsc, 3) /\ p = "tp1" /\ k >= 14

Regs == {"cs", "ss", "ds", "es", "fs", "gs"}
SegTypes == [Regs -> [sel : Nat, dsc : Descr]]

\* The program's own registers
Outer(p, k) == p \in Rings /\ k >= 21
Own(sg, p, k) ==
    /\ sg \in SegTypes /\ \A r \in Regs : RegOK(sg[r], p, k)
    /\ sg["cs"].sel = IF Outer(p, k) THEN 27 ELSE 8
    /\ sg["ss"].sel = IF Outer(p, k) THEN 35 ELSE 16
    /\ \A r \in {"ds", "es", "fs", "gs"} : sg[r].sel \in {16, 24, 35, 43}
    /\ sg["ds"].sel # 24
    /\ p \in Rings => /\ k >= 14 => sg["ds"].sel = 35
                      /\ k >= 15 => sg["es"].sel = 35
                      /\ k >= 16 => sg["fs"].sel = 35
                      /\ k >= 17 => sg["gs"].sel = 35

\* A handler with the registers sg and the stack pointer w has interrupted h, which left
\* the words of ram: p is the program, at its instruction k
Over(h, sg, w, ram, p, k) ==
    /\ sg \in SegTypes /\ RegOK(sg["cs"], p, k) /\ RegOK(sg["ss"], p, k)
    /\ sg["cs"].sel = 8 /\ sg["ss"].sel = 16
    /\ \A r \in {"ds", "es", "fs", "gs"} : sg[r] = h.seg[r]
    /\ ram[w + 2][2] = h.seg["cs"].sel
    /\ IF h.seg["cs"].sel = 8
       THEN w = h.esp - 4 /\ sg["ss"] = h.seg["ss"]
       ELSE w = 24 /\ ram[w + 4][2] = h.esp /\ ram[w + 5][2] = h.seg["ss"].sel
    /\ h.seg["cs"].sel = 8 \/ p # "tp3" => \A x \in h.esp .. 59 : ram[x] = h.ram[x]

\* The program's own stack pointer
SpOf(p, k) ==
    IF Outer(p, k) THEN (IF p = "tp3" THEN 30 ELSE 60) - (IF k = 21 THEN 0 ELSE 1)
    ELSE IF p \notin Rings /\ k >= 18 THEN 30 ELSE 26
StackAt(w) == w = SpOf(v1, v2)

\* Handlers nest no deeper than an NMI in another
Nest ==
    \/ v11 = << >> /\ Own(v6, v1, v2) /\ StackAt(v9)
    \/ \E h \in {v11[1]} :
          /\ v11 = <<h>> /\ h.nr \in {2, 13, 48}
          /\ Over(h, v6, v9, v10, v1, v2) /\ Own(h.seg, v1, v2) /\ StackAt(h.esp)
    \/ \E h \in {v11[1]}, i \in {v11[2]} :
          /\ v11 = <<h, i>> /\ h.nr = 2 /\ i.nr \in {13, 48}
          /\ Over(h, v6, v9, v10, v1, v2) /\ Over(i, h.seg, h.esp, v10, v1, v2)
          /\ Own(i.seg, v1, v2) /\ StackAt(i.esp)

SegInv ==
    /\ v1 \in Progs /\ v2 \in 1 .. LastOp(v1) + 1
    /\ DOMAIN v10 = 0 .. 60
    /\ \/ v12 = 0 /\ TableInv /\ Nest
       \/ v12 # 0 /\ Gone

LEMMA GrubEntries ==
  /\ G!GrubGdt[2] \in Descr /\ FlatCode(G!GrubGdt[2], 0)
  /\ G!GrubGdt[3] \in Descr /\ FlatData(G!GrubGdt[3], 0)
  BY SMT DEF G!GrubGdt, G!Descriptor, G!Null, G!CODE_XRA, G!DATA_RWA, G!FLAT, Descr, FlatCode, FlatData

LEMMA Selectors ==
  /\ G!Index(8) = 1 /\ G!Index(16) = 2 /\ G!Index(24) = 3 /\ G!Index(27) = 3
  /\ G!Index(35) = 4 /\ G!Index(43) = 5 /\ G!Index(40) = 5
  /\ G!Rpl(8) = 0 /\ G!Rpl(16) = 0 /\ G!Rpl(24) = 0 /\ G!Rpl(27) = 3 /\ G!Rpl(35) = 3
  /\ G!Rpl(43) = 3 /\ G!Rpl(40) = 0
  /\ G!GateSelector = 8
  BY SMT DEF G!Index, G!Rpl, G!GateSelector, G!gdt_krn_seg_sel

\* A selector's entry, in the table in use
In(sel) == G!InTable(sel) /\ G!Entry(sel) \in Descr

LEMMA InForce ==
  ASSUME TableInv, v1 \in Progs, v2 \in 1 .. LastOp(v1) + 1
  PROVE  /\ v3 \/ FlatCode(v4[1], 0) => In(8) /\ FlatCode(G!Entry(8), 0)
         /\ ~Gone => In(16) /\ FlatData(G!Entry(16), 0)
         /\ v1 = "tp1" /\ v2 \in 9 .. 18 => In(24) /\ SmallData(G!Entry(24))
         /\ v1 # "tp1" /\ v2 >= 7 => /\ In(27) /\ FlatCode(G!Entry(27), 3)
                                     /\ In(35) /\ FlatData(G!Entry(35), 3)
         /\ v1 = "tp1" /\ v2 \in 13 .. 18 => In(43) /\ FlatData(G!Entry(43), 3)
<1>1. /\ v4 \in [0 .. 6 -> Descr]
      /\ v1 = "tp1" => (v3 <=> v2 <= 4) /\ (~v3 => v5 = 7)
      /\ v1 # "tp1" => (v3 <=> v2 <= 6) /\ (~v3 => v5 = 6)
  BY DEF TableInv
<1>2. v2 \in Nat
  BY SMT DEF LastOp
<1>3. ASSUME v3, NEW i \in {1, 2}, NEW sel, G!Index(sel) = i
      PROVE  In(sel) /\ G!Entry(sel) = G!GrubGdt[i + 1]
  <2>1. i \in 1 .. 4 /\ i + 1 \in {2, 3}
    BY SMT
  <2> QED
    BY <1>3, <2>1, GrubEntries, SMT DEF In, G!InTable, G!Entry
<1>4. ASSUME ~v3, NEW i \in 1 .. 5, NEW sel, G!Index(sel) = i
      PROVE  In(sel) /\ G!Entry(sel) = v4[i]
  <2>1. i \in 1 .. v5 - 1 /\ i \in 0 .. 6
    BY <1>1, <1>4, SMT
  <2> QED
    BY <1>1, <1>4, <2>1 DEF In, G!InTable, G!Entry
<1>5. 1 \in 1 .. 5 /\ 2 \in 1 .. 5 /\ 3 \in 1 .. 5 /\ 4 \in 1 .. 5 /\ 5 \in 1 .. 5
      /\ 1 + 1 = 2 /\ 2 + 1 = 3
  BY SMT
<1>6. v3 \/ FlatCode(v4[1], 0) => In(8) /\ FlatCode(G!Entry(8), 0)
  BY <1>3, <1>4, <1>5, GrubEntries, Selectors
<1>7. ~Gone => In(16) /\ FlatData(G!Entry(16), 0)
  <2>1. ASSUME ~v3, ~Gone PROVE FlatData(v4[2], 0)
    <3>1. v2 >= 4
      BY <1>1, <1>2, <2>1, SMT
    <3> QED
      BY <2>1, <3>1 DEF TableInv
  <2> QED
    BY <1>3, <1>4, <1>5, <2>1, GrubEntries, Selectors
<1>8. v1 = "tp1" /\ v2 \in 9 .. 18 => In(24) /\ SmallData(G!Entry(24))
  <2> SUFFICES ASSUME v1 = "tp1", v2 \in 9 .. 18
               PROVE  In(24) /\ SmallData(G!Entry(24))
    OBVIOUS
  <2>1. ~v3 /\ v2 >= 9 /\ ~Gone
    BY <1>1, SMT DEF Gone
  <2> QED
    BY <1>4, <1>5, <2>1, Selectors DEF TableInv
<1>9. v1 = "tp1" /\ v2 \in 13 .. 18 => In(43) /\ FlatData(G!Entry(43), 3)
  <2> SUFFICES ASSUME v1 = "tp1", v2 \in 13 .. 18
               PROVE  In(43) /\ FlatData(G!Entry(43), 3)
    OBVIOUS
  <2>1. ~v3 /\ v2 >= 13 /\ ~Gone
    BY <1>1, SMT DEF Gone
  <2> QED
    BY <1>4, <1>5, <2>1, Selectors DEF TableInv
<1>10. v1 # "tp1" /\ v2 >= 7 => /\ In(27) /\ FlatCode(G!Entry(27), 3)
                                /\ In(35) /\ FlatData(G!Entry(35), 3)
  <2> SUFFICES ASSUME v1 # "tp1", v2 >= 7
               PROVE  /\ In(27) /\ FlatCode(G!Entry(27), 3)
                      /\ In(35) /\ FlatData(G!Entry(35), 3)
    OBVIOUS
  <2>1. ~v3 /\ v2 >= 5 /\ v2 >= 6
    BY <1>1, <1>2, SMT
  <2> QED
    BY <1>4, <1>5, <2>1, Selectors DEF TableInv
<1> QED
  BY <1>6, <1>7, <1>8, <1>9, <1>10

\* What the processor takes a descriptor for
LEMMA Checks ==
  ASSUME NEW x \in Descr, NEW ring \in {0, 3}
  PROVE  /\ FlatCode(x, ring) => G!IsCode(x) /\ G!IsFlat(x) /\ x.dpl = ring
         /\ FlatData(x, ring) => G!IsData(x) /\ G!IsFlat(x) /\ x.dpl = ring
         /\ SmallData(x) => G!IsData(x) /\ x.dpl = 0 /\ x.p = 1 /\ x.limit = 31
  BY SMT DEF FlatCode, FlatData, SmallData, G!IsCode, G!IsData, G!IsFlat

LEMMA SameSegment ==
  ASSUME NEW x \in Descr, NEW y \in Descr, NEW ring \in {0, 3},
         \/ FlatCode(x, ring) /\ FlatCode(y, ring)
         \/ FlatData(x, ring) /\ FlatData(y, ring)
         \/ SmallData(x) /\ SmallData(y)
  PROVE  G!Alike(x, y)
<1>1. 10 \div 2 = 5 /\ 11 \div 2 = 5 /\ 2 \div 2 = 1 /\ 3 \div 2 = 1
  BY SMT
<1>2. x.type \div 2 = y.type \div 2
  BY <1>1 DEF FlatCode, FlatData, SmallData
<1>3. /\ x.s = y.s /\ x.dpl = y.dpl /\ x.p = y.p /\ x.d = y.d /\ x.g = y.g
      /\ x.base = y.base /\ x.limit = y.limit
  BY DEF FlatCode, FlatData, SmallData
<1> DEFINE m == x.type \div 2
           n == y.type \div 2
<1>4. [x EXCEPT !.type = m] = [y EXCEPT !.type = n]
  <2>1. m = n
    BY <1>2
  <2> HIDE DEF m, n
  <2> QED
    BY <1>3, <2>1 DEF Descr
<1> QED
  BY <1>4 DEF G!Alike

LEMMA Stays ==
  ASSUME NEW x, NEW p, NEW k \in Nat, RegOK(x, p, k)
  PROVE  RegOK(x, p, k + 1)
<1>1. /\ k >= 10 => k + 1 >= 10
      /\ k >= 21 => k + 1 >= 21
      /\ k >= 14 => k + 1 >= 14
  BY SMT
<1> QED
  BY <1>1 DEF RegOK

DataRegs == {"ds", "es", "fs", "gs"}

\* The level of privilege
LEMMA Rings0And3 ==
  ASSUME NEW sg, NEW p \in Progs, NEW k \in Nat, Own(sg, p, k)
  PROVE  /\ Outer(p, k) => G!Rpl(sg["cs"].sel) = 3
         /\ ~Outer(p, k) => G!Rpl(sg["cs"].sel) = 0
  BY Selectors DEF Own

\* What every instruction but a few leaves alone
Telling == {"describe", "lgdt", "ltr", "tss", "panic"}

LEMMA WhereQuiet ==
  ASSUME v1 \in Progs, v2 \in 1 .. LastOp(v1), Kinds[v1][v2] \notin Telling
  PROVE  /\ v1 = "tp1" => v2 \notin {1, 2, 3, 4, 8, 11, 12, 18}
         /\ v1 # "tp1" => v2 \notin {1, 2, 3, 4, 5, 6}
         /\ v1 \in Rings => v2 \notin {17, 18, 19}
         /\ v1 = "exam" => v2 \notin {13, 15, 16, 18}
  BY SMTT(60) DEF Progs, LastOp, Kinds, Rings, Telling

LEMMA TableStays ==
  ASSUME v1 \in Progs, v2 \in 1 .. LastOp(v1), Kinds[v1][v2] \notin Telling, TableInv,
         UNCHANGED <<v1, v3, v4, v5, v7, v8>>, v2' = v2 + 1
  PROVE  TableInv'
<1>1. v2 \in Nat
  BY SMT DEF LastOp
<1>2. /\ v1 = "tp1" => /\ v2 <= 4 <=> v2 + 1 <= 4
                       /\ v2 + 1 >= 3 => v2 >= 3
                       /\ v2 + 1 >= 4 => v2 >= 4
                       /\ v2 + 1 >= 9 => v2 >= 9
                       /\ v2 + 1 >= 13 => v2 >= 13
      /\ v1 = "tp1" => v2 + 1 # 19 /\ v2 # 19
  BY <1>1, WhereQuiet, SMT DEF LastOp
<1>3. v1 # "tp1" => /\ v2 <= 6 <=> v2 + 1 <= 6
                    /\ v2 + 1 >= 3 => v2 >= 3
                    /\ v2 + 1 >= 4 => v2 >= 4
                    /\ v2 + 1 >= 5 => v2 >= 5
                    /\ v2 + 1 >= 6 => v2 >= 6
  BY <1>1, WhereQuiet, SMT
<1>4. v1 \in Rings => /\ v2 + 1 # 19
                      /\ v2 + 1 >= 18 => v2 >= 18
                      /\ v2 + 1 >= 20 => v2 >= 20
  BY <1>1, WhereQuiet, SMT
<1>5. v1 = "exam" => (v2 + 1 \in 14 .. 16 => v2 \in 14 .. 16)
  BY <1>1, WhereQuiet, SMT
<1>6. ~Gone /\ ~Gone'
  BY <1>2 DEF Gone
<1>7. v1' = v1 /\ v3' = v3 /\ v4' = v4 /\ v5' = v5 /\ v7' = v7 /\ v8' = v8
  OBVIOUS
<1> QED
  BY <1>2, <1>3, <1>4, <1>5, <1>6, <1>7 DEF TableInv

LEMMA OwnStays ==
  ASSUME NEW sg, NEW p \in Progs, NEW k \in Nat, Own(sg, p, k),
         p \in Rings => k \notin {13, 14, 15, 16, 20}
  PROVE  Own(sg, p, k + 1)
<1>1. p \in Rings => /\ k + 1 >= 14 => k >= 14
                     /\ k + 1 >= 15 => k >= 15
                     /\ k + 1 >= 16 => k >= 16
                     /\ k + 1 >= 17 => k >= 17
                     /\ k + 1 >= 21 <=> k >= 21
  BY SMT
<1>2. \A r \in Regs : RegOK(sg[r], p, k + 1)
  BY Stays DEF Own
<1> QED
  BY <1>1, <1>2 DEF Own, Outer

LEMMA StackStays ==
  ASSUME NEW p \in Progs, NEW k \in Nat,
         p \in Rings => k \notin {20, 21}, p \notin Rings => k # 17
  PROVE  SpOf(p, k + 1) = SpOf(p, k)
<1>1. /\ p \in Rings => /\ k + 1 >= 21 <=> k >= 21
                        /\ k + 1 # 21 /\ k # 21
      /\ p \notin Rings => (k + 1 >= 18 <=> k >= 18)
  BY SMT
<1> QED
  BY <1>1 DEF SpOf, Outer

\* What the loads load
LoadsFrom(r, s) ==
    \/ r = "ss" /\ s = 16 /\ v1 # "tp1" /\ v2 = 8
    \/ r \in DataRegs /\ s = 16 /\ (v1 = "tp1" => v2 = 5) /\ (v1 # "tp1" => v2 \in 9 .. 12)
    \/ r = "es" /\ s = 24 /\ v1 = "tp1" /\ v2 = 9
    \/ r \in DataRegs /\ s = 43 /\ v1 = "tp1" /\ v2 \in 13 .. 16
    \/ r = "ds" /\ s = 35 /\ v1 \in Rings /\ v2 = 13
    \/ r = "es" /\ s = 35 /\ v1 \in Rings /\ v2 = 14
    \/ r = "fs" /\ s = 35 /\ v1 \in Rings /\ v2 = 15
    \/ r = "gs" /\ s = 35 /\ v1 \in Rings /\ v2 = 16

LEMMA FlatCodes ==
  ASSUME v1 \in Progs, v1 # "tp1"
  PROVE  \A k \in 1 .. 12 : G!Code[v1][k] = G!init_gdt[k]
  BY ProgramText DEF Progs

LEMMA RingCodes ==
  ASSUME v1 \in Rings
  PROVE  \E w \in {30, 60} :
            /\ w = 30 <=> v1 = "tp3"
            /\ \A k \in 13 .. 20 : G!Code[v1][k] = G!ToRing3(w)[k - 12]
            /\ G!Code[v1][13] = G!set("ds", 35) /\ G!Code[v1][14] = G!set("es", 35)
            /\ G!Code[v1][15] = G!set("fs", 35) /\ G!Code[v1][16] = G!set("gs", 35)
            /\ G!Code[v1][17] = G!set_tss(30) /\ G!Code[v1][18] = G!Describe(5, G!tss_dsc)
            /\ G!Code[v1][19] = G!set_tr(40) /\ G!Code[v1][20] = G!iret(27, 35, w)
<1>1. PICK w \in {30, 60} :
            /\ w = 30 <=> v1 = "tp3"
            /\ \A k \in 13 .. 20 : G!Code[v1][k] = G!ToRing3(w)[k - 12]
  BY ProgramText DEF Rings
<1> DEFINE t == G!ToRing3(w)
<1>2. /\ t[1] = G!set("ds", 35) /\ t[2] = G!set("es", 35) /\ t[3] = G!set("fs", 35)
      /\ t[4] = G!set("gs", 35) /\ t[5] = G!set_tss(30)
      /\ t[6] = G!Describe(5, G!tss_dsc) /\ t[7] = G!set_tr(40) /\ t[8] = G!iret(27, 35, w)
  <2>1. w \in Int
    BY SMT
  <2> QED
    BY <2>1, RingText, Zenon
<1> HIDE DEF t
<1>3. \A k \in 13 .. 20 : G!Code[v1][k] = t[k - 12]
  BY <1>1 DEF t
<1>4. /\ G!Code[v1][13] = t[1] /\ G!Code[v1][14] = t[2] /\ G!Code[v1][15] = t[3]
      /\ G!Code[v1][16] = t[4] /\ G!Code[v1][17] = t[5] /\ G!Code[v1][18] = t[6]
      /\ G!Code[v1][19] = t[7] /\ G!Code[v1][20] = t[8]
  BY <1>3, SMT
<1> QED
  BY <1>1, <1>2, <1>4

LEMMA WhatLoads ==
  ASSUME v1 \in Progs, v2 \in 1 .. LastOp(v1), Kinds[v1][v2] = "load",
         G!now = G!Code[v1][v2]
  PROVE  LoadsFrom(G!now.reg, G!now.sel)
<1>1. \A r, s : G!set(r, s).reg = r /\ G!set(r, s).sel = s
  BY DEF G!set
<1>2. SUFFICES \E r, s : G!Code[v1][v2] = G!set(r, s) /\ LoadsFrom(r, s)
  BY <1>1, Zenon
<1>3. CASE v1 = "tp1" /\ v2 \in {5, 9, 13, 14, 15, 16}
  <2>1. /\ G!Code[v1][5] = G!set("ds", 16) /\ G!Code[v1][9] = G!set("es", 24)
        /\ G!Code[v1][13] = G!set("ds", 43) /\ G!Code[v1][14] = G!set("es", 43)
        /\ G!Code[v1][15] = G!set("fs", 43) /\ G!Code[v1][16] = G!set("gs", 43)
    BY <1>3, ProgramText, Tp1Text
  <2>2. 13 \in 13 .. 16 /\ 14 \in 13 .. 16 /\ 15 \in 13 .. 16 /\ 16 \in 13 .. 16
    BY SMT
  <2>3. CASE v2 = 5
    BY <1>3, <2>1, <2>3 DEF LoadsFrom, DataRegs
  <2>4. CASE v2 = 9
    BY <1>3, <2>1, <2>4 DEF LoadsFrom, DataRegs
  <2>5. CASE v2 \in {13, 14, 15, 16}
    BY <1>3, <2>1, <2>2, <2>5 DEF LoadsFrom, DataRegs
  <2> QED
    BY <1>3, <2>3, <2>4, <2>5
<1>4. CASE v1 # "tp1" /\ v2 \in 8 .. 12
  <2>1. v2 \in {8, 9, 10, 11, 12}
    BY <1>4, SMT
  <2>2. v2 \in 1 .. 12
    BY <1>4, SMT
  <2>3. G!Code[v1][v2] = G!init_gdt[v2]
    BY <1>4, <2>2, FlatCodes
  <2>4. 9 \in 9 .. 12 /\ 10 \in 9 .. 12 /\ 11 \in 9 .. 12 /\ 12 \in 9 .. 12
    BY SMT
  <2> QED
    BY <1>4, <2>1, <2>3, <2>4, FlatText DEF LoadsFrom, DataRegs
<1>5. CASE v1 \in Rings /\ v2 \in 13 .. 16
  <2>1. v2 \in {13, 14, 15, 16}
    BY <1>5, SMT
  <2> QED
    BY <1>5, <2>1, RingCodes DEF LoadsFrom
<1> QED
  BY <1>3, <1>4, <1>5, WhereLoad

LEMMA Alone ==
  ASSUME SegInv, v11 = << >>, v12 = 0
  PROVE  TableInv /\ Own(v6, v1, v2) /\ StackAt(v9)
<1>1. TableInv /\ Nest
  BY DEF SegInv
<1>2. /\ \A h : << >> # <<h>>
      /\ \A h, i : << >> # <<h, i>>
  OBVIOUS
<1> QED
  BY <1>1, <1>2 DEF Nest

\* An instruction of a program that leaves it running
LEMMA GoesOn ==
  ASSUME v1 \in Progs, v2 \in 1 .. LastOp(v1), v1' = v1, v2' = v2 + 1,
         DOMAIN v10' = 0 .. 60, v12' = 0, v11' = << >>,
         TableInv', Own(v6', v1, v2 + 1), v9' = SpOf(v1, v2 + 1)
  PROVE  SegInv'
<1>1. v2 + 1 \in 1 .. LastOp(v1) + 1
  BY SMT DEF LastOp
<1>2. Nest'
  BY DEF Nest, StackAt
<1> QED
  BY <1>1, <1>2 DEF SegInv

LEMMA LoadStep ==
  ASSUME SegInv, G!Load
  PROVE  SegInv'
<1>1. /\ v1 \in Progs /\ v2 \in 1 .. LastOp(v1) /\ G!now = G!Code[v1][v2]
      /\ Kinds[v1][v2] = "load" /\ v11 = << >> /\ v12 = 0
  BY WhereIs DEF SegInv, G!Load
<1>2. TableInv /\ Own(v6, v1, v2) /\ StackAt(v9)
  BY <1>1, Alone
<1>3. v2 \in Nat
  BY <1>1, SMT DEF LastOp
<1> DEFINE r == G!now.reg
           s == G!now.sel
           e == G!Entry(s)
           x == G!Loaded(s, e)
<1>4. LoadsFrom(r, s)
  BY <1>1, WhatLoads
<1>5. /\ IF IF r = "ss" THEN G!StackLoads(s, G!cpl) ELSE G!DataLoads(s)
         THEN v6' = [v6 EXCEPT ![r] = x] /\ v12' = v12
         ELSE v12' = 13 /\ v6' = v6
      /\ v2' = v2 + 1
      /\ UNCHANGED <<v1, v3, v4, v5, v7, v8, v9, v10, v11>>
  BY DEF G!Load, G!Step, G!Try, G!table
<1> HIDE DEF r, s
<1>6. /\ r \in Regs /\ r # "cs" /\ s \in {16, 24, 35, 43}
      /\ r = "ss" => s = 16
  BY <1>4 DEF LoadsFrom, DataRegs, Regs
<1>7. v2 <= 16 /\ ~Gone /\ ~Outer(v1, v2)
  BY <1>1, <1>3, WhereLoad, SMT DEF Gone, Outer
<1>8. G!cpl = 0
  BY <1>1, <1>2, <1>3, <1>7, Rings0And3 DEF G!cpl
<1>9. /\ s = 24 => v1 = "tp1" /\ v2 = 9
      /\ s = 35 => v1 \in Rings /\ v2 \in 13 .. 16
      /\ s = 43 => v1 = "tp1" /\ v2 \in 13 .. 16
      /\ r = "es" \/ s # 24
  BY <1>4, SMT DEF LoadsFrom, Rings
<1>10. /\ In(s)
       /\ s = 16 => FlatData(e, 0)
       /\ s = 24 => SmallData(e)
       /\ s \in {35, 43} => FlatData(e, 3)
  <2>1. /\ ~Gone => In(16) /\ FlatData(G!Entry(16), 0)
        /\ v1 = "tp1" /\ v2 \in 9 .. 18 => In(24) /\ SmallData(G!Entry(24))
        /\ v1 # "tp1" /\ v2 >= 7 => In(35) /\ FlatData(G!Entry(35), 3)
        /\ v1 = "tp1" /\ v2 \in 13 .. 18 => In(43) /\ FlatData(G!Entry(43), 3)
    <3>1. v2 \in 1 .. LastOp(v1) + 1
      BY <1>1, SMT DEF LastOp
    <3> QED
      BY <1>1, <1>2, <3>1, InForce
  <2>2. CASE s = 16
    BY <1>7, <2>1, <2>2
  <2>3. CASE s = 24
    <3>1. v2 \in 9 .. 18
      BY <1>9, <2>3, SMT
    <3> QED
      BY <1>9, <2>1, <2>3, <3>1
  <2>4. CASE s = 35
    <3>1. v2 >= 7 /\ v1 # "tp1"
      BY <1>9, <2>4, SMT DEF Rings
    <3> QED
      BY <2>1, <2>4, <3>1
  <2>5. CASE s = 43
    <3>1. v2 \in 13 .. 18 /\ v1 = "tp1"
      BY <1>9, <2>5, SMT
    <3> QED
      BY <2>1, <2>5, <3>1
  <2> QED
    BY <1>6, <2>2, <2>3, <2>4, <2>5
<1>11. e \in Descr /\ G!InTable(s)
  BY <1>10 DEF In
<1>12. IF r = "ss" THEN G!StackLoads(s, G!cpl) ELSE G!DataLoads(s)
  <2>1. G!IsData(e) /\ e.dpl = IF s \in {16, 24} THEN 0 ELSE 3
    <3> HIDE DEF e
    <3>1. 0 \in {0, 3} /\ 3 \in {0, 3}
      OBVIOUS
    <3> QED
      BY <1>6, <1>10, <1>11, <3>1, Checks
  <2>2. G!Rpl(s) = (IF s \in {16, 24} THEN 0 ELSE 3)
    BY <1>6, Selectors
  <2>3. G!Larger(G!cpl, G!Rpl(s)) = (IF s \in {16, 24} THEN 0 ELSE 3)
    BY <1>8, <2>2, SMT DEF G!Larger
  <2>4. e.dpl >= G!Larger(G!cpl, G!Rpl(s))
    <3> HIDE DEF e
    <3> QED
      BY <2>1, <2>3, SMT
  <2>5. G!DataLoads(s)
    BY <1>11, <2>1, <2>4 DEF G!DataLoads
  <2>6. r = "ss" => G!StackLoads(s, G!cpl)
    BY <1>6, <1>8, <1>11, <2>1, <2>2 DEF G!StackLoads
  <2> QED
    BY <2>5, <2>6
<1>13. v6' = [v6 EXCEPT ![r] = x] /\ v12' = 0
  BY <1>1, <1>5, <1>12
<1>14. x \in [sel : Nat, dsc : Descr] /\ x.sel = s /\ x.dsc = e
  <2> HIDE DEF e
  <2>1. s \in Nat
    BY <1>6, SMT
  <2> QED
    BY <1>11, <2>1 DEF G!Loaded
<1>15. RegOK(x, v1, v2 + 1)
  <2> HIDE DEF x, e
  <2>1. /\ s = 24 => v2 + 1 >= 10
        /\ s \in {35, 43} => v2 + 1 >= 14
    BY <1>9, SMT
  <2> QED
    BY <1>6, <1>9, <1>10, <1>14, <2>1 DEF RegOK
<1> HIDE DEF x, e
<1>16. Own(v6', v1, v2 + 1)
  <2>1. v6' \in SegTypes
    BY <1>2, <1>13, <1>14 DEF Own, SegTypes
  <2>2. \A q \in Regs : v6'[q] = IF q = r THEN x ELSE v6[q]
    BY <1>2, <1>13 DEF Own, SegTypes
  <2>3. \A q \in Regs : RegOK(v6'[q], v1, v2 + 1)
    BY <1>2, <1>3, <1>15, <2>2, Stays DEF Own
  <2>4. ~Outer(v1, v2 + 1)
    BY <1>3, <1>7, SMT DEF Outer
  <2>5. v6'["cs"].sel = 8 /\ v6'["ss"].sel = 16
    BY <1>2, <1>6, <1>7, <1>14, <2>2 DEF Own, Regs
  <2>6. \A q \in DataRegs : v6'[q].sel \in {16, 24, 35, 43}
    BY <1>2, <1>6, <1>14, <2>2 DEF Own, Regs, DataRegs
  <2>7. v6'["ds"].sel # 24
    BY <1>2, <1>9, <1>14, <2>2 DEF Own, Regs
  <2>8. ASSUME v1 \in Rings
        PROVE  /\ v2 + 1 >= 14 => v6'["ds"].sel = 35
               /\ v2 + 1 >= 15 => v6'["es"].sel = 35
               /\ v2 + 1 >= 16 => v6'["fs"].sel = 35
               /\ v2 + 1 >= 17 => v6'["gs"].sel = 35
    <3>1. CASE v2 \in 13 .. 16
      <4>1. s = 35 /\ (v2 = 13 <=> r = "ds") /\ (v2 = 14 <=> r = "es")
            /\ (v2 = 15 <=> r = "fs") /\ (v2 = 16 <=> r = "gs")
        BY <1>4, <2>8, <3>1, SMT DEF LoadsFrom, Rings
      <4>2. /\ v2 + 1 >= 14 => v2 = 13 \/ v2 >= 14
            /\ v2 + 1 >= 15 => v2 = 14 \/ v2 >= 15
            /\ v2 + 1 >= 16 => v2 = 15 \/ v2 >= 16
            /\ v2 + 1 >= 17 => v2 = 16 \/ v2 >= 17
        BY <1>3, SMT
      <4>3. /\ v2 >= 14 => v6["ds"].sel = 35
            /\ v2 >= 15 => v6["es"].sel = 35
            /\ v2 >= 16 => v6["fs"].sel = 35
            /\ v2 >= 17 => v6["gs"].sel = 35
        BY <1>2, <2>8 DEF Own
      <4> QED
        BY <1>14, <2>2, <4>1, <4>2, <4>3 DEF Regs
    <3>2. CASE v2 < 13
      <4>1. ~(v2 + 1 >= 14) /\ ~(v2 + 1 >= 15) /\ ~(v2 + 1 >= 16) /\ ~(v2 + 1 >= 17)
        BY <1>3, <3>2, SMT
      <4> QED
        BY <4>1
    <3> QED
      BY <1>3, <1>7, <3>1, <3>2, SMT
  <2> QED
    BY <2>1, <2>3, <2>4, <2>5, <2>6, <2>7, <2>8 DEF Own, DataRegs
<1>17. TableInv'
  BY <1>1, <1>2, <1>5, TableStays DEF Telling
<1>18. v9' = SpOf(v1, v2 + 1)
  <2>1. v2 \notin {17, 20, 21}
    BY <1>3, <1>7, SMT
  <2> QED
    BY <1>1, <1>2, <1>3, <1>5, <2>1, StackStays DEF StackAt
<1> QED
  BY <1>1, <1>5, <1>13, <1>16, <1>17, <1>18, GoesOn DEF SegInv

LEMMA FarJumpStep ==
  ASSUME SegInv, G!FarJump
  PROVE  SegInv'
<1>1. /\ v1 \in Progs /\ v2 \in 1 .. LastOp(v1) /\ G!now = G!Code[v1][v2]
      /\ Kinds[v1][v2] = "jump" /\ v11 = << >> /\ v12 = 0
  BY WhereIs DEF SegInv, G!FarJump
<1>2. TableInv /\ Own(v6, v1, v2) /\ StackAt(v9)
  BY <1>1, Alone
<1>3. v2 \in Nat /\ v2 \in 1 .. LastOp(v1) + 1
  BY <1>1, SMT DEF LastOp
<1>4. v2 = IF v1 = "tp1" THEN 6 ELSE 7
  BY <1>1, WhereOthers
<1>5. v2 \in {6, 7} /\ ~Gone /\ ~Outer(v1, v2) /\ ~Outer(v1, v2 + 1) /\ v2 >= 3
  BY <1>4, SMT DEF Gone, Outer
<1>6. G!now.sel = 8
  <2>1. CASE v1 = "tp1"
    BY <1>1, <1>4, <2>1, ProgramText, Tp1Text DEF G!set_cs
  <2>2. CASE v1 # "tp1"
    <3>1. G!now = G!init_gdt[7]
      BY <1>1, <1>4, <2>2, FlatCodes, SMT
    <3> QED
      BY <3>1, FlatText DEF G!set_cs
  <2> QED
    BY <2>1, <2>2
<1>7. G!cpl = 0
  BY <1>1, <1>2, <1>3, <1>5, Rings0And3 DEF G!cpl
<1>8. In(8) /\ FlatCode(G!Entry(8), 0)
  <2>1. FlatCode(v4[1], 0)
    BY <1>2, <1>5 DEF TableInv
  <2> QED
    BY <1>1, <1>2, <1>3, <2>1, InForce
<1> DEFINE e == G!Entry(8)
           x == G!Loaded(8, e)
<1>9. G!CodeLoads(8, G!cpl) /\ G!Rpl(8) <= G!cpl
  <2>1. G!IsCode(e) /\ e.dpl = 0
    BY <1>8, Checks DEF In
  <2>2. G!Rpl(8) <= G!cpl
    BY <1>7, Selectors, SMT
  <2> QED
    BY <1>7, <1>8, <2>1, <2>2 DEF In, G!CodeLoads
<1>10. /\ v6' = [v6 EXCEPT !["cs"] = x] /\ v12' = v12 /\ v2' = v2 + 1
       /\ UNCHANGED <<v1, v3, v4, v5, v7, v8, v9, v10, v11>>
  BY <1>6, <1>9 DEF G!FarJump, G!Step, G!Try, G!table
<1>11. x \in [sel : Nat, dsc : Descr] /\ x.sel = 8 /\ RegOK(x, v1, v2 + 1)
  <2>1. e \in Descr /\ FlatCode(e, 0) /\ 8 \in Nat
    BY <1>8, SMT DEF In
  <2> HIDE DEF e
  <2> QED
    BY <2>1 DEF G!Loaded, RegOK
<1> HIDE DEF x, e
<1>12. Own(v6, v1, v2 + 1)
  <2>1. v1 \in Rings => v2 \notin {13, 14, 15, 16, 20}
    BY <1>5, SMT
  <2> QED
    BY <1>1, <1>2, <1>3, <2>1, OwnStays
<1>13. Own(v6', v1, v2 + 1)
  <2>1. v6' \in SegTypes
    BY <1>12, <1>10, <1>11 DEF Own, SegTypes
  <2>2. \A q \in Regs : v6'[q] = IF q = "cs" THEN x ELSE v6[q]
    BY <1>12, <1>10 DEF Own, SegTypes
  <2> QED
    BY <1>5, <1>11, <1>12, <2>1, <2>2 DEF Own, Regs
<1>14. TableInv'
  BY <1>1, <1>2, <1>10, TableStays DEF Telling
<1>15. v9' = SpOf(v1, v2 + 1)
  <2>1. v2 \notin {17, 20, 21}
    BY <1>5, SMT
  <2> QED
    BY <1>1, <1>2, <1>3, <1>10, <2>1, StackStays DEF StackAt
<1> QED
  BY <1>1, <1>10, <1>13, <1>14, <1>15, GoesOn DEF SegInv

LEMMA StringStoreStep ==
  ASSUME SegInv, G!StringStore
  PROVE  SegInv'
<1>1. /\ v1 \in Progs /\ v2 \in 1 .. LastOp(v1) /\ G!now = G!Code[v1][v2]
      /\ Kinds[v1][v2] = "string" /\ v11 = << >> /\ v12 = 0
  BY WhereIs DEF SegInv, G!StringStore
<1>2. TableInv /\ Own(v6, v1, v2) /\ StackAt(v9)
  BY <1>1, Alone
<1>3. v2 \in Nat
  BY <1>1, SMT DEF LastOp
<1>4. (v1 = "tp1" /\ v2 \in {7, 10}) \/ (v1 = "exam" /\ v2 = 14)
  BY <1>1, WhereOthers
<1> DEFINE x == v6["es"]
<1>5. RegOK(x, v1, v2) /\ x.dsc \in Descr
  BY <1>2 DEF Own, Regs, SegTypes
<1>6. \/ G!IsFlat(x.dsc)
      \/ SmallData(x.dsc) /\ v1 = "tp1" /\ v2 = 10
  <2>1. v1 = "tp1" => (v2 >= 10 => v2 = 10)
    BY <1>4, SMT
  <2> QED
    BY <1>4, <1>5, <2>1, Checks DEF RegOK, Rings
<1>7. v2 = 10 /\ v1 = "tp1" => G!now.from + G!now.n - 1 = 31
  <2>1. v2 = 10 /\ v1 = "tp1" => G!now.from = 0 /\ G!now.n = 32
    <3>1. v2 = 10 /\ v1 = "tp1" => G!now = G!rep(0, 32)
      BY <1>1, ProgramText, Tp1Text
    <3>2. G!rep(0, 32).from = 0 /\ G!rep(0, 32).n = 32
      BY DEF G!rep
    <3> QED
      BY <3>1, <3>2
  <2> QED
    BY <2>1, SMT
<1>8. x.dsc.p = 1 /\ (G!IsFlat(x.dsc) \/ G!now.from + G!now.n - 1 <= x.dsc.limit)
  <2>1. CASE G!IsFlat(x.dsc)
    BY <2>1 DEF G!IsFlat
  <2>2. CASE SmallData(x.dsc) /\ v1 = "tp1" /\ v2 = 10
    <3>1. x.dsc.limit = 31 /\ x.dsc.p = 1
      BY <2>2 DEF SmallData
    <3> QED
      BY <1>7, <2>2, <3>1, SMT
  <2> QED
    BY <1>6, <2>1, <2>2
<1>9. v12' = 0 /\ v2' = v2 + 1 /\ UNCHANGED <<v1, v3, v4, v5, v6, v7, v8, v9, v10, v11>>
  BY <1>8 DEF G!StringStore, G!Step, G!table
<1>10. Own(v6, v1, v2 + 1)
  <2>1. v1 \notin Rings
    BY <1>4 DEF Rings
  <2> QED
    BY <1>1, <1>2, <1>3, <2>1, OwnStays
<1>11. TableInv'
  BY <1>1, <1>2, <1>9, TableStays DEF Telling
<1>12. v9' = SpOf(v1, v2 + 1)
  <2>1. v1 \notin Rings /\ v2 # 17
    BY <1>4, SMT DEF Rings
  <2> QED
    BY <1>1, <1>2, <1>3, <1>9, <2>1, StackStays DEF StackAt
<1> QED
  BY <1>1, <1>9, <1>10, <1>11, <1>12, GoesOn DEF SegInv

LEMMA PushStep ==
  ASSUME SegInv, G!PushWord
  PROVE  SegInv'
<1>1. /\ v1 \in Progs /\ v2 \in 1 .. LastOp(v1)
      /\ Kinds[v1][v2] = "push" /\ v11 = << >> /\ v12 = 0
  BY WhereIs DEF SegInv, G!PushWord
<1>2. TableInv /\ Own(v6, v1, v2) /\ StackAt(v9)
  BY <1>1, Alone
<1>3. v1 \in Rings /\ v2 = 21 /\ v2 + 1 = 22 /\ v2 \in Nat
  BY <1>1, WhereOthers, SMT
<1>4. /\ v2' = v2 + 1 /\ v9' = v9 - 1 /\ DOMAIN v10' = DOMAIN v10
      /\ UNCHANGED <<v1, v3, v4, v5, v6, v7, v8, v11, v12>>
  BY DEF G!PushWord, G!Step, G!table, G!Pushed
<1>5. Own(v6, v1, v2 + 1)
  <2>1. 21 \notin {13, 14, 15, 16, 20}
    BY SMT
  <2> QED
    BY <1>1, <1>2, <1>3, <2>1, OwnStays
<1>6. TableInv'
  BY <1>1, <1>2, <1>4, TableStays DEF Telling
<1>7. v9' = SpOf(v1, v2 + 1)
  <2>1. SpOf(v1, 22) = SpOf(v1, 21) - 1
    <3>1. Outer(v1, 21) /\ Outer(v1, 22)
      BY <1>3, SMT DEF Outer
    <3> QED
      BY <3>1, SMT DEF SpOf
  <2> QED
    BY <1>2, <1>3, <1>4, <2>1 DEF StackAt
<1> QED
  BY <1>1, <1>4, <1>5, <1>6, <1>7, GoesOn DEF SegInv

LEMMA ReturnStep ==
  ASSUME SegInv, G!ReturnFromTp
  PROVE  SegInv'
<1>1. /\ v1 \in Progs /\ v2 \in 1 .. LastOp(v1)
      /\ Kinds[v1][v2] = "return" /\ v11 = << >> /\ v12 = 0
  BY WhereIs DEF SegInv, G!ReturnFromTp
<1>2. TableInv /\ Own(v6, v1, v2) /\ StackAt(v9)
  BY <1>1, Alone
<1>3. v1 \in {"tp1", "exam"} /\ v2 = 17 /\ v2 + 1 = 18 /\ v2 \in Nat
  BY <1>1, WhereOthers, SMT
<1>4. v1 \notin Rings
  BY <1>3 DEF Rings
<1>5. /\ v2' = v2 + 1 /\ v9' = 30
      /\ UNCHANGED <<v1, v3, v4, v5, v6, v7, v8, v10, v11, v12>>
  BY DEF G!ReturnFromTp, G!Step, G!table, G!EBP
<1>6. Own(v6, v1, v2 + 1)
  BY <1>1, <1>2, <1>3, <1>4, OwnStays
<1>7. TableInv'
  BY <1>1, <1>2, <1>5, TableStays DEF Telling
<1>8. v9' = SpOf(v1, v2 + 1)
  <2>1. SpOf(v1, 18) = 30
    BY <1>4, SMT DEF SpOf, Outer
  <2> QED
    BY <1>3, <1>5, <2>1
<1> QED
  BY <1>1, <1>5, <1>6, <1>7, <1>8, GoesOn DEF SegInv

LEMMA LgdtStep ==
  ASSUME SegInv, G!Lgdt
  PROVE  SegInv'
<1>1. /\ v1 \in Progs /\ v2 \in 1 .. LastOp(v1) /\ G!now = G!Code[v1][v2]
      /\ Kinds[v1][v2] = "lgdt" /\ v11 = << >> /\ v12 = 0
  BY WhereIs DEF SegInv, G!Lgdt
<1>2. TableInv /\ Own(v6, v1, v2) /\ StackAt(v9)
  BY <1>1, Alone
<1>3. v2 \in Nat /\ v2 = IF v1 = "tp1" THEN 4 ELSE 6
  BY <1>1, WhereOthers, SMT DEF LastOp
<1>4. v2 \in {4, 6} /\ ~Gone /\ v2 + 1 # 19 /\ v2 + 1 \in {5, 7} /\ ~(v2 + 1 >= 9)
      /\ ~(v2 + 1 >= 13) /\ ~(v2 + 1 >= 18) /\ ~(v2 + 1 >= 20) /\ v2 + 1 \notin 14 .. 16
      /\ v2 >= 3 /\ v2 >= 4 /\ (v1 # "tp1" => v2 >= 5 /\ v2 >= 6 /\ ~(v2 + 1 <= 6))
      /\ (v1 = "tp1" => ~(v2 + 1 <= 4))
  BY <1>3, SMT DEF Gone
<1>5. G!now.n = IF v1 = "tp1" THEN 7 ELSE 6
  <2>1. CASE v1 = "tp1"
    BY <1>1, <1>3, <2>1, ProgramText, Tp1Text DEF G!set_gdtr
  <2>2. CASE v1 # "tp1"
    <3>1. G!now = G!init_gdt[6]
      BY <1>1, <1>3, <2>2, FlatCodes, SMT
    <3> QED
      BY <2>2, <3>1, FlatText DEF G!set_gdtr
  <2> QED
    BY <2>1, <2>2
<1>6. /\ v2' = v2 + 1 /\ v3' = FALSE /\ v5' = IF v1 = "tp1" THEN 7 ELSE 6
      /\ UNCHANGED <<v1, v4, v6, v7, v8, v9, v10, v11, v12>>
  BY <1>5 DEF G!Lgdt, G!Step
<1>7. Own(v6, v1, v2 + 1)
  <2>1. v2 \notin {13, 14, 15, 16, 20}
    BY <1>4, SMT
  <2> QED
    BY <1>1, <1>2, <1>3, <2>1, OwnStays
<1>8. TableInv'
  <2>1. /\ v4 \in [0 .. 6 -> Descr] /\ FlatCode(v4[1], 0) /\ FlatData(v4[2], 0)
        /\ v1 # "tp1" => FlatCode(v4[3], 3) /\ FlatData(v4[4], 3)
    BY <1>2, <1>4 DEF TableInv
  <2>2. ~Gone' /\ v2' \notin 14 .. 16 /\ v2' # 19
    BY <1>4, <1>6 DEF Gone
  <2> QED
    BY <1>4, <1>6, <2>1, <2>2 DEF TableInv
<1>9. v9' = SpOf(v1, v2 + 1)
  <2>1. v2 \notin {17, 20, 21}
    BY <1>4, SMT
  <2> QED
    BY <1>1, <1>2, <1>3, <1>6, <2>1, StackStays DEF StackAt
<1> QED
  BY <1>1, <1>6, <1>7, <1>8, <1>9, GoesOn DEF SegInv

LEMMA SetTssStep ==
  ASSUME SegInv, G!SetTss
  PROVE  SegInv'
<1>1. /\ v1 \in Progs /\ v2 \in 1 .. LastOp(v1) /\ G!now = G!Code[v1][v2]
      /\ Kinds[v1][v2] = "tss" /\ v11 = << >> /\ v12 = 0
  BY WhereIs DEF SegInv, G!SetTss
<1>2. TableInv /\ Own(v6, v1, v2) /\ StackAt(v9)
  BY <1>1, Alone
<1>3. v1 # "tp1" /\ v2 = (IF v1 = "exam" THEN 15 ELSE 17) /\ v2 \in Nat
  BY <1>1, WhereOthers, SMT DEF LastOp
<1>4. v1 \in Rings <=> v2 = 17
  BY <1>1, <1>3, SMT DEF Progs, Rings
<1>5. /\ v2 \in {15, 17} /\ v2 + 1 # 19 /\ v2 # 19
      /\ v2 >= 3 /\ v2 >= 4 /\ v2 >= 5 /\ v2 >= 6 /\ ~(v2 <= 6)
      /\ ~(v2 + 1 <= 6) /\ ~(v2 + 1 >= 20)
      /\ v2 = 15 => v2 \in 14 .. 16
  BY <1>3, <1>4, SMT
<1>6. v1 \in Rings => G!now.esp0 = 30
  <2>1. v1 \in Rings => G!now = G!set_tss(30)
    BY <1>1, <1>4, RingCodes
  <2> QED
    BY <2>1 DEF G!set_tss
<1>7. /\ v2' = v2 + 1
      /\ v1 \in Rings => v8'.ss0 = 16 /\ v8'.esp0 = 30
      /\ UNCHANGED <<v1, v3, v4, v5, v6, v7, v9, v10, v11, v12>>
  <2>1. 8 * 2 = 16
    BY SMT
  <2> QED
    BY <1>6, <2>1 DEF G!SetTss, G!Step, G!table, G!gdt_krn_seg_sel, G!d0_idx
<1>8. Own(v6, v1, v2 + 1)
  <2>1. v1 \in Rings => v2 \notin {13, 14, 15, 16, 20}
    BY <1>4, SMT
  <2> QED
    BY <1>1, <1>2, <1>3, <2>1, OwnStays
<1>9. TableInv'
  <2>1. /\ v4 \in [0 .. 6 -> Descr] /\ FlatCode(v4[1], 0) /\ FlatData(v4[2], 0)
        /\ FlatCode(v4[3], 3) /\ FlatData(v4[4], 3)
        /\ v1 = "exam" => TssEntry(v4[5])
        /\ ~v3 /\ v3 \in BOOLEAN /\ v5 = 6
    BY <1>2, <1>3, <1>5 DEF TableInv, Gone
  <2> QED
    BY <1>3, <1>5, <1>7, <2>1 DEF TableInv, Gone, Rings
<1>10. v9' = SpOf(v1, v2 + 1)
  <2>1. (v1 \notin Rings => v2 # 17) /\ v2 \notin {20, 21}
    BY <1>4, <1>5, SMT
  <2> QED
    BY <1>1, <1>2, <1>3, <1>7, <2>1, StackStays DEF StackAt
<1> QED
  BY <1>1, <1>7, <1>8, <1>9, <1>10, GoesOn DEF SegInv

LEMMA LtrStep ==
  ASSUME SegInv, G!Ltr
  PROVE  SegInv'
<1>1. /\ v1 \in Progs /\ v2 \in 1 .. LastOp(v1) /\ G!now = G!Code[v1][v2]
      /\ Kinds[v1][v2] = "ltr" /\ v11 = << >> /\ v12 = 0
  BY WhereIs DEF SegInv, G!Ltr
<1>2. TableInv /\ Own(v6, v1, v2) /\ StackAt(v9)
  BY <1>1, Alone
<1>3. v1 # "tp1" /\ v2 = (IF v1 = "exam" THEN 16 ELSE 19) /\ v2 \in Nat
  BY <1>1, WhereOthers, SMT DEF LastOp
<1>4. v1 \in Rings <=> v2 = 19
  BY <1>1, <1>3, SMT DEF Progs, Rings
<1>5. /\ v2 \in {16, 19} /\ v2 + 1 # 19 /\ v2 + 1 \notin 14 .. 16
      /\ v2 >= 3 /\ v2 >= 4 /\ v2 >= 5 /\ v2 >= 6 /\ ~(v2 <= 6) /\ ~(v2 + 1 <= 6)
      /\ v2 = 16 => v2 \in 14 .. 16
      /\ v2 = 19 => v2 >= 18
  BY <1>3, SMT
<1>6. G!now.sel = 40
  <2>1. CASE v1 = "exam"
    <3>1. G!tp_exam[16] = G!init_tss[4]
      <4>1. 16 \in 13 .. 16 /\ 16 - 12 = 4
        BY SMT
      <4> QED
        BY <4>1, ProgramText
    <3> QED
      BY <1>1, <1>3, <2>1, <3>1, ProgramText, ExamText DEF G!set_tr
  <2>2. CASE v1 \in Rings
    <3>1. G!now = G!set_tr(40)
      BY <1>1, <1>4, <2>2, RingCodes
    <3> QED
      BY <3>1 DEF G!set_tr
  <2> QED
    BY <1>1, <1>3, <2>1, <2>2 DEF Progs, Rings
<1>7. /\ v4 \in [0 .. 6 -> Descr] /\ FlatCode(v4[1], 0) /\ FlatData(v4[2], 0)
      /\ FlatCode(v4[3], 3) /\ FlatData(v4[4], 3) /\ TssEntry(v4[5])
      /\ ~v3 /\ v3 \in BOOLEAN /\ v5 = 6
      /\ v1 \in Rings => v8.ss0 = 16 /\ v8.esp0 = 30
  BY <1>1, <1>2, <1>3, <1>4, <1>5 DEF TableInv, Gone, Progs, Rings
<1>8. G!InTable(40) /\ G!Entry(40) = v4[5]
  <2>1. 5 \in 1 .. 6 - 1
    BY SMT
  <2> QED
    BY <1>7, <2>1, Selectors DEF G!InTable, G!Entry
<1>9. /\ v7' = 5 /\ v4' = [v4 EXCEPT ![5].type = 11]
      /\ v2' = v2 + 1
      /\ UNCHANGED <<v1, v3, v5, v6, v8, v9, v10, v11, v12>>
  BY <1>6, <1>7, <1>8, Selectors DEF G!Ltr, G!Step, TssEntry, G!TSS_AVL, G!TSS_BUSY
<1>10. /\ v4' \in [0 .. 6 -> Descr]
       /\ v4'[1] = v4[1] /\ v4'[2] = v4[2] /\ v4'[3] = v4[3] /\ v4'[4] = v4[4]
  <2>1. 1 \in 0 .. 6 /\ 2 \in 0 .. 6 /\ 3 \in 0 .. 6 /\ 4 \in 0 .. 6 /\ 5 \in 0 .. 6 /\ 11 \in Nat
    BY SMT
  <2>2. [v4[5] EXCEPT !.type = 11] \in Descr
    BY <1>7, <2>1 DEF Descr
  <2> QED
    BY <1>7, <1>9, <2>1, <2>2
<1>11. Own(v6, v1, v2 + 1)
  <2>1. v1 \in Rings => v2 \notin {13, 14, 15, 16, 20}
    BY <1>4, SMT
  <2> QED
    BY <1>1, <1>2, <1>3, <2>1, OwnStays
<1>12. TableInv'
  BY <1>3, <1>5, <1>7, <1>9, <1>10 DEF TableInv, Gone, Rings
<1>13. v9' = SpOf(v1, v2 + 1)
  <2>1. v2 \notin {17, 20, 21}
    BY <1>5, SMT
  <2> QED
    BY <1>1, <1>2, <1>3, <1>9, <2>1, StackStays DEF StackAt
<1> QED
  BY <1>1, <1>9, <1>11, <1>12, <1>13, GoesOn DEF SegInv

\* A descriptor written over what was there
Filled(y, x) == [f \in DOMAIN y |-> IF f \in DOMAIN x THEN x[f] ELSE y[f]]
Fields8 == {"s", "type", "dpl", "p", "d", "g", "base", "limit"}

LEMMA FilledWhole ==
  ASSUME NEW y \in Descr, NEW x \in Descr
  PROVE  Filled(y, x) = x
<1>1. DOMAIN y = Fields8 /\ DOMAIN x = Fields8
  BY DEF Descr, Fields8
<1>2. x = [f \in DOMAIN x |-> x[f]]
  BY DEF Descr
<1> QED
  BY <1>1, <1>2 DEF Filled

LEMMA FilledTss ==
  \A y \in Descr : \A b, l \in Nat :
      LET n == Filled(y, G!initialize_segment_descriptor(b, l, 9, 0, 0, 0, 1))
      IN  n \in Descr /\ TssEntry(n)
<1> SUFFICES ASSUME NEW y \in Descr, NEW b \in Nat, NEW l \in Nat
             PROVE  LET n == Filled(y, G!initialize_segment_descriptor(b, l, 9, 0, 0, 0, 1))
                    IN  n \in Descr /\ TssEntry(n)
  OBVIOUS
<1> DEFINE x == G!initialize_segment_descriptor(b, l, 9, 0, 0, 0, 1)
           n == Filled(y, x)
<1>1. DOMAIN y = Fields8
  BY DEF Descr, Fields8
<1>2. /\ DOMAIN x = Fields8 \ {"d"}
      /\ x["s"] = 0 /\ x["type"] = 9 /\ x["dpl"] = 0 /\ x["p"] = 1 /\ x["g"] = 0
      /\ x["base"] = b /\ x["limit"] = l
  BY DEF G!initialize_segment_descriptor, Fields8
<1>3. y["d"] \in Nat
  BY DEF Descr
<1> HIDE DEF x
<1>4. /\ n = [s |-> 0, type |-> 9, dpl |-> 0, p |-> 1, d |-> y["d"], g |-> 0,
              base |-> b, limit |-> l]
  <2> DEFINE m == [s |-> 0, type |-> 9, dpl |-> 0, p |-> 1, d |-> y["d"], g |-> 0,
                   base |-> b, limit |-> l]
  <2>1. DOMAIN m = Fields8 /\ m = [f \in Fields8 |-> m[f]]
    BY DEF Fields8
  <2>2. n = [f \in Fields8 |-> IF f \in DOMAIN x THEN x[f] ELSE y[f]]
    BY <1>1 DEF Filled
  <2>3. \A f \in Fields8 : (IF f \in DOMAIN x THEN x[f] ELSE y[f]) = m[f]
    BY <1>2 DEF Fields8
  <2> HIDE DEF m
  <2> QED
    BY <2>1, <2>2, <2>3 DEF m
<1> HIDE DEF n
<1>5. n \in Descr /\ TssEntry(n)
  BY <1>3, <1>4, SMT DEF Descr, TssEntry
<1> QED
  BY <1>5 DEF n, x

Describes(i, n) ==
    \/ i = 0 /\ v2 = 1
    \/ i = 1 /\ v2 = 2 /\ FlatCode(n, 0)
    \/ i = 2 /\ v2 = 3 /\ FlatData(n, 0)
    \/ i = 3 /\ v2 = 8 /\ SmallData(n) /\ v1 = "tp1"
    \/ i = 4 /\ v2 = 11 /\ v1 = "tp1"
    \/ i = 5 /\ v2 = 12 /\ FlatData(n, 3) /\ v1 = "tp1"
    \/ i = 3 /\ v2 = 4 /\ FlatCode(n, 3) /\ v1 # "tp1"
    \/ i = 4 /\ v2 = 5 /\ FlatData(n, 3) /\ v1 # "tp1"
    \/ i = 5 /\ v2 = 18 /\ TssEntry(n) /\ v1 \in Rings
    \/ i = 5 /\ v2 = 13 /\ TssEntry(n) /\ v1 = "exam"

LEMMA TextDescr ==
  /\ G!Null \in Descr
  /\ \A t \in {10, 11}, ring \in {0, 3} :
        LET x == G!Descriptor(1, t, ring, 1, 1, 0, G!FLAT) IN x \in Descr /\ FlatCode(x, ring)
  /\ \A t \in {2, 3}, ring \in {0, 3} :
        LET x == G!Descriptor(1, t, ring, 1, 1, 0, G!FLAT) IN x \in Descr /\ FlatData(x, ring)
  /\ LET x == G!Descriptor(1, 3, 0, 1, 0, 6, 31) IN x \in Descr /\ SmallData(x)
  /\ G!tss_dsc \in Descr /\ TssEntry(G!tss_dsc)
<1>1. G!Null \in Descr
  BY SMT DEF G!Null, Descr
<1>2. \A t \in {10, 11}, ring \in {0, 3} :
        LET x == G!Descriptor(1, t, ring, 1, 1, 0, G!FLAT) IN x \in Descr /\ FlatCode(x, ring)
  BY SMT DEF G!Descriptor, Descr, FlatCode, G!FLAT
<1>3. \A t \in {2, 3}, ring \in {0, 3} :
        LET x == G!Descriptor(1, t, ring, 1, 1, 0, G!FLAT) IN x \in Descr /\ FlatData(x, ring)
  BY SMT DEF G!Descriptor, Descr, FlatData, G!FLAT
<1>4. LET x == G!Descriptor(1, 3, 0, 1, 0, 6, 31) IN x \in Descr /\ SmallData(x)
  BY SMT DEF G!Descriptor, Descr, SmallData
<1>5. G!tss_dsc \in Descr /\ TssEntry(G!tss_dsc)
  BY SMT DEF G!tss_dsc, G!Descriptor, Descr, TssEntry, G!TSS_AVL, G!TSS_ADDR, G!SizeofTss
<1> QED
  BY <1>1, <1>2, <1>3, <1>4, <1>5

LEMMA WhatDescribes ==
  ASSUME v1 \in Progs, v2 \in 1 .. LastOp(v1), Kinds[v1][v2] = "describe",
         G!now = G!Code[v1][v2], v4 \in [0 .. 6 -> Descr]
  PROVE  \E i \in 0 .. 5 : /\ G!now.i = i
                           /\ Filled(v4[i], G!now.dsc) \in Descr
                           /\ Describes(i, Filled(v4[i], G!now.dsc))
<1>1. ASSUME NEW i \in 0 .. 5, NEW x \in Descr, G!now = G!Describe(i, x), Describes(i, x)
      PROVE  /\ G!now.i = i
             /\ Filled(v4[i], G!now.dsc) \in Descr
             /\ Describes(i, Filled(v4[i], G!now.dsc))
  <2>1. G!now.i = i /\ G!now.dsc = x
    BY <1>1 DEF G!Describe
  <2>2. v4[i] \in Descr
    BY SMT
  <2>3. Filled(v4[i], G!now.dsc) = x
    BY <2>1, <2>2, FilledWhole
  <2> QED
    BY <1>1, <2>1, <2>3
<1>2. 0 \in 0 .. 5 /\ 1 \in 0 .. 5 /\ 2 \in 0 .. 5 /\ 3 \in 0 .. 5 /\ 4 \in 0 .. 5 /\ 5 \in 0 .. 5
  BY SMT
<1>3. CASE v1 = "tp1" /\ v2 \in {1, 2, 3, 8, 11, 12}
  <2> DEFINE Does(i, x) == G!now = G!Describe(i, x) /\ x \in Descr /\ Describes(i, x)
  <2>1. v2 = 1 => Does(0, G!Null)
    BY <1>1, <1>3, ProgramText, Tp1Text, TextDescr DEF Describes
  <2>2. v2 = 2 => Does(1, G!Descriptor(1, 11, 0, 1, 1, 0, G!FLAT))
    BY <1>1, <1>3, ProgramText, Tp1Text, TextDescr DEF Describes
  <2>3. v2 = 3 => Does(2, G!Descriptor(1, 3, 0, 1, 1, 0, G!FLAT))
    BY <1>1, <1>3, ProgramText, Tp1Text, TextDescr DEF Describes
  <2>4. v2 = 8 => Does(3, G!Descriptor(1, 3, 0, 1, 0, 6, 31))
    BY <1>1, <1>3, ProgramText, Tp1Text, TextDescr DEF Describes
  <2>5. v2 = 11 => Does(4, G!Descriptor(1, 11, 3, 1, 1, 0, G!FLAT))
    BY <1>1, <1>3, ProgramText, Tp1Text, TextDescr DEF Describes
  <2>6. v2 = 12 => Does(5, G!Descriptor(1, 3, 3, 1, 1, 0, G!FLAT))
    BY <1>1, <1>3, ProgramText, Tp1Text, TextDescr DEF Describes
  <2>7. \E i \in 0 .. 5 : \E x : Does(i, x)
    <3> HIDE DEF Does
    <3> QED
      BY <1>2, <1>3, <2>1, <2>2, <2>3, <2>4, <2>5, <2>6
  <2> QED
    BY <1>1, <2>7
<1>4. CASE v1 # "tp1" /\ v2 \in 1 .. 5
  <2> DEFINE Does(i, x) == G!now = G!Describe(i, x) /\ x \in Descr /\ Describes(i, x)
  <2>1. G!now = G!init_gdt[v2] /\ v2 \in {1, 2, 3, 4, 5}
    <3>1. v2 \in 1 .. 12 /\ v2 \in {1, 2, 3, 4, 5}
      BY <1>4, SMT
    <3> QED
      BY <1>4, <3>1, FlatCodes
  <2>2. v2 = 1 => Does(0, G!Null)
    BY <1>4, <2>1, FlatText, TextDescr DEF Describes
  <2>3. v2 = 2 => Does(1, G!gdt_flat_dsc(0, 10))
    BY <1>4, <2>1, FlatText, TextDescr DEF Describes, G!gdt_flat_dsc
  <2>4. v2 = 3 => Does(2, G!gdt_flat_dsc(0, 2))
    BY <1>4, <2>1, FlatText, TextDescr DEF Describes, G!gdt_flat_dsc
  <2>5. v2 = 4 => Does(3, G!gdt_flat_dsc(3, 10))
    BY <1>4, <2>1, FlatText, TextDescr DEF Describes, G!gdt_flat_dsc
  <2>6. v2 = 5 => Does(4, G!gdt_flat_dsc(3, 2))
    BY <1>4, <2>1, FlatText, TextDescr DEF Describes, G!gdt_flat_dsc
  <2>7. \E i \in 0 .. 5 : \E x : Does(i, x)
    <3> HIDE DEF Does
    <3> QED
      BY <1>2, <2>1, <2>2, <2>3, <2>4, <2>5, <2>6
  <2> QED
    BY <1>1, <2>7
<1>5. CASE v1 \in Rings /\ v2 = 18
  <2>1. G!now = G!Describe(5, G!tss_dsc)
    BY <1>5, RingCodes
  <2>2. Describes(5, G!tss_dsc)
    BY <1>5, TextDescr DEF Describes
  <2> QED
    BY <1>1, <1>2, <2>1, <2>2, TextDescr
<1>6. CASE v1 = "exam" /\ v2 = 13
  <2> DEFINE x == G!initialize_segment_descriptor(3, 8329, 9, 0, 0, 0, 1)
  <2>1. G!now = G!Describe(5, x)
    <3>1. 13 \in 13 .. 16 /\ 13 - 12 = 1
      BY SMT
    <3> QED
      BY <1>6, <3>1, ProgramText, ExamText
  <2>2. G!now.i = 5 /\ G!now.dsc = x
    BY <2>1 DEF G!Describe
  <2>3. /\ Filled(v4[5], x) \in Descr
        /\ TssEntry(Filled(v4[5], x))
    <3> DEFINE b == 3
               l == 8329
    <3>1. v4[5] \in Descr
      BY SMT
    <3>2. b \in Nat
      OBVIOUS
    <3>3. l \in Nat
      BY SMT
    <3> HIDE DEF b, l
    <3> DEFINE z == G!initialize_segment_descriptor(b, l, 9, 0, 0, 0, 1)
    <3>4. \A y \in Descr : Filled(y, z) \in Descr /\ TssEntry(Filled(y, z))
      BY <3>2, <3>3, FilledTss
    <3> HIDE DEF z
    <3>5. Filled(v4[5], z) \in Descr /\ TssEntry(Filled(v4[5], z))
      BY <3>1, <3>4
    <3> QED
      BY <3>5 DEF z, b, l
  <2>5. Describes(5, Filled(v4[5], x))
    BY <1>6, <2>3 DEF Describes
  <2> QED
    BY <1>2, <2>2, <2>3, <2>5
<1> QED
  BY <1>3, <1>4, <1>5, <1>6, WhereDescribe

LEMMA DescribeStep ==
  ASSUME SegInv, G!DescribeEntry
  PROVE  SegInv'
<1>1. /\ v1 \in Progs /\ v2 \in 1 .. LastOp(v1) /\ G!now = G!Code[v1][v2]
      /\ Kinds[v1][v2] = "describe" /\ v11 = << >> /\ v12 = 0
  BY WhereIs DEF SegInv, G!DescribeEntry
<1>2. TableInv /\ Own(v6, v1, v2) /\ StackAt(v9)
  BY <1>1, Alone
<1>3. v2 \in Nat
  BY <1>1, SMT DEF LastOp
<1>4. PICK i \in 0 .. 5 : /\ G!now.i = i
                          /\ Filled(v4[i], G!now.dsc) \in Descr
                          /\ Describes(i, Filled(v4[i], G!now.dsc))
  BY <1>1, <1>2, WhatDescribes DEF TableInv
<1> DEFINE n == Filled(v4[i], G!now.dsc)
<1>5. /\ v4' = [v4 EXCEPT ![i] = n]
      /\ v2' = v2 + 1 /\ UNCHANGED <<v1, v3, v5, v6, v7, v8, v9, v10, v11, v12>>
  BY <1>4 DEF G!DescribeEntry, G!Step, Filled
<1>6. n \in Descr /\ Describes(i, n)
  BY <1>4
<1> HIDE DEF n
<1>7. /\ v4' \in [0 .. 6 -> Descr]
      /\ \A j \in 0 .. 6 : v4'[j] = IF j = i THEN n ELSE v4[j]
  <2>1. i \in 0 .. 6 /\ v4 \in [0 .. 6 -> Descr]
    BY <1>2, SMT DEF TableInv
  <2> QED
    BY <1>5, <1>6, <2>1
<1>8. /\ v1 = "tp1" => v2 \in {1, 2, 3, 8, 11, 12}
      /\ v1 # "tp1" => v2 \in {1, 2, 3, 4, 5, 18, 13}
      /\ v2 = 18 => v1 \in Rings
      /\ v2 = 13 => v1 = "exam"
  <2>1. v2 \in 1 .. 5 => v2 \in {1, 2, 3, 4, 5}
    BY <1>3, SMT
  <2>2. "exam" \notin Rings
    BY DEF Rings
  <2>3. v2 = 18 => v2 \notin {1, 2, 3, 4, 5, 13}
    BY SMT
  <2>4. v2 = 13 => v2 \notin {1, 2, 3, 4, 5, 18}
    BY SMT
  <2>5. v1 = "tp1" => v1 \notin Rings
    BY DEF Rings
  <2> QED
    BY <1>1, <2>1, <2>2, <2>3, <2>4, <2>5, WhereDescribe
<1>9. /\ i = 1 <=> v2 = 2
      /\ i = 2 <=> v2 = 3
      /\ v1 = "tp1" => (i = 3 <=> v2 = 8) /\ (i = 5 <=> v2 = 12)
      /\ v1 # "tp1" => (i = 3 <=> v2 = 4) /\ (i = 4 <=> v2 = 5)
      /\ v1 \in Rings => (v2 = 18 => i = 5)
      /\ v1 = "exam" => (v2 = 13 => i = 5)
      /\ v1 \in Rings => v1 # "exam"
  BY <1>6, SMT DEF Describes, Rings
<1>10. /\ i = 1 => FlatCode(n, 0)
       /\ i = 2 => FlatData(n, 0)
       /\ v1 = "tp1" => (i = 3 => SmallData(n)) /\ (i = 5 => FlatData(n, 3))
       /\ v1 # "tp1" => (i = 3 => FlatCode(n, 3)) /\ (i = 4 => FlatData(n, 3))
                        /\ (i = 5 => TssEntry(n))
  <2>1. /\ 3 # 1 /\ 3 # 2 /\ 4 # 3 /\ 5 # 4 /\ 5 # 3 /\ 0 # 1 /\ 0 # 2 /\ 0 # 3 /\ 0 # 4
        /\ 0 # 5 /\ 1 # 2 /\ 1 # 3 /\ 1 # 4 /\ 1 # 5 /\ 2 # 3 /\ 2 # 4 /\ 2 # 5 /\ 4 # 1
        /\ 4 # 2 /\ 5 # 1 /\ 5 # 2
    BY SMT
  <2>2. "exam" # "tp1" /\ "tp1" \notin Rings
    BY DEF Rings
  <2> QED
    BY <1>6, <2>1, <2>2 DEF Describes
<1>11. 1 \in 0 .. 6 /\ 2 \in 0 .. 6 /\ 3 \in 0 .. 6 /\ 4 \in 0 .. 6 /\ 5 \in 0 .. 6
  BY SMT
<1>12. v2 # 17 /\ v2 # 19 /\ v2 <= 18 /\ v2 + 1 # 20 /\ (v1 = "tp1" => v2 + 1 # 19)
  BY <1>8, SMT
<1>13. ~Gone /\ ~Gone'
  BY <1>5, <1>12 DEF Gone
<1>14. v2' >= 3 => FlatCode(v4'[1], 0)
  <2>1. v2 + 1 >= 3 => v2 = 2 \/ v2 >= 3
    BY <1>3, SMT
  <2> QED
    BY <1>2, <1>5, <1>7, <1>9, <1>10, <1>11, <1>13, <2>1 DEF TableInv
<1>15. v2' >= 4 => FlatData(v4'[2], 0)
  <2>1. v2 + 1 >= 4 => v2 = 3 \/ v2 >= 4
    BY <1>3, SMT
  <2> QED
    BY <1>2, <1>5, <1>7, <1>9, <1>10, <1>11, <1>13, <2>1 DEF TableInv
<1>16. v1 = "tp1" => /\ v2' >= 9 => SmallData(v4'[3])
                     /\ v2' >= 13 => FlatData(v4'[5], 3)
  <2>1. /\ v2 + 1 >= 9 => v2 = 8 \/ v2 >= 9
        /\ v2 + 1 >= 13 => v2 = 12 \/ v2 >= 13
    BY <1>3, SMT
  <2> QED
    BY <1>2, <1>5, <1>7, <1>9, <1>10, <1>11, <1>13, <2>1 DEF TableInv
<1>17. v1 # "tp1" => /\ v2' >= 5 => FlatCode(v4'[3], 3)
                     /\ v2' >= 6 => FlatData(v4'[4], 3)
  <2>1. /\ v2 + 1 >= 5 => v2 = 4 \/ v2 >= 5
        /\ v2 + 1 >= 6 => v2 = 5 \/ v2 >= 6
    BY <1>3, SMT
  <2> QED
    BY <1>2, <1>5, <1>7, <1>9, <1>10, <1>11, <2>1 DEF TableInv
<1>18. v1 # "tp1" => ((v1 \in Rings /\ v2' = 19) \/ (v1 = "exam" /\ v2' \in 14 .. 16)
                         => TssEntry(v4'[5]))
  <2>1. /\ v2 + 1 = 19 => v2 = 18
        /\ v1 = "exam" => (v2 + 1 \in 14 .. 16 => v2 = 13)
    BY <1>3, <1>8, SMT
  <2> QED
    BY <1>5, <1>7, <1>9, <1>10, <1>11, <2>1
<1>19. /\ v1 \in Rings /\ v2' >= 18 => v8.ss0 = 16 /\ v8.esp0 = 30
       /\ v1 \in Rings /\ v2' >= 20 => FALSE
  <2>1. v2 + 1 >= 18 => v2 >= 18
    BY <1>3, <1>12, SMT
  <2>2. ~(v2 + 1 >= 20)
    BY <1>3, <1>12, SMT
  <2> QED
    BY <1>2, <1>5, <2>1, <2>2 DEF TableInv
<1>20. /\ v3 \in BOOLEAN
       /\ v1 = "tp1" => (v3 <=> v2' <= 4) /\ (~v3 => v5 = 7)
       /\ v1 # "tp1" => (v3 <=> v2' <= 6) /\ (~v3 => v5 = 6)
  <2>1. /\ v1 = "tp1" => (v2 <= 4 <=> v2 + 1 <= 4)
        /\ v1 # "tp1" => (v2 <= 6 <=> v2 + 1 <= 6)
    BY <1>3, <1>8, SMT
  <2> QED
    BY <1>2, <1>5, <2>1 DEF TableInv
<1>21. TableInv'
  BY <1>5, <1>7, <1>13, <1>14, <1>15, <1>16, <1>17, <1>18, <1>19, <1>20 DEF TableInv
<1>22. Own(v6, v1, v2 + 1)
  <2>1. v1 \in Rings => v2 \notin {13, 14, 15, 16, 20}
    BY <1>8, <1>9, SMT DEF Rings
  <2> QED
    BY <1>1, <1>2, <1>3, <2>1, OwnStays
<1>23. v9' = SpOf(v1, v2 + 1)
  <2>1. v2 \notin {17, 20, 21}
    BY <1>12, SMT
  <2> QED
    BY <1>1, <1>2, <1>3, <1>5, <2>1, StackStays DEF StackAt
<1> QED
  BY <1>1, <1>5, <1>21, <1>22, <1>23, GoesOn DEF SegInv

LEMMA PanicStep ==
  ASSUME SegInv, G!Panic
  PROVE  SegInv'
<1>1. /\ v1 \in Progs /\ v2 \in 1 .. LastOp(v1)
      /\ Kinds[v1][v2] = "panic" /\ v11 = << >> /\ v12 = 0
  BY WhereIs DEF SegInv, G!Panic
<1>2. TableInv /\ Own(v6, v1, v2) /\ StackAt(v9)
  BY <1>1, Alone
<1>3. v1 \in {"tp1", "exam"} /\ v2 = 18 /\ v2 + 1 = 19 /\ v2 \in Nat
  BY <1>1, WhereOthers, SMT
<1>4. v1 \notin Rings
  BY <1>3 DEF Rings
<1>5. /\ v4' \in IF v1 = "tp1" THEN {v4, [i \in DOMAIN v4 |-> G!Null]} ELSE {v4}
      /\ v2' = 19 /\ UNCHANGED <<v1, v3, v5, v6, v7, v8, v9, v10, v11, v12>>
  BY <1>3 DEF G!Panic, G!Step
<1>6. ~Gone /\ (v1 = "tp1" => Gone')
  BY <1>3, <1>5 DEF Gone
<1>7. 18 >= 3 /\ 18 >= 4 /\ 18 >= 5 /\ 18 >= 6 /\ ~(18 <= 4) /\ ~(18 <= 6) /\ ~(19 <= 4)
      /\ ~(19 <= 6) /\ 19 \notin 14 .. 16
  BY SMT
<1>8. v4' \in [0 .. 6 -> Descr]
  BY <1>2, <1>5, TextDescr DEF TableInv
<1>9. FlatCode(v4'[1], 0) \/ (v1 = "tp1" /\ v4'[1].p = 0)
  <2>1. FlatCode(v4[1], 0) /\ DOMAIN v4 = 0 .. 6 /\ 1 \in 0 .. 6
    BY <1>2, <1>3, <1>6, <1>7, SMT DEF TableInv
  <2>2. G!Null.p = 0
    BY DEF G!Null
  <2> QED
    BY <1>3, <1>5, <2>1, <2>2
<1>10. v1 = "exam" => v4' = v4
  BY <1>5
<1>11. TableInv'
  <2>1. CASE v1 = "tp1"
    BY <1>1, <1>2, <1>3, <1>4, <1>5, <1>6, <1>7, <1>8, <1>9, <2>1 DEF TableInv
  <2>2. CASE v1 = "exam"
    BY <1>2, <1>3, <1>4, <1>5, <1>6, <1>7, <1>8, <1>9, <1>10, <2>2 DEF TableInv
  <2> QED
    BY <1>3, <2>1, <2>2
<1>12. Own(v6, v1, v2 + 1)
  BY <1>1, <1>2, <1>3, <1>4, OwnStays
<1>13. v9' = SpOf(v1, v2 + 1)
  <2>1. v2 # 17
    BY <1>3
  <2> QED
    BY <1>1, <1>2, <1>3, <1>4, <1>5, <2>1, StackStays DEF StackAt
<1> QED
  BY <1>1, <1>3, <1>5, <1>11, <1>12, <1>13, GoesOn DEF SegInv

LEMMA EnterStep ==
  ASSUME SegInv, G!EnterRing3
  PROVE  SegInv'
<1>1. /\ v1 \in Progs /\ v2 \in 1 .. LastOp(v1) /\ G!now = G!Code[v1][v2]
      /\ Kinds[v1][v2] = "iret" /\ v11 = << >> /\ v12 = 0
  BY WhereIs DEF SegInv, G!EnterRing3
<1>2. TableInv /\ Own(v6, v1, v2) /\ StackAt(v9)
  BY <1>1, Alone
<1>3. v1 \in Rings /\ v2 = 20 /\ v2 + 1 = 21 /\ v2 \in Nat /\ v2 \in 1 .. LastOp(v1) + 1
  BY <1>1, WhereOthers, SMT DEF LastOp
<1>4. PICK w \in {30, 60} : (w = 30 <=> v1 = "tp3") /\ G!now = G!iret(27, 35, w)
  BY <1>1, <1>3, RingCodes
<1>5. G!now.cs = 27 /\ G!now.ss = 35 /\ G!now.esp = w
  BY <1>4 DEF G!iret
<1>6. ~Outer(v1, v2) /\ Outer(v1, v2 + 1) /\ v2 >= 7
  BY <1>3, SMT DEF Outer
<1>7. G!cpl = 0
  BY <1>1, <1>2, <1>3, <1>6, Rings0And3 DEF G!cpl
<1> DEFINE e == G!Entry(27)
           f == G!Entry(35)
           x == G!Loaded(27, e)
           y == G!Loaded(35, f)
<1>8. /\ e \in Descr /\ G!InTable(27) /\ FlatCode(e, 3)
      /\ f \in Descr /\ G!InTable(35) /\ FlatData(f, 3)
  <2>1. v1 # "tp1"
    BY <1>3 DEF Rings
  <2> QED
    BY <1>1, <1>2, <1>3, <1>6, <2>1, InForce DEF In
<1>9. G!CodeLoads(27, 3) /\ G!StackLoads(35, 3)
  <2>1. G!IsCode(e) /\ e.dpl = 3 /\ G!IsData(f) /\ f.dpl = 3
    BY <1>8, Checks
  <2> QED
    BY <1>8, <2>1, Selectors DEF G!CodeLoads, G!StackLoads
<1>10. /\ v6' = [r \in G!Registers |->
                   CASE r = "cs" -> x
                     [] r = "ss" -> y
                     [] r \in G!DataRegisters /\ v6[r].dsc.dpl < G!Rpl(27) -> G!Loaded(0, G!Null)
                     [] OTHER -> v6[r]]
       /\ v12' = v12 /\ v2' = v2 + 1 /\ v9' = w
       /\ DOMAIN v10' = DOMAIN v10
       /\ UNCHANGED <<v1, v3, v4, v5, v7, v8, v11>>
  <2>1. G!ReturnTo(27, 35, w)
    BY <1>5 DEF G!EnterRing3
  <2>2. G!Rpl(27) = 3 /\ 3 # 0
    BY Selectors
  <2>5. G!CodeLoads(27, G!Rpl(27)) /\ G!StackLoads(35, G!Rpl(27)) /\ G!Rpl(27) # G!cpl
    BY <1>7, <1>9, <2>2
  <2>3. /\ v6' = [r \in G!Registers |->
                   CASE r = "cs" -> x
                     [] r = "ss" -> y
                     [] r \in G!DataRegisters /\ v6[r].dsc.dpl < G!Rpl(27) -> G!Loaded(0, G!Null)
                     [] OTHER -> v6[r]]
        /\ v12' = v12 /\ v9' = w
    BY <2>1, <2>5, Zenon DEF G!ReturnTo
  <2>4. DOMAIN v10' = DOMAIN v10 /\ v2' = v2 + 1 /\ UNCHANGED <<v1, v3, v4, v5, v7, v8, v11>>
    BY DEF G!EnterRing3, G!Step, G!table, G!Pushed
  <2> QED
    BY <2>3, <2>4
<1>11. /\ x \in [sel : Nat, dsc : Descr] /\ x.sel = 27 /\ RegOK(x, v1, v2 + 1)
       /\ y \in [sel : Nat, dsc : Descr] /\ y.sel = 35 /\ RegOK(y, v1, v2 + 1)
  <2>1. 27 \in Nat /\ 35 \in Nat /\ v2 + 1 >= 21 /\ v2 + 1 >= 14
    BY <1>3, SMT
  <2> HIDE DEF e, f
  <2> QED
    BY <1>3, <1>8, <2>1 DEF G!Loaded, RegOK
<1>12. \A r \in DataRegs : v6[r].sel = 35 /\ v6[r].dsc.dpl = 3
  <2>1. v2 >= 14 /\ v2 >= 15 /\ v2 >= 16 /\ v2 >= 17
    BY <1>3, SMT
  <2>2. \A r \in DataRegs : v6[r].sel = 35
    BY <1>2, <1>3, <2>1 DEF Own, DataRegs
  <2>3. \A r \in DataRegs : RegOK(v6[r], v1, v2)
    BY <1>2 DEF Own, DataRegs, Regs
  <2>4. 35 # 8 /\ 35 # 16 /\ 35 # 24 /\ 35 # 27 /\ 35 # 43
    BY SMT
  <2> QED
    BY <2>2, <2>3, <2>4 DEF RegOK, FlatData
<1> HIDE DEF x, y
<1>13. v6' = [r \in Regs |-> IF r = "cs" THEN x ELSE IF r = "ss" THEN y ELSE v6[r]]
  <2>1. \A r \in DataRegs : ~(v6[r].dsc.dpl < G!Rpl(27))
    BY <1>12, Selectors, SMT
  <2>2. G!Registers = Regs /\ G!DataRegisters = DataRegs /\ Regs = {"cs", "ss"} \cup DataRegs
    BY DEF G!Registers, G!DataRegisters, Regs, DataRegs
  <2> QED
    BY <1>10, <2>1, <2>2
<1>14. Own(v6', v1, v2 + 1)
  <2>1. v6' \in SegTypes
    BY <1>2, <1>11, <1>13 DEF Own, SegTypes
  <2>2. \A r \in Regs : RegOK(v6'[r], v1, v2 + 1)
    BY <1>2, <1>3, <1>11, <1>13, Stays DEF Own
  <2>3. v6'["cs"].sel = 27 /\ v6'["ss"].sel = 35
    BY <1>11, <1>13 DEF Regs
  <2>4. \A r \in DataRegs : v6'[r].sel = 35
    BY <1>12, <1>13 DEF Regs, DataRegs
  <2>5. 35 # 24
    BY SMT
  <2> QED
    BY <1>6, <2>1, <2>2, <2>3, <2>4, <2>5 DEF Own, DataRegs
<1>15. TableInv'
  BY <1>1, <1>2, <1>10, TableStays DEF Telling
<1>16. v9' = SpOf(v1, v2 + 1)
  BY <1>3, <1>4, <1>6, <1>10, SMT DEF SpOf
<1> QED
  BY <1>1, <1>10, <1>14, <1>15, <1>16, GoesOn DEF SegInv

-----------------------------------------------------------------------------
(* The segments: interrupts *)

LEMMA GateOpen ==
  ASSUME TableInv, v1 \in Progs, v2 \in 1 .. LastOp(v1) + 1, ~(Gone /\ v11 = << >>)
  PROVE  v3 \/ FlatCode(v4[1], 0)
<1>1. v2 >= 3 => FlatCode(v4[1], 0)
  BY DEF TableInv
<1>2. v2 < 3 => v2 <= 4 /\ v2 <= 6
  BY SMT DEF LastOp
<1>3. v2 >= 3 \/ v2 < 3
  BY SMT DEF LastOp
<1> QED
  BY <1>1, <1>2, <1>3 DEF TableInv

\* n words are below top, the others as they were
Stored(ram, top, n, words) ==
    /\ DOMAIN ram = 0 .. 60
    /\ \A x \in top .. 60 : ram[x] = v10[x]
    /\ \A j \in 1 .. n : ram[top - j] = words[j]

LEMMA PushedWords ==
  \A top, n \in Nat : \A words :
      Len(words) = n /\ top <= 60 /\ n <= top /\ DOMAIN v10 = 0 .. 60 =>
          Stored(G!Pushed(top, words), top, n, words)
<1> TAKE top, n \in Nat
<1> TAKE words
<1> HAVE Len(words) = n /\ top <= 60 /\ n <= top /\ DOMAIN v10 = 0 .. 60
<1>1. \A x \in top .. 60 : x \in 0 .. 60 /\ ~(x < top)
  BY SMT
<1>2. \A j \in 1 .. n : /\ top - j \in 0 .. 60 /\ top - j < top /\ top - j >= top - n
                        /\ top - (top - j) = j
  BY SMT
<1> QED
  BY <1>1, <1>2 DEF G!Pushed, Stored

LEMMA DeliverTaken ==
  ASSUME NEW v, G!Deliver(v), v12 = 0, G!CodeLoads(8, 0),
         G!cpl = 3 => v7 # 0 /\ G!StackLoads(v8.ss0, 0)
  PROVE  LET outer == G!cpl = 3
             words == (IF outer THEN <<G!Word("ss", v6.ss.sel), G!Word("esp", v9)>> ELSE << >>)
                      \o <<G!Word("eflags", 0), G!Word("cs", v6.cs.sel),
                           G!Word("eip", 0), G!Word("context", 0)>>
         IN  /\ v6' = [v6 EXCEPT !.cs = G!Loaded(8, G!Entry(8)),
                                 !.ss = IF outer THEN G!Loaded(v8.ss0, G!Entry(v8.ss0)) ELSE @]
             /\ v10' = G!Pushed(IF outer THEN v8.esp0 ELSE v9, words)
             /\ v9' = (IF outer THEN v8.esp0 ELSE v9) - Len(words)
             /\ v11' = <<G!Snapshot(v)>> \o v11
             /\ v12' = 0
<1> DEFINE gs == G!GateSelector
<1>1. gs = 8
  BY Selectors
<1>2. LET outer == G!cpl = 3
          words == (IF outer THEN <<G!Word("ss", v6.ss.sel), G!Word("esp", v9)>> ELSE << >>)
                   \o <<G!Word("eflags", 0), G!Word("cs", v6.cs.sel),
                        G!Word("eip", 0), G!Word("context", 0)>>
      IN  IF G!CodeLoads(gs, 0) /\ (G!cpl = 3 => v7 # 0 /\ G!StackLoads(v8.ss0, 0))
          THEN /\ v6' = [v6 EXCEPT !.cs = G!Loaded(gs, G!Entry(gs)),
                              !.ss = IF outer THEN G!Loaded(v8.ss0, G!Entry(v8.ss0)) ELSE @]
               /\ v10' = G!Pushed(IF outer THEN v8.esp0 ELSE v9, words)
               /\ v9' = (IF outer THEN v8.esp0 ELSE v9) - Len(words)
               /\ v11' = <<G!Snapshot(v)>> \o v11
               /\ v12' = v12
          ELSE TRUE
  BY Zenon DEF G!Deliver
<1> HIDE DEF gs
<1>3. G!CodeLoads(gs, 0) /\ (G!cpl = 3 => v7 # 0 /\ G!StackLoads(v8.ss0, 0))
  BY <1>1
<1> QED
  BY <1>1, <1>2, <1>3

LEMMA DeliveredInner ==
  ASSUME NEW v, TableInv, v1 \in Progs, v2 \in 1 .. LastOp(v1) + 1, DOMAIN v10 = 0 .. 60,
         v12 = 0, v6 \in SegTypes, RegOK(v6["cs"], v1, v2), RegOK(v6["ss"], v1, v2),
         v3 \/ FlatCode(v4[1], 0),
         v6["cs"].sel = 8, v6["ss"].sel = 16, v9 \in 22 .. 30, G!Deliver(v)
  PROVE  /\ v12' = 0 /\ v11' = <<G!Snapshot(v)>> \o v11
         /\ DOMAIN v10' = 0 .. 60 /\ \A x \in v9 .. 60 : v10'[x] = v10[x]
         /\ Over(G!Snapshot(v), v6', v9', v10', v1, v2)
<1> DEFINE e == G!Entry(8)
           x == G!Loaded(8, e)
           words == << >> \o <<G!Word("eflags", 0), G!Word("cs", v6["cs"].sel),
                               G!Word("eip", 0), G!Word("context", 0)>>
<1>1. e \in Descr /\ G!InTable(8) /\ FlatCode(e, 0)
  BY InForce DEF In
<1>2. G!cpl = 0 /\ G!cpl # 3
  BY Selectors DEF G!cpl
<1>3. G!CodeLoads(8, 0)
  <2>1. G!IsCode(e) /\ e.dpl = 0
    BY <1>1, Checks
  <2> QED
    BY <1>1, <2>1 DEF G!CodeLoads
<1>4. /\ v6' = [v6 EXCEPT !["cs"] = x, !["ss"] = @]
      /\ v10' = G!Pushed(v9, words)
      /\ v9' = v9 - Len(words)
      /\ v11' = <<G!Snapshot(v)>> \o v11
      /\ v12' = 0
  <2>1. G!cpl = 3 => v7 # 0 /\ G!StackLoads(v8.ss0, 0)
    BY <1>2
  <2>2. LET outer == G!cpl = 3
            w == (IF outer THEN <<G!Word("ss", v6.ss.sel), G!Word("esp", v9)>> ELSE << >>)
                 \o <<G!Word("eflags", 0), G!Word("cs", v6.cs.sel),
                      G!Word("eip", 0), G!Word("context", 0)>>
        IN  /\ v6' = [v6 EXCEPT !.cs = x,
                                !.ss = IF outer THEN G!Loaded(v8.ss0, G!Entry(v8.ss0)) ELSE @]
            /\ v10' = G!Pushed(IF outer THEN v8.esp0 ELSE v9, w)
            /\ v9' = (IF outer THEN v8.esp0 ELSE v9) - Len(w)
            /\ v11' = <<G!Snapshot(v)>> \o v11
            /\ v12' = 0
    BY <1>3, <2>1, DeliverTaken, Zenon
  <2> QED
    BY <1>2, <2>2
<1>5. Len(words) = 4 /\ words[2] = G!Word("cs", 8)
  BY SMT
<1> HIDE DEF words
<1>6. /\ DOMAIN v10' = 0 .. 60
      /\ \A y \in v9 .. 60 : v10'[y] = v10[y]
      /\ v10'[v9 - 2] = words[2]
  <2>1. v9 \in Nat /\ v9 <= 60 /\ 4 <= v9 /\ 2 \in 1 .. 4 /\ 4 \in Nat
    BY SMT
  <2> QED
    <3> DEFINE n == 4
    <3>1. v9 \in Nat /\ n \in Nat /\ Len(words) = n /\ v9 <= 60 /\ n <= v9
      BY <1>5, <2>1
    <3> HIDE DEF n
    <3>2. Stored(G!Pushed(v9, words), v9, n, words)
      BY <3>1, PushedWords
    <3>3. Stored(v10', v9, n, words)
      BY <1>4, <3>2
    <3> QED
      BY <2>1, <3>3 DEF n, Stored
<1>7. v9' = v9 - 4 /\ v9' + 2 = v9 - 2
  BY <1>4, <1>5, SMT
<1>8. v10'[v9' + 2][2] = 8
  BY <1>5, <1>6, <1>7 DEF G!Word
<1>9. x \in [sel : Nat, dsc : Descr] /\ x.sel = 8 /\ RegOK(x, v1, v2)
  <2>1. 8 \in Nat
    BY SMT
  <2> HIDE DEF e
  <2> QED
    BY <1>1, <2>1 DEF G!Loaded, RegOK
<1> HIDE DEF x
<1>10. /\ v6' \in SegTypes
       /\ \A q \in Regs : v6'[q] = IF q = "cs" THEN x ELSE v6[q]
  BY <1>4, <1>9 DEF SegTypes, Regs
<1> DEFINE h == G!Snapshot(v)
<1>11. h.seg = v6 /\ h.esp = v9 /\ h.ram = v10
  BY DEF G!Snapshot
<1> HIDE DEF h
<1>12. \A y \in v9 .. 59 : v10'[y] = v10[y]
  <2>1. \A y \in v9 .. 59 : y \in v9 .. 60
    BY SMT
  <2> QED
    BY <1>6, <2>1
<1>13. Over(h, v6', v9', v10', v1, v2)
  BY <1>7, <1>8, <1>9, <1>10, <1>11, <1>12 DEF Over, Regs
<1> QED
  BY <1>4, <1>6, <1>13 DEF h

LEMMA DeliveredOuter ==
  ASSUME NEW v, TableInv, v1 \in Progs, v2 \in 1 .. LastOp(v1) + 1, DOMAIN v10 = 0 .. 60,
         v12 = 0, v6 \in SegTypes, RegOK(v6["cs"], v1, v2), RegOK(v6["ss"], v1, v2),
         Outer(v1, v2), v6["cs"].sel = 27, v6["ss"].sel = 35, v9 \in 29 .. 60,
         v1 # "tp3" => v9 >= 30, G!Deliver(v)
  PROVE  /\ v12' = 0 /\ v11' = <<G!Snapshot(v)>> \o v11
         /\ DOMAIN v10' = 0 .. 60
         /\ Over(G!Snapshot(v), v6', v9', v10', v1, v2)
<1> DEFINE e == G!Entry(8)
           f == G!Entry(16)
           x == G!Loaded(8, e)
           z == G!Loaded(16, f)
           words == <<G!Word("ss", v6["ss"].sel), G!Word("esp", v9)>>
                    \o <<G!Word("eflags", 0), G!Word("cs", v6["cs"].sel),
                         G!Word("eip", 0), G!Word("context", 0)>>
<1>1. /\ v1 \in Rings /\ v2 \in Nat /\ v2 >= 21 /\ v2 >= 3 /\ v2 >= 18 /\ v2 >= 20
      /\ ~Gone
  BY SMT DEF Outer, LastOp, Gone, Rings
<1>2. v8.ss0 = 16 /\ v8.esp0 = 30 /\ v7 = 5 /\ FlatCode(v4[1], 0)
  BY <1>1 DEF TableInv
<1>3. /\ e \in Descr /\ G!InTable(8) /\ FlatCode(e, 0)
      /\ f \in Descr /\ G!InTable(16) /\ FlatData(f, 0)
  BY <1>1, <1>2, InForce DEF In
<1>4. G!cpl = 3
  BY Selectors DEF G!cpl
<1>5. G!CodeLoads(8, 0) /\ G!StackLoads(16, 0) /\ v7 # 0
  <2>1. G!IsCode(e) /\ e.dpl = 0 /\ G!IsData(f) /\ f.dpl = 0
    BY <1>3, Checks
  <2> QED
    BY <1>2, <1>3, <2>1, Selectors DEF G!CodeLoads, G!StackLoads
<1>6. /\ v6' = [v6 EXCEPT !["cs"] = x, !["ss"] = z]
      /\ v10' = G!Pushed(30, words)
      /\ v9' = 30 - Len(words)
      /\ v11' = <<G!Snapshot(v)>> \o v11
      /\ v12' = 0
  <2>1. G!cpl = 3 => v7 # 0 /\ G!StackLoads(v8.ss0, 0)
    BY <1>2, <1>5
  <2>2. LET outer == G!cpl = 3
            w == (IF outer THEN <<G!Word("ss", v6.ss.sel), G!Word("esp", v9)>> ELSE << >>)
                 \o <<G!Word("eflags", 0), G!Word("cs", v6.cs.sel),
                      G!Word("eip", 0), G!Word("context", 0)>>
        IN  /\ v6' = [v6 EXCEPT !.cs = x,
                                !.ss = IF outer THEN G!Loaded(v8.ss0, G!Entry(v8.ss0)) ELSE @]
            /\ v10' = G!Pushed(IF outer THEN v8.esp0 ELSE v9, w)
            /\ v9' = (IF outer THEN v8.esp0 ELSE v9) - Len(w)
            /\ v11' = <<G!Snapshot(v)>> \o v11
            /\ v12' = 0
    BY <1>5, <2>1, DeliverTaken, Zenon
  <2> QED
    BY <1>2, <1>4, <2>2
<1>7. Len(words) = 6 /\ words[4] = G!Word("cs", 27) /\ words[2] = G!Word("esp", v9)
      /\ words[1] = G!Word("ss", 35)
  BY SMT
<1> HIDE DEF words
<1>8. /\ DOMAIN v10' = 0 .. 60
      /\ \A y \in 30 .. 60 : v10'[y] = v10[y]
      /\ v10'[26] = words[4] /\ v10'[28] = words[2] /\ v10'[29] = words[1]
  <2>1. 30 \in Nat /\ 30 <= 60 /\ 6 <= 30 /\ 1 \in 1 .. 6 /\ 2 \in 1 .. 6 /\ 4 \in 1 .. 6
        /\ 6 \in Nat /\ 30 - 4 = 26 /\ 30 - 2 = 28 /\ 30 - 1 = 29
    BY SMT
  <2>2. /\ DOMAIN v10' = 0 .. 60
        /\ \A y \in 30 .. 60 : v10'[y] = v10[y]
        /\ \A j \in 1 .. 6 : v10'[30 - j] = words[j]
    <3> DEFINE n == 6
               top == 30
    <3>1. top \in Nat /\ n \in Nat /\ Len(words) = n /\ top <= 60 /\ n <= top
      BY <1>7, <2>1
    <3>2. v10' = G!Pushed(top, words)
      BY <1>6
    <3> HIDE DEF n, top
    <3>3. Stored(G!Pushed(top, words), top, n, words)
      BY <3>1, PushedWords
    <3>4. Stored(v10', top, n, words)
      BY <3>2, <3>3
    <3> QED
      BY <3>4 DEF n, top, Stored
  <2> QED
    BY <2>1, <2>2
<1>9. v9' = 24 /\ v9' + 2 = 26 /\ v9' + 4 = 28 /\ v9' + 5 = 29
  BY <1>6, <1>7, SMT
<1>10. v10'[v9' + 2][2] = 27 /\ v10'[v9' + 4][2] = v9 /\ v10'[v9' + 5][2] = 35
  BY <1>7, <1>8, <1>9 DEF G!Word
<1>11. /\ x \in [sel : Nat, dsc : Descr] /\ x.sel = 8 /\ RegOK(x, v1, v2)
       /\ z \in [sel : Nat, dsc : Descr] /\ z.sel = 16 /\ RegOK(z, v1, v2)
  <2>1. 8 \in Nat /\ 16 \in Nat
    BY SMT
  <2> HIDE DEF e, f
  <2> QED
    BY <1>3, <2>1 DEF G!Loaded, RegOK
<1> HIDE DEF x, z
<1>12. /\ v6' \in SegTypes
       /\ \A q \in Regs : v6'[q] = IF q = "cs" THEN x ELSE IF q = "ss" THEN z ELSE v6[q]
  BY <1>6, <1>11 DEF SegTypes, Regs
<1> DEFINE h == G!Snapshot(v)
<1>13. h.seg = v6 /\ h.esp = v9 /\ h.ram = v10
  BY DEF G!Snapshot
<1> HIDE DEF h
<1>14. v1 # "tp3" => \A y \in v9 .. 59 : v10'[y] = v10[y]
  <2>1. v1 # "tp3" => \A y \in v9 .. 59 : y \in 30 .. 60
    BY SMT
  <2> QED
    BY <1>8, <2>1
<1>15. 27 # 8
  BY SMT
<1>16. Over(h, v6', v9', v10', v1, v2)
  BY <1>9, <1>10, <1>11, <1>12, <1>13, <1>14, <1>15 DEF Over, Regs
<1> QED
  BY <1>6, <1>8, <1>16 DEF h

LEMMA StackRange ==
  ASSUME NEW p \in Progs, NEW k \in Nat
  PROVE  /\ Outer(p, k) => SpOf(p, k) \in 29 .. 60 /\ (p # "tp3" => SpOf(p, k) >= 59)
         /\ ~Outer(p, k) => SpOf(p, k) \in {26, 30}
<1>1. CASE Outer(p, k)
  <2>1. CASE p = "tp3"
    BY <1>1, <2>1, SMT DEF SpOf
  <2>2. CASE p # "tp3"
    BY <1>1, <2>2, SMT DEF SpOf
  <2> QED
    BY <1>1, <2>1, <2>2
<1>2. CASE ~Outer(p, k)
  BY <1>2 DEF SpOf
<1> QED
  BY <1>1, <1>2

LEMMA OverStays ==
  ASSUME NEW h, NEW sg, NEW w \in 18 .. 30, NEW ram, NEW ram2, NEW p, NEW k,
         Over(h, sg, w, ram, p, k), \A x \in w .. 60 : ram2[x] = ram[x], h.esp \in w .. 60
  PROVE  Over(h, sg, w, ram2, p, k)
<1>1. /\ w + 2 \in w .. 60 /\ w + 4 \in w .. 60 /\ w + 5 \in w .. 60
      /\ \A x \in h.esp .. 59 : x \in w .. 60
  BY SMT
<1> QED
  BY <1>1 DEF Over

LEMMA Interrupted ==
  ASSUME NEW h, NEW sg, NEW w, NEW ram, NEW p \in Progs, NEW k \in Nat,
         Over(h, sg, w, ram, p, k), Own(h.seg, p, k), h.esp = SpOf(p, k)
  PROVE  w \in {22, 24, 26} /\ h.esp \in w .. 60
<1>1. CASE Outer(p, k)
  <2>1. h.seg["cs"].sel = 27 /\ 27 # 8
    BY <1>1, SMT DEF Own
  <2>2. w = 24
    BY <2>1 DEF Over
  <2> QED
    BY <1>1, <2>2, StackRange, SMT
<1>2. CASE ~Outer(p, k)
  <2>1. h.seg["cs"].sel = 8
    BY <1>2 DEF Own
  <2>2. w = h.esp - 4
    BY <2>1 DEF Over
  <2> QED
    BY <1>2, <2>2, StackRange, SMT
<1> QED
  BY <1>1, <1>2

\* An NMI, a system call or the protection fault of a program on its own stack
LEMMA DeliveredFirst ==
  ASSUME NEW v, TableInv, v1 \in Progs, v2 \in 1 .. LastOp(v1) + 1, DOMAIN v10 = 0 .. 60,
         v12 = 0, Own(v6, v1, v2), StackAt(v9), v11 = << >>,
         v3 \/ FlatCode(v4[1], 0), G!Deliver(v)
  PROVE  /\ v12' = 0 /\ v11' = <<G!Snapshot(v)>>
         /\ DOMAIN v10' = 0 .. 60
         /\ Over(G!Snapshot(v), v6', v9', v10', v1, v2)
<1>1. v2 \in Nat
  BY SMT DEF LastOp
<1>2. v6 \in SegTypes /\ RegOK(v6["cs"], v1, v2) /\ RegOK(v6["ss"], v1, v2)
  BY DEF Own, Regs
<1>3. \A h : <<h>> \o << >> = <<h>>
  OBVIOUS
<1>4. /\ v12' = 0 /\ v11' = <<G!Snapshot(v)>> \o << >>
      /\ DOMAIN v10' = 0 .. 60
      /\ Over(G!Snapshot(v), v6', v9', v10', v1, v2)
  <2>1. CASE Outer(v1, v2)
    <3>1. v6["cs"].sel = 27 /\ v6["ss"].sel = 35
      BY <2>1 DEF Own
    <3>2. v9 \in 29 .. 60 /\ (v1 # "tp3" => v9 >= 30)
      <4>1. SpOf(v1, v2) \in 29 .. 60 /\ (v1 # "tp3" => SpOf(v1, v2) >= 59)
        BY <1>1, <2>1, StackRange
      <4>2. v9 \in 29 .. 60 /\ (v1 # "tp3" => v9 >= 59)
        BY <4>1 DEF StackAt
      <4>3. v9 \in 29 .. 60 => (v9 >= 59 => v9 >= 30)
        BY SMT
      <4> QED
        BY <4>2, <4>3
    <3> QED
      BY <1>2, <2>1, <3>1, <3>2, DeliveredOuter
  <2>2. CASE ~Outer(v1, v2)
    <3>1. v6["cs"].sel = 8 /\ v6["ss"].sel = 16
      BY <2>2 DEF Own
    <3>2. v9 \in 22 .. 30
      BY <1>1, <2>2, StackRange, SMT DEF StackAt
    <3> QED
      BY <1>2, <3>1, <3>2, DeliveredInner
  <2> QED
    BY <2>1, <2>2
<1> QED
  BY <1>3, <1>4

LEMMA Pairs ==
  ASSUME NEW a, NEW b
  PROVE  <<a>> \o <<b>> = <<a, b>> /\ <<a, b>>[1] = a /\ <<a, b>>[2] = b /\ <<a, b>> # << >>
<1> DEFINE Both == {a, b}
<1>1. <<a>> \in Seq(Both) /\ <<b>> \in Seq(Both) /\ <<a, b>> \in Seq(Both)
  OBVIOUS
<1>2. <<a, b>>[1] = a /\ <<a, b>>[2] = b /\ Len(<<a, b>>) = 2
  OBVIOUS
<1> DEFINE c == <<a>> \o <<b>>
<1>3. c \in Seq(Both) /\ Len(c) = 2 /\ c[1] = a /\ c[2] = b
  BY <1>1, ConcatProperties
<1>4. \A i \in 1 .. 2 : i = 1 \/ i = 2
  BY SMT
<1>5. c = <<a, b>>
  <2>1. \A i \in 1 .. Len(c) : c[i] = <<a, b>>[i]
    BY <1>2, <1>3, <1>4
  <2> HIDE DEF c, Both
  <2> QED
    BY <1>1, <1>2, <1>3, <2>1, SeqEqual
<1>6. <<a, b>> # << >>
  BY <1>2
<1> QED
  BY <1>2, <1>5, <1>6

LEMMA NMIStep ==
  ASSUME SegInv, G!NMI
  PROVE  SegInv'
<1>1. /\ v12 = 0 /\ \A i \in DOMAIN v11 : v11[i].nr # 2
      /\ G!Deliver(2) /\ UNCHANGED <<v1, v2, v3, v4, v5, v7, v8>>
  BY DEF G!NMI, G!table
<1>2. /\ v1 \in Progs /\ v2 \in 1 .. LastOp(v1) + 1 /\ DOMAIN v10 = 0 .. 60
      /\ TableInv /\ Nest
  BY <1>1 DEF SegInv
<1>3. v2 \in Nat
  BY <1>2, SMT DEF LastOp
<1>4. ASSUME ~(v3 \/ FlatCode(v4[1], 0))
      PROVE  SegInv'
  <2>1. Gone /\ v11 = << >>
    BY <1>2, <1>4, GateOpen
  <2>2. v4[1].p = 0 /\ v4 \in [0 .. 6 -> Descr]
    <3>1. v2 >= 3
      BY <2>1, SMT DEF Gone
    <3> QED
      BY <1>2, <1>4, <3>1 DEF TableInv
  <2>3. G!Entry(8) = v4[1]
    BY <1>4, Selectors DEF G!Entry
  <2>4. ~G!CodeLoads(8, 0)
    BY <2>2, <2>3, SMT DEF G!CodeLoads, G!IsCode
  <2>5. v12' = 10 /\ UNCHANGED <<v6, v10, v9, v11>>
    <3> DEFINE gs == G!GateSelector
    <3>1. gs = 8
      BY Selectors
    <3>2. G!CodeLoads(gs, 0) \/ (v12' = 10 /\ UNCHANGED <<v6, v10, v9, v11>>)
      BY <1>1, Zenon DEF G!Deliver
    <3> HIDE DEF gs
    <3> QED
      BY <2>4, <3>1, <3>2
  <2>6. v12' # 0 /\ Gone' /\ DOMAIN v10' = 0 .. 60
    BY <1>1, <1>2, <2>1, <2>5 DEF Gone
  <2> QED
    BY <1>1, <1>2, <2>6 DEF SegInv
<1>5. ASSUME v3 \/ FlatCode(v4[1], 0), v12' = 0, DOMAIN v10' = 0 .. 60, Nest', v11' # << >>
      PROVE  SegInv'
  <2>1. TableInv'
    <3>1. v2 < 3 => ~(v2 >= 3) /\ (v2 >= 3 \/ v2 < 3)
      BY <1>3, SMT
    <3>2. v2 >= 3 => FlatCode(v4[1], 0)
      <4>1. v2 >= 3 /\ v3 => FlatCode(v4[1], 0)
        <5>1. v3 => ~Gone
          <6>1. v2 = 19 => ~(v2 <= 4)
            BY SMT
          <6> QED
            BY <1>2, <6>1 DEF TableInv, Gone
        <5> QED
          BY <1>2, <5>1 DEF TableInv
      <4> QED
        BY <1>5, <4>1
    <3>3. v4 \in [0 .. 6 -> Descr]
      BY <1>2 DEF TableInv
    <3> QED
      BY <1>1, <1>2, <3>2, <3>3 DEF TableInv, Gone
  <2> QED
    BY <1>1, <1>2, <1>5, <2>1 DEF SegInv
<1>6. CASE v3 \/ FlatCode(v4[1], 0)
  <2> DEFINE g == G!Snapshot(2)
  <2>1. g.nr = 2 /\ g.seg = v6 /\ g.esp = v9
    BY DEF G!Snapshot
  <2>2. CASE v11 = << >> /\ Own(v6, v1, v2) /\ StackAt(v9)
    <3>1. /\ v12' = 0 /\ v11' = <<g>> /\ DOMAIN v10' = 0 .. 60
          /\ Over(g, v6', v9', v10', v1, v2)
      BY <1>1, <1>2, <1>6, <2>2, DeliveredFirst
    <3> HIDE DEF g
    <3>2. Nest' /\ v11' # << >>
      <4>1. v11' = <<g>> /\ v11'[1] = g
        BY <3>1
      <4> QED
        BY <1>1, <2>1, <2>2, <3>1, <4>1 DEF Nest, StackAt
    <3> QED
      BY <1>5, <1>6, <3>1, <3>2
  <2>3. ASSUME NEW h \in {v11[1]}, v11 = <<h>>, h.nr \in {2, 13, 48},
               Over(h, v6, v9, v10, v1, v2), Own(h.seg, v1, v2), StackAt(h.esp)
        PROVE  SegInv'
    <3>1. h.nr \in {13, 48}
      <4>1. 1 \in DOMAIN v11 /\ v11[1] = h
        BY <2>3
      <4> QED
        BY <1>1, <2>3, <4>1
    <3>2. v9 \in {22, 24, 26} /\ h.esp \in v9 .. 60
      BY <1>2, <1>3, <2>3, Interrupted DEF StackAt
    <3>3. v9 \in 22 .. 30 /\ v9 \in 18 .. 30
      BY <3>2, SMT
    <3>4. /\ v6 \in SegTypes /\ RegOK(v6["cs"], v1, v2) /\ RegOK(v6["ss"], v1, v2)
          /\ v6["cs"].sel = 8 /\ v6["ss"].sel = 16
      BY <2>3 DEF Over
    <3>5. /\ v12' = 0 /\ v11' = <<g>> \o v11
          /\ DOMAIN v10' = 0 .. 60 /\ \A x \in v9 .. 60 : v10'[x] = v10[x]
          /\ Over(g, v6', v9', v10', v1, v2)
      BY <1>1, <1>2, <1>6, <3>3, <3>4, DeliveredInner
    <3>6. Over(h, v6, v9, v10', v1, v2)
      BY <2>3, <3>2, <3>3, <3>5, OverStays
    <3> HIDE DEF g
    <3>7. v11' = <<g, h>> /\ v11'[1] = g /\ v11'[2] = h /\ v11' # << >>
      <4>1. v11' = <<g>> \o <<h>>
        BY <2>3, <3>5
      <4>2. <<g>> \o <<h>> = <<g, h>> /\ <<g, h>>[1] = g /\ <<g, h>>[2] = h /\ <<g, h>> # << >>
        BY Pairs
      <4> QED
        BY <4>1, <4>2
    <3>8. Nest'
      BY <1>1, <2>1, <2>3, <3>1, <3>5, <3>6, <3>7 DEF Nest, StackAt
    <3> QED
      BY <1>5, <1>6, <3>5, <3>7, <3>8
  <2>4. ASSUME NEW h \in {v11[1]}, NEW i \in {v11[2]}, v11 = <<h, i>>, h.nr = 2
        PROVE  FALSE
    <3>1. 1 \in DOMAIN v11 /\ v11[1] = h
      BY <2>4
    <3> QED
      BY <1>1, <2>4, <3>1
  <2> QED
    BY <1>2, <2>2, <2>3, <2>4 DEF Nest
<1> QED
  BY <1>4, <1>6

LEMMA TrapStep ==
  ASSUME SegInv, G!Trap
  PROVE  SegInv'
<1>1. /\ UNCHANGED <<v1, v3, v4, v5, v7, v8>>
      /\ \/ G!At("int48") /\ G!Deliver(48) /\ v2' = v2 + 1
         \/ G!At("privileged") /\ G!Deliver(13) /\ v2' = v2
  BY DEF G!Trap, G!table, G!Step
<1>2. PICK v \in {48, 13} : /\ G!Deliver(v)
                            /\ v = 48 => G!At("int48") /\ v2' = v2 + 1
                            /\ v = 13 => G!At("privileged") /\ v2' = v2
  BY <1>1
<1>3. v1 \in Progs /\ v2 \in 1 .. LastOp(v1) + 1 /\ DOMAIN v10 = 0 .. 60
  BY DEF SegInv
<1>4. /\ v11 = << >> /\ v12 = 0
      /\ v2 \in 1 .. LastOp(v1)
      /\ v = 48 => Kinds[v1][v2] = "int48"
      /\ v = 13 => Kinds[v1][v2] = "privileged"
  <2>1. v = 48 => /\ v11 = << >> /\ v12 = 0 /\ v2 \in 1 .. LastOp(v1)
                  /\ Kinds[v1][v2] = "int48"
    BY <1>2, <1>3, WhereIs
  <2>2. v = 13 => /\ v11 = << >> /\ v12 = 0 /\ v2 \in 1 .. LastOp(v1)
                  /\ Kinds[v1][v2] = "privileged"
    BY <1>2, <1>3, WhereIs
  <2> QED
    BY <2>1, <2>2
<1>5. /\ v1 \in Rings /\ v2 = 22 /\ v2 \in Nat
      /\ v = 48 => v1 = "tp5"
  BY <1>3, <1>4, WhereOthers, SMT DEF Rings
<1>6. TableInv /\ Own(v6, v1, v2) /\ StackAt(v9)
  BY <1>4, Alone
<1>7. v1 # "tp1"
  BY <1>5 DEF Rings
<1>8. v3 \/ FlatCode(v4[1], 0)
  BY <1>3, <1>6, <1>7, GateOpen DEF Gone
<1> DEFINE g == G!Snapshot(v)
<1>9. g.nr = v /\ g.seg = v6 /\ g.esp = v9
  BY DEF G!Snapshot
<1>10. /\ v12' = 0 /\ v11' = <<g>> /\ DOMAIN v10' = 0 .. 60
       /\ Over(g, v6', v9', v10', v1, v2)
  BY <1>2, <1>3, <1>4, <1>6, <1>8, DeliveredFirst
<1> HIDE DEF g
<1>11. v11'[1] = g
  BY <1>10
<1>12. CASE v = 48
  <2>1. Over(g, v6', v9', v10', v1, v2 + 1)
    BY <1>5, <1>10, Stays DEF Over
  <2>2. Own(v6, v1, v2 + 1)
    <3>1. v2 \notin {13, 14, 15, 16, 20}
      BY <1>5, SMT
    <3> QED
      BY <1>3, <1>5, <1>6, <3>1, OwnStays
  <2>3. v9 = SpOf(v1, v2 + 1)
    <3>1. v2 \notin {17, 20, 21}
      BY <1>5, SMT
    <3> QED
      BY <1>3, <1>5, <1>6, <3>1, StackStays DEF StackAt
  <2>4. Nest'
    BY <1>1, <1>2, <1>9, <1>10, <1>11, <1>12, <2>1, <2>2, <2>3 DEF Nest, StackAt
  <2>5. TableInv'
    BY <1>1, <1>2, <1>3, <1>4, <1>6, <1>12, TableStays DEF Telling
  <2>6. v2 + 1 \in 1 .. LastOp(v1) + 1
    BY <1>4, SMT DEF LastOp
  <2> QED
    BY <1>1, <1>2, <1>3, <1>10, <1>12, <2>4, <2>5, <2>6 DEF SegInv
<1>13. CASE v = 13
  <2>1. Nest'
    BY <1>1, <1>2, <1>6, <1>9, <1>10, <1>11, <1>13 DEF Nest, StackAt
  <2>2. TableInv'
    <3>1. v2' = v2 /\ v1' = v1
      BY <1>1, <1>2, <1>13
    <3>2. ~Gone /\ ~Gone'
      BY <1>7, <3>1 DEF Gone
    <3> QED
      BY <1>1, <1>6, <3>1, <3>2 DEF TableInv
  <2> QED
    BY <1>1, <1>2, <1>3, <1>10, <1>13, <2>1, <2>2 DEF SegInv
<1> QED
  BY <1>12, <1>13

\* The segments of an interrupted program, given back, but that what has been loaded may
\* have been accessed since
GivenBack(sg, own, p, k) ==
    /\ sg \in SegTypes
    /\ RegOK(sg["cs"], p, k) /\ RegOK(sg["ss"], p, k)
    /\ sg["cs"].sel = own["cs"].sel /\ sg["ss"].sel = own["ss"].sel
    /\ \A r \in {"ds", "es", "fs", "gs"} : sg[r] = own[r]

LEMMA OwnAgain ==
  ASSUME NEW sg, NEW own, NEW p, NEW k, Own(own, p, k), GivenBack(sg, own, p, k)
  PROVE  Own(sg, p, k)
  BY DEF Own, GivenBack, Regs

LEMMA ReturnedInner ==
  ASSUME TableInv, v1 \in Progs, v2 \in 1 .. LastOp(v1) + 1, DOMAIN v10 = 0 .. 60,
         v12 = 0, v3 \/ FlatCode(v4[1], 0),
         NEW h, Over(h, v6, v9, v10, v1, v2), h.seg["cs"].sel = 8, h.esp \in Nat, G!Iret
  PROVE  /\ v12' = 0 /\ v9' = h.esp
         /\ GivenBack(v6', h.seg, v1, v2) /\ v6'["ss"] = h.seg["ss"]
<1> DEFINE cs == v10[v9 + 2][2]
           e == G!Entry(8)
           x == G!Loaded(8, e)
<1>1. cs = 8 /\ v6["cs"].sel = 8 /\ v9 = h.esp - 4 /\ v6 \in SegTypes
  BY DEF Over
<1>2. G!cpl = 0 /\ G!Rpl(8) = 0
  BY <1>1, Selectors DEF G!cpl
<1>3. e \in Descr /\ G!InTable(8) /\ FlatCode(e, 0)
  BY InForce DEF In
<1>4. G!CodeLoads(8, G!cpl)
  <2>1. G!IsCode(e) /\ e.dpl = 0
    BY <1>3, Checks
  <2> QED
    BY <1>2, <1>3, <2>1 DEF G!CodeLoads
<1>5. G!ReturnTo(8, 0, v9 + 4)
  <2>1. IF G!Rpl(cs) = 3 THEN G!ReturnTo(cs, G!Val(v10[v9 + 5]), G!Val(v10[v9 + 4]))
                         ELSE G!ReturnTo(cs, 0, v9 + 4)
    BY DEF G!Iret, G!Val
  <2>2. G!Rpl(cs) # 3
    BY <1>1, <1>2
  <2> QED
    BY <1>1, <2>1, <2>2
<1>6. v6' = [v6 EXCEPT !["cs"] = x] /\ v12' = 0 /\ v9' = v9 + 4
  BY <1>2, <1>4, <1>5 DEF G!ReturnTo, G!Try
<1>7. x \in [sel : Nat, dsc : Descr] /\ x.sel = 8 /\ RegOK(x, v1, v2)
  <2>1. 8 \in Nat
    BY SMT
  <2> HIDE DEF e
  <2> QED
    BY <1>3, <2>1 DEF G!Loaded, RegOK
<1> HIDE DEF x
<1>8. /\ v6' \in SegTypes
      /\ \A q \in Regs : v6'[q] = IF q = "cs" THEN x ELSE v6[q]
  BY <1>1, <1>6, <1>7 DEF SegTypes, Regs
<1>9. v6["ss"] = h.seg["ss"] /\ RegOK(v6["ss"], v1, v2)
      /\ \A r \in {"ds", "es", "fs", "gs"} : v6[r] = h.seg[r]
  BY DEF Over
<1>10. v9' = h.esp
  BY <1>1, <1>6, SMT
<1> QED
  BY <1>6, <1>7, <1>8, <1>9, <1>10 DEF GivenBack, Regs

LEMMA ReturnedOuter ==
  ASSUME TableInv, v1 \in Progs, v2 \in 1 .. LastOp(v1) + 1, DOMAIN v10 = 0 .. 60,
         v12 = 0, Outer(v1, v2),
         NEW h, Over(h, v6, v9, v10, v1, v2), Own(h.seg, v1, v2), G!Iret
  PROVE  /\ v12' = 0 /\ v9' = h.esp
         /\ GivenBack(v6', h.seg, v1, v2)
<1> DEFINE cs == v10[v9 + 2][2]
           ss == v10[v9 + 5][2]
           e == G!Entry(27)
           f == G!Entry(35)
           x == G!Loaded(27, e)
           y == G!Loaded(35, f)
<1>1. h.seg["cs"].sel = 27 /\ h.seg["ss"].sel = 35 /\ 27 # 8
  BY SMT DEF Own
<1>2. cs = 27 /\ ss = 35 /\ v10[v9 + 4][2] = h.esp /\ v6["cs"].sel = 8 /\ v6 \in SegTypes
  BY <1>1 DEF Over
<1>3. v1 \in Rings /\ v1 # "tp1" /\ v2 >= 7 /\ v2 >= 21 /\ v2 >= 14 /\ v2 >= 15
      /\ v2 >= 16 /\ v2 >= 17
  BY SMT DEF Outer, Rings, LastOp
<1>4. G!cpl = 0 /\ G!Rpl(27) = 3 /\ G!Rpl(35) = 3
  BY <1>2, Selectors DEF G!cpl
<1>5. /\ e \in Descr /\ G!InTable(27) /\ FlatCode(e, 3)
      /\ f \in Descr /\ G!InTable(35) /\ FlatData(f, 3)
  BY <1>3, InForce DEF In
<1>6. G!CodeLoads(27, G!Rpl(27)) /\ G!StackLoads(35, G!Rpl(27)) /\ G!Rpl(27) # G!cpl
  <2>1. G!IsCode(e) /\ e.dpl = 3 /\ G!IsData(f) /\ f.dpl = 3
    BY <1>5, Checks
  <2>2. 3 # 0
    OBVIOUS
  <2> QED
    BY <1>4, <1>5, <2>1, <2>2 DEF G!CodeLoads, G!StackLoads
<1>7. G!ReturnTo(27, 35, h.esp)
  <2>1. IF G!Rpl(cs) = 3 THEN G!ReturnTo(cs, ss, v10[v9 + 4][2])
                         ELSE G!ReturnTo(cs, 0, v9 + 4)
    BY DEF G!Iret, G!Val
  <2> QED
    BY <1>2, <1>4, <2>1
<1>8. /\ v6' = [r \in G!Registers |->
                  CASE r = "cs" -> x
                    [] r = "ss" -> y
                    [] r \in G!DataRegisters /\ v6[r].dsc.dpl < G!Rpl(27) -> G!Loaded(0, G!Null)
                    [] OTHER -> v6[r]]
      /\ v12' = v12 /\ v9' = h.esp
  BY <1>6, <1>7, Zenon DEF G!ReturnTo
<1>9. /\ x \in [sel : Nat, dsc : Descr] /\ x.sel = 27 /\ RegOK(x, v1, v2)
      /\ y \in [sel : Nat, dsc : Descr] /\ y.sel = 35 /\ RegOK(y, v1, v2)
  <2>1. 27 \in Nat /\ 35 \in Nat
    BY SMT
  <2> HIDE DEF e, f
  <2> QED
    BY <1>3, <1>5, <2>1 DEF G!Loaded, RegOK
<1>10. \A r \in DataRegs : v6[r] = h.seg[r] /\ v6[r].dsc.dpl = 3
  <2>1. \A r \in DataRegs : v6[r] = h.seg[r]
    BY DEF Over, DataRegs
  <2>2. \A r \in DataRegs : h.seg[r].sel = 35
    BY <1>3 DEF Own, DataRegs
  <2>3. \A r \in DataRegs : RegOK(h.seg[r], v1, v2)
    BY DEF Own, DataRegs, Regs
  <2>4. 35 # 8 /\ 35 # 16 /\ 35 # 24 /\ 35 # 27 /\ 35 # 43
    BY SMT
  <2> QED
    BY <2>1, <2>2, <2>3, <2>4 DEF RegOK, FlatData
<1> HIDE DEF x, y
<1>11. v6' = [r \in Regs |-> IF r = "cs" THEN x ELSE IF r = "ss" THEN y ELSE v6[r]]
  <2>1. \A r \in DataRegs : ~(v6[r].dsc.dpl < G!Rpl(27))
    BY <1>4, <1>10, SMT
  <2>2. G!Registers = Regs /\ G!DataRegisters = DataRegs /\ Regs = {"cs", "ss"} \cup DataRegs
    BY DEF G!Registers, G!DataRegisters, Regs, DataRegs
  <2> QED
    BY <1>8, <2>1, <2>2
<1>12. v6' \in SegTypes
  BY <1>2, <1>9, <1>11 DEF SegTypes
<1> QED
  BY <1>1, <1>8, <1>9, <1>10, <1>11, <1>12 DEF GivenBack, Regs, DataRegs

\* A handler's end
LEMMA Returned ==
  ASSUME SegInv, G!Iret
  PROVE  /\ SegInv'
         /\ \E h \in {v11[1]} :
              /\ v11 # << >> /\ Head(v11) = h /\ v12' = 0 /\ v9' = h.esp /\ v10' = v10
              /\ h.seg \in SegTypes
              /\ RegOK(h.seg["cs"], v1, v2) /\ RegOK(h.seg["ss"], v1, v2)
              /\ GivenBack(v6', h.seg, v1, v2)
              /\ h.seg["cs"].sel \in {8, 27}
              /\ h.seg["cs"].sel = 8 \/ v1 # "tp3" =>
                    \A x \in h.esp .. 59 : v10[x] = h.ram[x]
<1>1. /\ v11 # << >> /\ v12 = 0 /\ v11' = Tail(v11)
      /\ UNCHANGED <<v1, v2, v3, v4, v5, v7, v8, v10>>
  BY DEF G!Iret, G!table
<1>2. /\ v1 \in Progs /\ v2 \in 1 .. LastOp(v1) + 1 /\ DOMAIN v10 = 0 .. 60
      /\ TableInv /\ Nest
  BY <1>1 DEF SegInv
<1>3. v2 \in Nat
  BY <1>2, SMT DEF LastOp
<1>4. v3 \/ FlatCode(v4[1], 0)
  BY <1>1, <1>2, GateOpen
<1>5. TableInv'
  <2>1. v2 >= 3 => FlatCode(v4[1], 0)
    BY <1>1, <1>2 DEF TableInv
  <2> QED
    BY <1>1, <1>2, <2>1 DEF TableInv, Gone
<1>6. ASSUME v12' = 0, Nest'
      PROVE  SegInv'
  BY <1>1, <1>2, <1>5, <1>6 DEF SegInv
<1>7. ASSUME NEW h \in {v11[1]}, v11 = <<h>>,
             Over(h, v6, v9, v10, v1, v2), Own(h.seg, v1, v2), StackAt(h.esp)
      PROVE  /\ SegInv'
             /\ v11 # << >> /\ Head(v11) = h /\ v12' = 0 /\ v9' = h.esp /\ v10' = v10
             /\ h.seg \in SegTypes
             /\ RegOK(h.seg["cs"], v1, v2) /\ RegOK(h.seg["ss"], v1, v2)
             /\ GivenBack(v6', h.seg, v1, v2)
             /\ h.seg["cs"].sel \in {8, 27}
             /\ h.seg["cs"].sel = 8 \/ v1 # "tp3" =>
                   \A x \in h.esp .. 59 : v10[x] = h.ram[x]
  <2>1. v12' = 0 /\ v9' = h.esp /\ GivenBack(v6', h.seg, v1, v2)
    <3>1. CASE Outer(v1, v2)
      BY <1>1, <1>2, <1>7, <3>1, ReturnedOuter
    <3>2. CASE ~Outer(v1, v2)
      <4>1. h.seg["cs"].sel = 8
        BY <1>7, <3>2 DEF Own
      <4>2. h.esp \in Nat
        <5>1. h.esp \in {26, 30}
          BY <1>2, <1>3, <1>7, <3>2, StackRange DEF StackAt
        <5> QED
          BY <5>1, SMT
      <4> QED
        BY <1>1, <1>2, <1>4, <1>7, <4>1, <4>2, ReturnedInner
    <3> QED
      BY <3>1, <3>2
  <2>2. v11' = << >> /\ Head(v11) = h
    BY <1>1, <1>7
  <2>3. Own(v6', v1, v2)
    BY <1>7, <2>1, OwnAgain
  <2>4. Nest'
    BY <1>1, <1>7, <2>1, <2>2, <2>3 DEF Nest, StackAt
  <2>5. /\ h.seg \in SegTypes
        /\ RegOK(h.seg["cs"], v1, v2) /\ RegOK(h.seg["ss"], v1, v2)
        /\ h.seg["cs"].sel \in {8, 27}
    BY <1>7 DEF Own, Regs
  <2>6. h.seg["cs"].sel = 8 \/ v1 # "tp3" =>
            \A x \in h.esp .. 59 : v10[x] = h.ram[x]
    BY <1>7 DEF Over
  <2> QED
    BY <1>1, <1>6, <2>1, <2>2, <2>4, <2>5, <2>6
<1>8. ASSUME NEW h \in {v11[1]}, NEW i \in {v11[2]}, v11 = <<h, i>>,
             i.nr \in {13, 48},
             Over(h, v6, v9, v10, v1, v2), Over(i, h.seg, h.esp, v10, v1, v2),
             Own(i.seg, v1, v2), StackAt(i.esp)
      PROVE  /\ SegInv'
             /\ v11 # << >> /\ Head(v11) = h /\ v12' = 0 /\ v9' = h.esp /\ v10' = v10
             /\ h.seg \in SegTypes
             /\ RegOK(h.seg["cs"], v1, v2) /\ RegOK(h.seg["ss"], v1, v2)
             /\ GivenBack(v6', h.seg, v1, v2)
             /\ h.seg["cs"].sel \in {8, 27}
             /\ h.seg["cs"].sel = 8 \/ v1 # "tp3" =>
                   \A x \in h.esp .. 59 : v10[x] = h.ram[x]
  <2>1. /\ h.seg \in SegTypes
        /\ RegOK(h.seg["cs"], v1, v2) /\ RegOK(h.seg["ss"], v1, v2)
        /\ h.seg["cs"].sel = 8 /\ h.seg["ss"].sel = 16
        /\ \A r \in {"ds", "es", "fs", "gs"} : h.seg[r] = i.seg[r]
    BY <1>8 DEF Over
  <2>2. h.esp \in Nat
    <3>1. h.esp \in {22, 24, 26}
      BY <1>2, <1>3, <1>8, Interrupted DEF StackAt
    <3> QED
      BY <3>1, SMT
  <2>3. v12' = 0 /\ v9' = h.esp /\ GivenBack(v6', h.seg, v1, v2) /\ v6'["ss"] = h.seg["ss"]
    BY <1>1, <1>2, <1>4, <1>8, <2>1, <2>2, ReturnedInner
  <2>4. Head(v11) = h
    BY <1>8
  <2>5. v11' = <<i>> /\ v11'[1] = i
    <3>1. Tail(<<h, i>>) = <<i>> /\ <<i>>[1] = i
      BY SMT
    <3> QED
      BY <1>1, <1>8, <3>1
  <2>6. Over(i, v6', v9', v10', v1, v2)
    <3>1. GivenBack(v6', h.seg, v1, v2)
      BY <2>3
    <3>2. v9' = h.esp /\ v10' = v10 /\ v6'["ss"] = h.seg["ss"]
      BY <1>1, <2>3
    <3> QED
      BY <1>8, <2>1, <3>1, <3>2 DEF Over, GivenBack
  <2>7. Nest'
    BY <1>1, <1>8, <2>5, <2>6 DEF Nest, StackAt
  <2>8. h.seg["cs"].sel = 8 \/ v1 # "tp3" =>
            \A x \in h.esp .. 59 : v10[x] = h.ram[x]
    BY <1>8 DEF Over
  <2> QED
    BY <1>1, <1>6, <2>1, <2>3, <2>4, <2>7, <2>8
<1>9. ~(v11 = << >>)
  BY <1>1
<1> QED
  BY <1>2, <1>7, <1>8, <1>9 DEF Nest

LEMMA RegAlike ==
  ASSUME NEW x \in [sel : Nat, dsc : Descr], NEW y \in [sel : Nat, dsc : Descr],
         NEW p, NEW k, RegOK(x, p, k), RegOK(y, p, k), x.sel = y.sel
  PROVE  G!Alike(x.dsc, y.dsc)
<1>1. x.dsc \in Descr /\ y.dsc \in Descr
  OBVIOUS
<1>2. \E ring \in {0, 3} :
         \/ FlatCode(x.dsc, ring) /\ FlatCode(y.dsc, ring)
         \/ FlatData(x.dsc, ring) /\ FlatData(y.dsc, ring)
         \/ SmallData(x.dsc) /\ SmallData(y.dsc)
  <2>1. /\ 8 # 16 /\ 8 # 24 /\ 8 # 27 /\ 8 # 35 /\ 8 # 43 /\ 16 # 24 /\ 16 # 27 /\ 16 # 35
        /\ 16 # 43 /\ 24 # 27 /\ 24 # 35 /\ 24 # 43 /\ 27 # 35 /\ 27 # 43 /\ 35 # 43
    BY SMT
  <2> QED
    BY <2>1 DEF RegOK
<1> QED
  BY <1>1, <1>2, SameSegment

LEMMA IretRestores ==
  ASSUME SegInv, G!Iret
  PROVE  G!RestoredStep
<1>1. PICK h \in {v11[1]} :
              /\ v11 # << >> /\ Head(v11) = h /\ v12' = 0 /\ v9' = h.esp /\ v10' = v10
              /\ h.seg \in SegTypes
              /\ RegOK(h.seg["cs"], v1, v2) /\ RegOK(h.seg["ss"], v1, v2)
              /\ GivenBack(v6', h.seg, v1, v2)
              /\ h.seg["cs"].sel \in {8, 27}
              /\ h.seg["cs"].sel = 8 \/ v1 # "tp3" =>
                    \A x \in h.esp .. 59 : v10[x] = h.ram[x]
  BY Returned
<1>2. ASSUME NEW r \in G!Registers
      PROVE  v6'[r].sel = h.seg[r].sel /\ G!Alike(v6'[r].dsc, h.seg[r].dsc)
  <2>1. v6'[r] \in [sel : Nat, dsc : Descr] /\ h.seg[r] \in [sel : Nat, dsc : Descr]
    BY <1>1 DEF GivenBack, SegTypes, Regs, G!Registers
  <2>2. CASE r \in {"cs", "ss"}
    <3>1. RegOK(v6'[r], v1, v2) /\ RegOK(h.seg[r], v1, v2) /\ v6'[r].sel = h.seg[r].sel
      BY <1>1, <2>2 DEF GivenBack
    <3> QED
      BY <2>1, <3>1, RegAlike
  <2>3. CASE r \notin {"cs", "ss"}
    <3>1. v6'[r] = h.seg[r]
      BY <1>1, <2>3 DEF GivenBack, G!Registers
    <3> QED
      BY <3>1 DEF G!Alike
  <2> QED
    BY <2>2, <2>3
<1>3. v1 # "tp3" \/ G!Rpl(h.seg.cs.sel) = 0 =>
          \A w \in h.esp .. G!UStack - 1 : v10'[w] = h.ram[w]
  <2>1. h.seg["cs"].sel = 27 => G!Rpl(h.seg["cs"].sel) # 0
    <3>1. 3 # 0
      OBVIOUS
    <3> QED
      BY <3>1, Selectors
  <2>2. G!UStack - 1 = 59
    BY SMT DEF G!UStack
  <2> QED
    BY <1>1, <2>1, <2>2
<1> QED
  BY <1>1, <1>2, <1>3 DEF G!RestoredStep

-----------------------------------------------------------------------------
(* The segments: what the invariant says *)

LEMMA SegStart ==
  ASSUME G!Init
  PROVE  SegInv
<1>1. /\ v1 \in Programs /\ v2 = 1 /\ v3 = TRUE /\ v5 = 0
      /\ v6 = [r \in G!Registers |->
                  IF r = "cs" THEN G!Loaded(8, G!GrubGdt[2]) ELSE G!Loaded(16, G!GrubGdt[3])]
      /\ v7 = 0 /\ v9 = G!EBP - 4 /\ v11 = << >> /\ v12 = 0
      /\ DOMAIN v10 = 0 .. G!UStack
      /\ \E x \in G!Before : v4 = [i \in 0 .. 6 |-> IF v1 = "tp1" THEN x ELSE G!Null]
  BY DEF G!Init
<1>2. v1 \in Progs
  BY <1>1, SegmentsAssumption, ProgramText DEF G!ProgramsAssumption, Progs
<1>3. v4 \in [0 .. 6 -> Descr]
  <2>1. \A x \in G!Before : x \in Descr
    BY SMT DEF G!Before, G!Null, Descr
  <2> QED
    BY <1>1, <2>1, TextDescr
<1>4. ~(1 >= 3) /\ ~(1 >= 4) /\ ~(1 >= 9) /\ ~(1 >= 13) /\ ~(1 >= 5) /\ ~(1 >= 6)
      /\ 1 # 19 /\ 1 \notin 14 .. 16 /\ ~(1 >= 18) /\ ~(1 >= 20) /\ 1 <= 4 /\ 1 <= 6
      /\ ~(1 >= 14) /\ ~(1 >= 15) /\ ~(1 >= 16) /\ ~(1 >= 17) /\ ~(1 >= 21)
  BY SMT
<1>5. TableInv
  BY <1>1, <1>3, <1>4 DEF TableInv
<1>6. Own(v6, v1, v2)
  <2> DEFINE c == G!Loaded(8, G!GrubGdt[2])
             d == G!Loaded(16, G!GrubGdt[3])
  <2>1. /\ c \in [sel : Nat, dsc : Descr] /\ c.sel = 8 /\ RegOK(c, v1, v2)
        /\ d \in [sel : Nat, dsc : Descr] /\ d.sel = 16 /\ RegOK(d, v1, v2)
    <3>1. 8 \in Nat /\ 16 \in Nat
      BY SMT
    <3> QED
      BY <3>1, GrubEntries DEF G!Loaded, RegOK
  <2>2. v6 = [r \in Regs |-> IF r = "cs" THEN c ELSE d]
    BY <1>1 DEF G!Registers, Regs
  <2> HIDE DEF c, d
  <2>3. v6 \in SegTypes /\ \A r \in Regs : v6[r] = IF r = "cs" THEN c ELSE d
    BY <2>1, <2>2 DEF SegTypes
  <2>4. 16 # 24
    BY SMT
  <2> QED
    BY <1>1, <1>4, <2>1, <2>3, <2>4 DEF Own, Outer, Regs
<1>7. StackAt(v9)
  BY <1>1, <1>4, SMT DEF StackAt, SpOf, Outer, G!EBP
<1>8. v2 \in 1 .. LastOp(v1) + 1
  BY <1>1, SMT DEF LastOp
<1> QED
  BY <1>1, <1>2, <1>5, <1>6, <1>7, <1>8 DEF SegInv, Nest, G!UStack

LEMMA SegStep ==
  ASSUME SegInv, G!Next
  PROVE  SegInv'
  BY DescribeStep, LgdtStep, LoadStep, FarJumpStep, LtrStep, SetTssStep, StringStoreStep,
     EnterStep, PushStep, ReturnStep, PanicStep, NMIStep, TrapStep, Returned DEF G!Next

LEMMA SegStutter ==
  ASSUME SegInv, UNCHANGED pool
  PROVE  SegInv'
  BY DEF pool, SegInv, TableInv, Nest, Gone, StackAt

\* Whoever runs, the program or a handler
LEMMA RunningRegs ==
  ASSUME SegInv, v12 = 0
  PROVE  /\ v6 \in SegTypes /\ \A r \in Regs : RegOK(v6[r], v1, v2)
         /\ v6["ds"].sel # 24
         /\ (v6["cs"].sel = 8 /\ v6["ss"].sel = 16) \/ v6["cs"].sel = 27
<1>1. Nest
  BY DEF SegInv
<1>2. CASE v11 = << >> /\ Own(v6, v1, v2)
  BY <1>2 DEF Own
<1>3. ASSUME NEW h, Over(h, v6, v9, v10, v1, v2), Own(h.seg, v1, v2)
      PROVE  /\ v6 \in SegTypes /\ \A r \in Regs : RegOK(v6[r], v1, v2)
             /\ v6["ds"].sel # 24
             /\ v6["cs"].sel = 8 /\ v6["ss"].sel = 16
  BY <1>3 DEF Own, Over, Regs
<1>4. ASSUME NEW h, NEW i, Over(h, v6, v9, v10, v1, v2), Over(i, h.seg, h.esp, v10, v1, v2),
             Own(i.seg, v1, v2)
      PROVE  /\ v6 \in SegTypes /\ \A r \in Regs : RegOK(v6[r], v1, v2)
             /\ v6["ds"].sel # 24
             /\ v6["cs"].sel = 8 /\ v6["ss"].sel = 16
  <2>1. \A r \in {"ds", "es", "fs", "gs"} : v6[r] = i.seg[r]
    BY <1>4 DEF Over
  <2> QED
    BY <1>4, <2>1 DEF Own, Over, Regs
<1> QED
  BY <1>1, <1>2, <1>3, <1>4 DEF Nest

LEMMA InTpMeans ==
  ASSUME v1 \in Progs, v2 \in 1 .. LastOp(v1) + 1, G!InTp
  PROVE  v1 \in {"tp1", "exam"} => v2 <= 17
<1>1. SUFFICES ASSUME v1 \in {"tp1", "exam"}, ~(v2 <= 17)
               PROVE  FALSE
  OBVIOUS
<1>2. 17 \in 1 .. v2 - 1 /\ 17 \in 1 .. LastOp(v1)
  BY <1>1, SMT DEF LastOp
<1>3. G!Code[v1][17].op = Kinds[v1][17]
  BY <1>2, OpsOf
<1>4. Kinds[v1][17] = "return"
  BY <1>1, SMTT(30) DEF Kinds
<1> QED
  BY <1>2, <1>3, <1>4 DEF G!InTp

LEMMA SegThen ==
  ASSUME SegInv
  PROVE  G!NoFault /\ G!FlatKernel /\ G!SelectorsReload
<1>1. v1 \in Progs /\ v2 \in 1 .. LastOp(v1) + 1 /\ v2 \in Nat
  BY SMT DEF SegInv, LastOp
<1>2. G!NoFault
  <2>1. v12 # 0 => v1 = "tp1" /\ v2 = 19
    BY DEF SegInv, Gone
  <2>2. v1 = "tp1" /\ v2 = 19 => ~G!InTp
    <3>1. ~(19 <= 17)
      BY SMT
    <3> QED
      BY <1>1, <3>1, InTpMeans
  <2> QED
    BY <2>1, <2>2 DEF G!NoFault
<1>3. ASSUME v12 = 0, G!cpl = 0
      PROVE  \A r \in {"cs", "ss", "ds"} : G!IsFlat(v6[r].dsc)
  <2>1. v6["cs"].sel = 8 /\ v6["ss"].sel = 16 /\ v6["ds"].sel # 24
    <3>1. v6["cs"].sel # 27
      <4>1. 3 # 0
        OBVIOUS
      <4> QED
        BY <1>3, <4>1, Selectors DEF G!cpl
    <3> QED
      BY <1>3, <3>1, RunningRegs
  <2>2. \A r \in {"cs", "ss", "ds"} : /\ v6[r].dsc \in Descr
                                      /\ RegOK(v6[r], v1, v2) /\ v6[r].sel # 24
    <3>1. 8 # 24 /\ 16 # 24
      BY SMT
    <3> QED
      BY <1>3, <2>1, <3>1, RunningRegs DEF SegTypes, Regs
  <2> QED
    BY <2>2, Checks DEF RegOK
<1>4. ASSUME v12 = 0, G!InTp, NEW r \in G!Registers
      PROVE  G!InTable(v6[r].sel) /\ G!Alike(v6[r].dsc, G!Entry(v6[r].sel))
  <2> DEFINE x == v6[r]
  <2>1. x.dsc \in Descr /\ RegOK(x, v1, v2)
    BY <1>4, RunningRegs DEF G!Registers, Regs, SegTypes
  <2>2. TableInv
    BY <1>4 DEF SegInv
  <2>3. ~Gone /\ (v1 = "tp1" => v2 <= 17)
    <3>1. v1 \in {"tp1", "exam"} => v2 <= 17
      BY <1>1, <1>4, InTpMeans
    <3>2. ~(19 <= 17)
      BY SMT
    <3> QED
      BY <3>1, <3>2 DEF Gone
  <2>4. v3 \/ FlatCode(v4[1], 0)
    BY <1>1, <2>2, <2>3, GateOpen
  <2>5. /\ In(8) /\ FlatCode(G!Entry(8), 0)
        /\ In(16) /\ FlatData(G!Entry(16), 0)
        /\ v1 = "tp1" /\ v2 \in 9 .. 18 => In(24) /\ SmallData(G!Entry(24))
        /\ v1 # "tp1" /\ v2 >= 7 => /\ In(27) /\ FlatCode(G!Entry(27), 3)
                                    /\ In(35) /\ FlatData(G!Entry(35), 3)
        /\ v1 = "tp1" /\ v2 \in 13 .. 18 => In(43) /\ FlatData(G!Entry(43), 3)
    BY <1>1, <2>2, <2>3, <2>4, InForce
  <2>6. /\ v1 = "tp1" /\ v2 >= 10 => v2 \in 9 .. 18
        /\ v1 = "tp1" /\ v2 >= 14 => v2 \in 13 .. 18
        /\ v2 >= 21 => v2 >= 7
        /\ v2 >= 14 => v2 >= 7
    BY <1>1, <2>3, SMT
  <2>7. v1 \in Rings => v1 # "tp1"
    BY DEF Rings
  <2> HIDE DEF x
  <2>8. /\ In(x.sel)
        /\ \E ring \in {0, 3} :
             \/ FlatCode(x.dsc, ring) /\ FlatCode(G!Entry(x.sel), ring)
             \/ FlatData(x.dsc, ring) /\ FlatData(G!Entry(x.sel), ring)
             \/ SmallData(x.dsc) /\ SmallData(G!Entry(x.sel))
    BY <2>1, <2>5, <2>6, <2>7 DEF RegOK
  <2>9. G!InTable(x.sel) /\ G!Entry(x.sel) \in Descr
    BY <2>8 DEF In
  <2>10. G!Alike(x.dsc, G!Entry(x.sel))
    BY <2>1, <2>8, <2>9, SameSegment
  <2> QED
    BY <2>9, <2>10 DEF x
<1>5. G!FlatKernel
  BY <1>3 DEF G!FlatKernel
<1>6. G!SelectorsReload
  BY <1>4 DEF G!SelectorsReload
<1> QED
  BY <1>2, <1>5, <1>6

\* Only a handler's end takes a handler away
LEMMA RestoresAlways ==
  ASSUME SegInv, G!Next
  PROVE  G!RestoredStep
<1>1. CASE G!Iret
  BY <1>1, IretRestores
<1>2. CASE UNCHANGED v11
  BY <1>2 DEF G!RestoredStep
<1>3. ASSUME NEW v, v12 = 0, G!Deliver(v)
      PROVE  G!RestoredStep
  <2>1. Len(v11) \in Nat /\ \A h : Len(<<h>> \o v11) = 1 + Len(v11)
    <3>1. Nest
      BY <1>3 DEF SegInv
    <3>2. CASE v11 = << >>
      BY <3>2, SMT
    <3>3. ASSUME NEW a, v11 = <<a>>
          PROVE  Len(v11) \in Nat /\ \A h : Len(<<h>> \o v11) = 1 + Len(v11)
      BY <3>3, SMT
    <3>4. ASSUME NEW a, NEW b, v11 = <<a, b>>
          PROVE  Len(v11) \in Nat /\ \A h : Len(<<h>> \o v11) = 1 + Len(v11)
      BY <3>4, SMT
    <3> QED
      BY <3>1, <3>2, <3>3, <3>4 DEF Nest
  <2>2. v11' = <<G!Snapshot(v)>> \o v11 \/ v11' = v11
    BY <1>3, Zenon DEF G!Deliver
  <2>3. ~(Len(v11') < Len(v11))
    <3>1. Len(v11') = 1 + Len(v11) \/ Len(v11') = Len(v11)
      BY <2>1, <2>2
    <3> QED
      BY <2>1, <3>1, SMT
  <2> QED
    BY <2>3 DEF G!RestoredStep
<1>4. CASE G!NMI
  BY <1>3, <1>4 DEF G!NMI
<1>5. CASE G!Trap
  BY <1>3, <1>5 DEF G!Trap, G!At, G!Running
<1> QED
  BY <1>1, <1>2, <1>4, <1>5 DEF G!Next, G!DescribeEntry, G!Lgdt, G!Load, G!FarJump, G!Ltr,
     G!SetTss, G!StringStore, G!EnterRing3, G!PushWord, G!ReturnFromTp, G!Panic

-----------------------------------------------------------------------------
(* tp4: what its program has written, and what the processor may have cached *)

K(w) == T!T!pg_set_entry(T!KRN_RW, w)       \* the entry that maps a page to w
On == 4 * E + 8                             \* the first step with paging on
Last4 == 4 * E + 21                         \* the last step, Q9
PgEntry == [p : BOOLEAN, rw : BOOLEAN, usr : BOOLEAN, pfn : Nat]
Mem4 == [T!Tables -> [0 .. E - 1 -> PgEntry]]
Kept == T!Kernel \union {T!pgd, T!ptb2, T!ptb3}     \* pages never mapped elsewhere

\* What each table holds before step k
PtbHas(k, t) == \A i \in 0 .. E - 1 : k >= 2 * i + 4 => t[i] = K(i)
PgdHas(k, t) ==
    /\ k >= 2 * E + 5 /\ k <= Last4 => t[0] = K(T!ptb)
    /\ k > Last4 => t[0] \in {T!T!Zero, K(T!ptb)}
    /\ k >= 4 * E + 7 => t[1] = K(T!ptb2)
    /\ k >= 2 * E + 3 /\ k <= 4 * E + 11 => t[3 * T!MB] = T!T!Zero
    /\ k = 4 * E + 12 => t[3 * T!MB] = K(0)
    /\ k >= 4 * E + 13 => t[3 * T!MB] = K(T!ptb3)
\* An entry that Q8 changes by the step s and the next
Changed(k, s, before) ==
    IF k <= s THEN K(before) ELSE IF k = s + 1 THEN K(0) ELSE K(T!Shared)
Ptb2At(k, i) ==
    IF i = 3 * T!MB THEN Changed(k, 4 * E + 15, E + i)
    ELSE IF i = E - 1 THEN Changed(k, 4 * E + 17, E + i) ELSE K(E + i)
Ptb2Has(k, t) == \A i \in 0 .. E - 1 : k >= 2 * E + 2 * i + 7 => t[i] = Ptb2At(k, i)
Ptb3Has(k, t) ==
    /\ k = 4 * E + 10 => t[0] = K(0)
    /\ k >= 4 * E + 11 => t[0] = K(T!pgd)

TablesInv ==
    /\ v1 \in BOOLEAN /\ v4 \in BOOLEAN /\ v8 \in BOOLEAN
    /\ v6 \in 1 .. Last4 + 1
    /\ v2 \in Mem4
    /\ (v4 <=> v6 >= On) /\ (v6 > 1 => v3 = T!pgd)
    /\ v2[0][0] \in {T!T!Zero, K(9 * T!MB)}
    /\ PtbHas(v6, v2[T!ptb]) /\ PgdHas(v6, v2[T!pgd])
    /\ Ptb2Has(v6, v2[T!ptb2]) /\ Ptb3Has(v6, v2[T!ptb3])

\* A translation ahead of its time is the old one, or goes through a half-written entry
TlbInv ==
    /\ v5 \in [T!Watched -> PgEntry]
    /\ ~v4 => \A w \in T!Watched : ~v5[w].p
    /\ \A w \in Kept : v5[w].p => v5[w] = K(w)
    /\ v5[T!target].p => v5[T!target] \in {K(9 * T!MB), K(T!pgd)}

\* Without translations ahead, a page is cached from its first use on, when the tables
\* have their last value for it
FollowInv ==
    ~v1 =>
        /\ v5[T!target].p => v6 > 4 * E + 14 /\ v5[T!target] = K(T!pgd)
        /\ v5[T!v1].p => v6 > 4 * E + 19 /\ v5[T!v1] = K(T!Shared)
        /\ v5[T!v2].p => v6 > 4 * E + 20 /\ v5[T!v2] = K(T!Shared)
        /\ v7 \subseteq {T!Shared}
        /\ v6 > Last4 => v2[T!pgd][0] = T!T!Zero

FaultInv == v8 => v6 > Last4 /\ \E w \in T!Kernel : ~v5[w].p

Tp4Inv == TablesInv /\ TlbInv /\ FollowInv /\ FaultInv

-----------------------------------------------------------------------------
(* tp4's numbers *)

\* Quotient and remainder of a sum of tables and entries.
LEMMA Indexed ==
  ASSUME NEW d \in Nat, NEW q \in Nat, NEW r \in Nat, r < d
  PROVE  (d * q + r) \div d = q /\ (d * q + r) % d = r
  BY SMT

LEMMA Scale ==
  /\ E \in Nat /\ T!MB \in Nat /\ E = 4 * T!MB /\ T!MB >= 4
  /\ T!pgd = 6 * T!MB /\ T!ptb = T!pgd + 1 /\ T!ptb2 = T!pgd + 2 /\ T!ptb3 = T!pgd + 3
  /\ T!v1 = 7 * T!MB /\ T!v2 = 8 * T!MB - 1 /\ T!Shared = 2
  /\ T!target \in Nat /\ T!target > E * T!MB
<1>1. E \in Nat /\ E % 4 = 0 /\ E >= 16
  BY TablesAssumption DEF T!ScaleAssumption
<1>2. T!MB \in Nat /\ E = 4 * T!MB /\ T!MB >= 4
  BY <1>1, SMT DEF T!MB
<1>3. \A m \in Nat : m >= 4 => 3 * (4 * m) * m \in Nat /\ 3 * (4 * m) * m > (4 * m) * m
  BY SMT
<1> QED
  BY <1>1, <1>2, <1>3, SMT DEF T!pgd, T!ptb, T!ptb2, T!ptb3, T!v1, T!v2, T!Shared, T!target

\* The entries that decide tp4's pages.
LEMMA Pages4 ==
  /\ \A w \in 0 .. E - 1 : T!T!pd32_get_idx(w) = 0 /\ T!T!pt32_get_idx(w) = w
  /\ \A w \in 0 .. E - 1 : T!T!pd32_get_idx(E + w) = 1 /\ T!T!pt32_get_idx(E + w) = w
  /\ T!T!pd32_get_idx(T!target) = 3 * T!MB /\ T!T!pt32_get_idx(T!target) = 0
<1>1. \A w \in 0 .. E - 1 : w = E * 0 + w /\ E + w = E * 1 + w /\ w \in Nat /\ w < E
  BY Scale, SMT
<1>2. T!target = E * (3 * T!MB) + 0 /\ 3 * T!MB \in Nat /\ 0 < E
  <2>1. \A m \in Nat, e \in Nat : 3 * e * m = e * (3 * m) + 0 /\ 3 * m \in Nat
    BY SMT
  <2> QED
    BY <2>1, Scale, SMT DEF T!target
<1>3. 0 \in Nat /\ 1 \in Nat /\ E \in Nat
  BY Scale, SMT
<1>4. \A w \in 0 .. E - 1 : /\ w \div E = 0 /\ w % E = w
                            /\ (E + w) \div E = 1 /\ (E + w) % E = w
  BY <1>1, <1>3, Indexed
<1>5. T!target \div E = 3 * T!MB /\ T!target % E = 0
  BY <1>2, <1>3, Indexed
<1> QED
  BY <1>4, <1>5 DEF T!T!pd32_get_idx, T!T!pt32_get_idx

-----------------------------------------------------------------------------
(* tp4's program, step by step *)

Ops4 == {"raw", "addr", "store", "clear", "cr3", "pg", "read"}
Op4 == [op : Ops4, at : Nat, i : Nat, pfn : Nat]

LEMMA OneOp ==
  ASSUME NEW o \in Op4
  PROVE  <<o>> \in Seq(Op4) /\ Len(<<o>>) = 1 /\ <<o>>[1] = o
  OBVIOUS

LEMMA OpOf ==
  ASSUME NEW op \in Ops4, NEW at \in Nat, NEW i \in Nat, NEW pfn \in Nat
  PROVE  /\ T!Op(op, at, i, pfn) \in Op4
         /\ <<T!Op(op, at, i, pfn)>> \in Seq(Op4)
         /\ Len(<<T!Op(op, at, i, pfn)>>) = 1
         /\ <<T!Op(op, at, i, pfn)>>[1] = T!Op(op, at, i, pfn)
<1>1. T!Op(op, at, i, pfn) \in Op4
  BY DEF T!Op, Op4
<1> QED
  BY <1>1, OneOp

LEMMA SetOf ==
  ASSUME NEW table \in Nat, NEW i \in Nat, NEW pfn \in Nat
  PROVE  /\ T!Set(table, i, pfn) \in Seq(Op4) /\ Len(T!Set(table, i, pfn)) = 2
         /\ T!Set(table, i, pfn)[1] = T!Op("raw", table, i, 0)
         /\ T!Set(table, i, pfn)[2] = T!Op("addr", table, i, pfn)
<1>1. T!Op("raw", table, i, 0) \in Op4 /\ T!Op("addr", table, i, pfn) \in Op4
  <2>1. "raw" \in Ops4 /\ "addr" \in Ops4 /\ 0 \in Nat
    BY DEF Ops4
  <2> QED
    BY <2>1, OpOf
<1> QED
  BY <1>1 DEF T!Set

\* A loop's two steps for each entry.
LEMMA LoopOf ==
  ASSUME NEW table \in Nat, NEW from \in Nat
  PROVE  /\ T!Loop(table, from) \in Seq(Op4) /\ Len(T!Loop(table, from)) = 2 * E
         /\ \A i \in 0 .. E - 1 :
               /\ T!Loop(table, from)[2 * i + 1] = T!Op("raw", table, i, 0)
               /\ T!Loop(table, from)[2 * i + 2] = T!Op("addr", table, i, from + i)
<1> DEFINE f(n) == LET i == (n - 1) \div 2
                   IN  T!Set(table, i, from + i)[IF n % 2 = 1 THEN 1 ELSE 2]
<1>1. T!Loop(table, from) = [n \in 1 .. 2 * E |-> f(n)]
  BY DEF T!Loop
<1>2. ASSUME NEW n \in 1 .. 2 * E
      PROVE  f(n) \in Op4
  <2>1. /\ (n - 1) \div 2 \in Nat /\ from + (n - 1) \div 2 \in Nat /\ 0 \in Nat
        /\ "raw" \in Ops4 /\ "addr" \in Ops4
    BY <1>2, Scale, SMT DEF Ops4
  <2>2. /\ f(n) = T!Op("raw", table, (n - 1) \div 2, 0)
        \/ f(n) = T!Op("addr", table, (n - 1) \div 2, from + (n - 1) \div 2)
    BY <2>1, SetOf
  <2> QED
    BY <2>1, <2>2, OpOf
<1>3. ASSUME NEW i \in 0 .. E - 1
      PROVE  /\ f(2 * i + 1) = T!Op("raw", table, i, 0)
             /\ f(2 * i + 2) = T!Op("addr", table, i, from + i)
  <2>1. /\ i \in Nat /\ from + i \in Nat
        /\ (2 * i + 1 - 1) \div 2 = i /\ (2 * i + 1) % 2 = 1
        /\ (2 * i + 2 - 1) \div 2 = i /\ (2 * i + 2) % 2 # 1
    BY <1>3, Scale, SMT
  <2>2. /\ f(2 * i + 1) = T!Set(table, i, from + i)[1]
        /\ f(2 * i + 2) = T!Set(table, i, from + i)[2]
    BY <2>1
  <2> HIDE DEF f
  <2> QED
    BY <2>1, <2>2, SetOf
<1>4. \A i \in 0 .. E - 1 : 2 * i + 1 \in 1 .. 2 * E /\ 2 * i + 2 \in 1 .. 2 * E
  BY Scale, SMT
<1> HIDE DEF f
<1>5. 2 * E \in Nat
  BY Scale, SMT
<1>6. T!Loop(table, from) \in Seq(Op4) /\ Len(T!Loop(table, from)) = 2 * E
  BY <1>1, <1>2, <1>5, IsASeq
<1> QED
  BY <1>1, <1>3, <1>4, <1>6

LEMMA Joined ==
  ASSUME NEW s \in Seq(Op4), NEW t \in Seq(Op4)
  PROVE  /\ s \o t \in Seq(Op4) /\ Len(s \o t) = Len(s) + Len(t)
         /\ \A k \in 1 .. Len(s) : (s \o t)[k] = s[k]
         /\ \A k \in 1 .. Len(t) : (s \o t)[Len(s) + k] = t[k]
<1>0. Len(s) \in Nat /\ Len(t) \in Nat
  OBVIOUS
<1>1. \A k \in 1 .. Len(s) + Len(t) : (s \o t)[k] = IF k <= Len(s) THEN s[k] ELSE t[k - Len(s)]
  BY ConcatProperties
<1>3. /\ \A k \in 1 .. Len(s) : k \in 1 .. Len(s) + Len(t) /\ k <= Len(s)
      /\ \A k \in 1 .. Len(t) : /\ Len(s) + k \in 1 .. Len(s) + Len(t)
                                /\ ~(Len(s) + k <= Len(s)) /\ (Len(s) + k) - Len(s) = k
  BY <1>0, SMT
<1>4. s \o t \in Seq(Op4) /\ Len(s \o t) = Len(s) + Len(t)
  BY ConcatProperties
<1> QED
  BY <1>1, <1>3, <1>4

\* The numbers that tp4 gives its steps are addresses and indexes.
LEMMA Numbers4 ==
  /\ T!pgd \in Nat /\ T!ptb \in Nat /\ T!ptb2 \in Nat /\ T!ptb3 \in Nat /\ T!target \in Nat
  /\ T!v1 \in Nat /\ T!v2 \in Nat /\ T!Shared \in Nat /\ E \in Nat /\ 3 * T!MB \in Nat
  /\ E - 1 \in Nat /\ 0 \in Nat /\ 1 \in Nat /\ 2 \in Nat
  /\ T!T!pd32_get_idx(T!target) = 3 * T!MB /\ T!T!pt32_get_idx(T!target) = 0
  /\ T!T!pt32_get_idx(T!v1) = 3 * T!MB /\ T!T!pt32_get_idx(T!v2) = E - 1
<1>1. /\ T!v1 = E + 3 * T!MB /\ 3 * T!MB \in 0 .. E - 1
      /\ T!v2 = E + (E - 1) /\ E - 1 \in 0 .. E - 1
  BY Scale, SMT
<1> QED
  BY <1>1, Scale, Pages4, SMT

LEMMA ThenOp ==
  ASSUME NEW s \in Seq(Op4), NEW o \in Op4
  PROVE  /\ s \o <<o>> \in Seq(Op4) /\ Len(s \o <<o>>) = Len(s) + 1
         /\ \A k \in 1 .. Len(s) : (s \o <<o>>)[k] = s[k]
         /\ (s \o <<o>>)[Len(s) + 1] = o
<1>1. <<o>> \in Seq(Op4) /\ Len(<<o>>) = 1 /\ <<o>>[1] = o /\ 1 \in 1 .. 1
  BY OneOp, SMT
<1> DEFINE t == <<o>>
<1>2. t \in Seq(Op4) /\ Len(t) = 1 /\ t[1] = o /\ 1 \in 1 .. 1
  BY <1>1
<1> HIDE DEF t
<1>3. /\ s \o t \in Seq(Op4) /\ Len(s \o t) = Len(s) + Len(t)
      /\ \A k \in 1 .. Len(s) : (s \o t)[k] = s[k]
      /\ \A k \in 1 .. Len(t) : (s \o t)[Len(s) + k] = t[k]
  BY <1>2, Joined
<1>4. /\ s \o t \in Seq(Op4) /\ Len(s \o t) = Len(s) + 1
      /\ \A k \in 1 .. Len(s) : (s \o t)[k] = s[k]
      /\ (s \o t)[Len(s) + 1] = o
  BY <1>2, <1>3
<1> QED
  BY <1>4 DEF t

LEMMA ThenTwo ==
  ASSUME NEW s \in Seq(Op4), NEW t \in Seq(Op4), Len(t) = 2
  PROVE  /\ s \o t \in Seq(Op4) /\ Len(s \o t) = Len(s) + 2
         /\ \A k \in 1 .. Len(s) : (s \o t)[k] = s[k]
         /\ (s \o t)[Len(s) + 1] = t[1] /\ (s \o t)[Len(s) + 2] = t[2]
<1>1. 1 \in 1 .. 2 /\ 2 \in 1 .. 2
  BY SMT
<1> QED
  BY <1>1, Joined

LEMMA Q5Of ==
  /\ T!Q5 \in Seq(Op4) /\ Len(T!Q5) = 2 * E + 3
  /\ \A i \in 0 .. E - 1 : /\ T!Q5[2 * i + 1] = T!Op("raw", T!ptb, i, 0)
                           /\ T!Q5[2 * i + 2] = T!Op("addr", T!ptb, i, 0 + i)
  /\ T!Q5[2 * E + 1] = T!Op("clear", T!pgd, 0, 0)
  /\ T!Q5[2 * E + 2] = T!Op("raw", T!pgd, 0, 0)
  /\ T!Q5[2 * E + 3] = T!Op("addr", T!pgd, 0, T!ptb)
<1> DEFINE a == T!Loop(T!ptb, 0)
           o == T!Op("clear", T!pgd, 0, 0)
           b == a \o <<o>>
           t1 == T!Set(T!pgd, 0, T!ptb)
           c == b \o t1
<1>0. /\ T!ptb \in Nat /\ T!pgd \in Nat /\ 0 \in Nat /\ 2 * E \in Nat
      /\ \A i \in 0 .. E - 1 : 2 * i + 1 \in 1 .. 2 * E /\ 2 * i + 2 \in 1 .. 2 * E
  BY Numbers4, SMT
<1>1. /\ a \in Seq(Op4) /\ Len(a) = 2 * E
      /\ \A i \in 0 .. E - 1 : /\ a[2 * i + 1] = T!Op("raw", T!ptb, i, 0)
                               /\ a[2 * i + 2] = T!Op("addr", T!ptb, i, 0 + i)
  BY <1>0, LoopOf
<1>2. o \in Op4
  BY <1>0, OpOf DEF Ops4
<1>3. T!Q5 = c
  BY DEF T!Q5, T!Clear
<1> HIDE DEF a, o
<1>4. /\ b \in Seq(Op4) /\ Len(b) = 2 * E + 1
      /\ \A k \in 1 .. 2 * E : b[k] = a[k]
      /\ b[2 * E + 1] = o
  BY <1>1, <1>2, ThenOp
<1> HIDE DEF b
<1>50. /\ t1 \in Seq(Op4) /\ Len(t1) = 2
       /\ t1[1] = T!Op("raw", T!pgd, 0, 0) /\ t1[2] = T!Op("addr", T!pgd, 0, T!ptb)
  BY <1>0, SetOf
<1> HIDE DEF t1
<1>5. /\ c \in Seq(Op4) /\ Len(c) = Len(b) + 2
      /\ \A k \in 1 .. Len(b) : c[k] = b[k]
      /\ c[Len(b) + 1] = T!Op("raw", T!pgd, 0, 0)
      /\ c[Len(b) + 2] = T!Op("addr", T!pgd, 0, T!ptb)
  BY <1>4, <1>50, ThenTwo
<1> HIDE DEF c
<1>6. /\ \A k \in 1 .. 2 * E : k \in 1 .. 2 * E + 1
      /\ 2 * E + 1 \in 1 .. 2 * E + 1
      /\ 2 * E + 1 + 1 = 2 * E + 2 /\ 2 * E + 1 + 2 = 2 * E + 3
  BY <1>0, SMT
<1>7. /\ c \in Seq(Op4) /\ Len(c) = 2 * E + 3
      /\ c[2 * E + 1] = o /\ \A k \in 1 .. 2 * E : c[k] = a[k]
      /\ c[2 * E + 2] = T!Op("raw", T!pgd, 0, 0)
      /\ c[2 * E + 3] = T!Op("addr", T!pgd, 0, T!ptb)
  BY <1>4, <1>5, <1>6
<1> QED
  BY <1>0, <1>1, <1>3, <1>7 DEF o

LEMMA Q6Of ==
  /\ T!Q6 \in Seq(Op4) /\ Len(T!Q6) = 2 * E + 3
  /\ \A i \in 0 .. E - 1 : /\ T!Q6[2 * i + 1] = T!Op("raw", T!ptb2, i, 0)
                           /\ T!Q6[2 * i + 2] = T!Op("addr", T!ptb2, i, E + i)
  /\ T!Q6[2 * E + 1] = T!Op("raw", T!pgd, 1, 0)
  /\ T!Q6[2 * E + 2] = T!Op("addr", T!pgd, 1, T!ptb2)
  /\ T!Q6[2 * E + 3].op = "pg" /\ T!Q6[2 * E + 3].at = 3 * T!MB
<1> DEFINE a == T!Loop(T!ptb2, E)
           o == T!Op("pg", 3 * T!MB, 0, 0)
           t1 == T!Set(T!pgd, 1, T!ptb2)
           b == a \o t1
           c == b \o <<o>>
<1>0. /\ T!ptb2 \in Nat /\ T!pgd \in Nat /\ 0 \in Nat /\ 1 \in Nat /\ E \in Nat /\ 2 * E \in Nat
      /\ 3 * T!MB \in Nat
      /\ \A i \in 0 .. E - 1 : 2 * i + 1 \in 1 .. 2 * E /\ 2 * i + 2 \in 1 .. 2 * E
  BY Numbers4, SMT
<1>1. /\ a \in Seq(Op4) /\ Len(a) = 2 * E
      /\ \A i \in 0 .. E - 1 : /\ a[2 * i + 1] = T!Op("raw", T!ptb2, i, 0)
                               /\ a[2 * i + 2] = T!Op("addr", T!ptb2, i, E + i)
  BY <1>0, LoopOf
<1>2. o \in Op4
  BY <1>0, OpOf DEF Ops4
<1>3. T!Q6 = c
  BY DEF T!Q6, T!Do
<1> HIDE DEF a, o
<1>40. /\ t1 \in Seq(Op4) /\ Len(t1) = 2
       /\ t1[1] = T!Op("raw", T!pgd, 1, 0) /\ t1[2] = T!Op("addr", T!pgd, 1, T!ptb2)
  BY <1>0, SetOf
<1> HIDE DEF t1
<1>4. /\ b \in Seq(Op4) /\ Len(b) = Len(a) + 2
      /\ \A k \in 1 .. Len(a) : b[k] = a[k]
      /\ b[Len(a) + 1] = T!Op("raw", T!pgd, 1, 0)
      /\ b[Len(a) + 2] = T!Op("addr", T!pgd, 1, T!ptb2)
  BY <1>1, <1>40, ThenTwo
<1> HIDE DEF b
<1>5. /\ c \in Seq(Op4) /\ Len(c) = Len(b) + 1
      /\ \A k \in 1 .. Len(b) : c[k] = b[k]
      /\ c[Len(b) + 1] = o
  BY <1>2, <1>4, ThenOp
<1> HIDE DEF c
<1>6. /\ \A k \in 1 .. 2 * E : k \in 1 .. 2 * E + 2
      /\ 2 * E + 1 \in 1 .. 2 * E + 2 /\ 2 * E + 2 \in 1 .. 2 * E + 2
      /\ 2 * E + 2 + 1 = 2 * E + 3
  BY <1>0, SMT
<1>7. /\ c \in Seq(Op4) /\ Len(c) = 2 * E + 3
      /\ c[2 * E + 3] = o /\ \A k \in 1 .. 2 * E : c[k] = a[k]
      /\ c[2 * E + 1] = T!Op("raw", T!pgd, 1, 0)
      /\ c[2 * E + 2] = T!Op("addr", T!pgd, 1, T!ptb2)
  BY <1>1, <1>4, <1>5, <1>6
<1>8. o.op = "pg" /\ o.at = 3 * T!MB
  BY DEF o, T!Op
<1> QED
  BY <1>0, <1>1, <1>3, <1>7, <1>8

LEMMA Q7Of ==
  /\ T!Q7 \in Seq(Op4) /\ Len(T!Q7) = 7
  /\ T!Q7[1] = T!Op("clear", T!ptb3, 0, 0)
  /\ T!Q7[2] = T!Op("raw", T!ptb3, 0, 0) /\ T!Q7[3] = T!Op("addr", T!ptb3, 0, T!pgd)
  /\ T!Q7[4] = T!Op("raw", T!pgd, 3 * T!MB, 0)
  /\ T!Q7[5] = T!Op("addr", T!pgd, 3 * T!MB, T!ptb3)
  /\ T!Q7[6] = T!Op("read", T!pgd, 0, 0) /\ T!Q7[7] = T!Op("read", T!target, 0, 0)
<1> DEFINE o1 == T!Op("clear", T!ptb3, 0, 0)
           o2 == T!Op("read", T!pgd, 0, 0)
           o3 == T!Op("read", T!target, 0, 0)
           a == << o1 >>
           t1 == T!Set(T!ptb3, 0, T!pgd)
           b == a \o t1
           t2 == T!Set(T!pgd, 3 * T!MB, T!ptb3)
           c == b \o t2
           d == c \o << o2 >>
           e == d \o << o3 >>
<1>0. /\ T!ptb3 \in Nat /\ T!pgd \in Nat /\ T!target \in Nat /\ 0 \in Nat /\ 3 * T!MB \in Nat
  BY Numbers4
<1>1. o1 \in Op4 /\ o2 \in Op4 /\ o3 \in Op4
  BY <1>0, OpOf DEF Ops4
<1>2. T!Q7 = e
  BY Numbers4 DEF T!Q7, T!Clear, T!Read
<1> HIDE DEF o1, o2, o3
<1>3. a \in Seq(Op4) /\ Len(a) = 1 /\ a[1] = o1
  BY <1>1, OneOp
<1> HIDE DEF a
<1>40. /\ t1 \in Seq(Op4) /\ Len(t1) = 2
       /\ t1[1] = T!Op("raw", T!ptb3, 0, 0) /\ t1[2] = T!Op("addr", T!ptb3, 0, T!pgd)
  BY <1>0, SetOf
<1> HIDE DEF t1
<1>4. /\ b \in Seq(Op4) /\ Len(b) = Len(a) + 2
      /\ \A k \in 1 .. Len(a) : b[k] = a[k]
      /\ b[Len(a) + 1] = T!Op("raw", T!ptb3, 0, 0)
      /\ b[Len(a) + 2] = T!Op("addr", T!ptb3, 0, T!pgd)
  BY <1>3, <1>40, ThenTwo
<1> HIDE DEF b
<1>50. /\ t2 \in Seq(Op4) /\ Len(t2) = 2
       /\ t2[1] = T!Op("raw", T!pgd, 3 * T!MB, 0) /\ t2[2] = T!Op("addr", T!pgd, 3 * T!MB, T!ptb3)
  BY <1>0, SetOf
<1> HIDE DEF t2
<1>5. /\ c \in Seq(Op4) /\ Len(c) = Len(b) + 2
      /\ \A k \in 1 .. Len(b) : c[k] = b[k]
      /\ c[Len(b) + 1] = T!Op("raw", T!pgd, 3 * T!MB, 0)
      /\ c[Len(b) + 2] = T!Op("addr", T!pgd, 3 * T!MB, T!ptb3)
  BY <1>4, <1>50, ThenTwo
<1> HIDE DEF c
<1>6. /\ d \in Seq(Op4) /\ Len(d) = Len(c) + 1
      /\ \A k \in 1 .. Len(c) : d[k] = c[k]
      /\ d[Len(c) + 1] = o2
  BY <1>1, <1>5, ThenOp
<1> HIDE DEF d
<1>7. /\ e \in Seq(Op4) /\ Len(e) = Len(d) + 1
      /\ \A k \in 1 .. Len(d) : e[k] = d[k]
      /\ e[Len(d) + 1] = o3
  BY <1>1, <1>6, ThenOp
<1> HIDE DEF e
<1>8. Len(b) = 3 /\ Len(c) = 5 /\ Len(d) = 6 /\ Len(e) = 7
  BY <1>3, <1>4, <1>5, <1>6, <1>7
<1>9. b[1] = o1 /\ b[2] = T!Op("raw", T!ptb3, 0, 0) /\ b[3] = T!Op("addr", T!ptb3, 0, T!pgd)
  BY <1>3, <1>4
<1>10. c[1] = b[1] /\ c[2] = b[2] /\ c[3] = b[3]
       /\ c[4] = T!Op("raw", T!pgd, 3 * T!MB, 0) /\ c[5] = T!Op("addr", T!pgd, 3 * T!MB, T!ptb3)
  BY <1>5, <1>8
<1>11. e[1] = c[1] /\ e[2] = c[2] /\ e[3] = c[3] /\ e[4] = c[4] /\ e[5] = c[5]
       /\ e[6] = o2 /\ e[7] = o3
  BY <1>6, <1>7, <1>8
<1> QED
  BY <1>2, <1>7, <1>8, <1>9, <1>10, <1>11 DEF o1, o2, o3

LEMMA Q8Of ==
  /\ T!Q8 \in Seq(Op4) /\ Len(T!Q8) = 6
  /\ T!Q8[1] = T!Op("raw", T!ptb2, 3 * T!MB, 0)
  /\ T!Q8[2] = T!Op("addr", T!ptb2, 3 * T!MB, T!Shared)
  /\ T!Q8[3] = T!Op("raw", T!ptb2, E - 1, 0)
  /\ T!Q8[4] = T!Op("addr", T!ptb2, E - 1, T!Shared)
  /\ T!Q8[5] = T!Op("read", T!v1, 0, 0) /\ T!Q8[6] = T!Op("read", T!v2, 0, 0)
<1> DEFINE o2 == T!Op("read", T!v1, 0, 0)
           o3 == T!Op("read", T!v2, 0, 0)
           b == T!Set(T!ptb2, 3 * T!MB, T!Shared)
           t1 == T!Set(T!ptb2, E - 1, T!Shared)
           c == b \o t1
           d == c \o << o2 >>
           e == d \o << o3 >>
<1>0. /\ T!ptb2 \in Nat /\ T!v1 \in Nat /\ T!v2 \in Nat /\ 0 \in Nat /\ 3 * T!MB \in Nat
      /\ E - 1 \in Nat /\ T!Shared \in Nat
  BY Numbers4
<1>1. o2 \in Op4 /\ o3 \in Op4
  BY <1>0, OpOf DEF Ops4
<1>2. T!Q8 = e
  BY Numbers4 DEF T!Q8, T!Read
<1> HIDE DEF o2, o3
<1>4. /\ b \in Seq(Op4) /\ Len(b) = 2
      /\ b[1] = T!Op("raw", T!ptb2, 3 * T!MB, 0)
      /\ b[2] = T!Op("addr", T!ptb2, 3 * T!MB, T!Shared)
  BY <1>0, SetOf
<1> HIDE DEF b
<1>50. /\ t1 \in Seq(Op4) /\ Len(t1) = 2
       /\ t1[1] = T!Op("raw", T!ptb2, E - 1, 0) /\ t1[2] = T!Op("addr", T!ptb2, E - 1, T!Shared)
  BY <1>0, SetOf
<1> HIDE DEF t1
<1>5. /\ c \in Seq(Op4) /\ Len(c) = Len(b) + 2
      /\ \A k \in 1 .. Len(b) : c[k] = b[k]
      /\ c[Len(b) + 1] = T!Op("raw", T!ptb2, E - 1, 0)
      /\ c[Len(b) + 2] = T!Op("addr", T!ptb2, E - 1, T!Shared)
  BY <1>4, <1>50, ThenTwo
<1> HIDE DEF c
<1>6. /\ d \in Seq(Op4) /\ Len(d) = Len(c) + 1
      /\ \A k \in 1 .. Len(c) : d[k] = c[k]
      /\ d[Len(c) + 1] = o2
  BY <1>1, <1>5, ThenOp
<1> HIDE DEF d
<1>7. /\ e \in Seq(Op4) /\ Len(e) = Len(d) + 1
      /\ \A k \in 1 .. Len(d) : e[k] = d[k]
      /\ e[Len(d) + 1] = o3
  BY <1>1, <1>6, ThenOp
<1> HIDE DEF e
<1>8. Len(c) = 4 /\ Len(d) = 5 /\ Len(e) = 6
  BY <1>4, <1>5, <1>6, <1>7
<1>10. c[1] = b[1] /\ c[2] = b[2]
       /\ c[3] = T!Op("raw", T!ptb2, E - 1, 0) /\ c[4] = T!Op("addr", T!ptb2, E - 1, T!Shared)
  BY <1>4, <1>5
<1>11. e[1] = c[1] /\ e[2] = c[2] /\ e[3] = c[3] /\ e[4] = c[4] /\ e[5] = o2 /\ e[6] = o3
  BY <1>6, <1>7, <1>8
<1> QED
  BY <1>2, <1>4, <1>7, <1>8, <1>10, <1>11 DEF o2, o3

\* tp4's program, whole.
LEMMA TextOf ==
  /\ T!tp \in Seq(Op4) /\ Len(T!tp) = 4 * E + 21
  /\ T!tp[1].op = "cr3" /\ T!tp[1].at = 3 * T!MB
  /\ \A k \in 1 .. 2 * E + 3 : T!tp[1 + k] = T!Q5[k]
  /\ \A k \in 1 .. 2 * E + 3 : T!tp[2 * E + 4 + k] = T!Q6[k]
  /\ \A k \in 1 .. 7 : T!tp[4 * E + 7 + k] = T!Q7[k]
  /\ \A k \in 1 .. 6 : T!tp[4 * E + 14 + k] = T!Q8[k]
  /\ T!tp[4 * E + 21] = T!Op("store", T!target, 0, 0)
<1> DEFINE o1 == T!Op("cr3", 3 * T!MB, 0, 0)
           o2 == T!Op("store", T!target, 0, 0)
           a == << o1 >>
           b == a \o T!Q5
           c == b \o T!Q6
           d == c \o T!Q7
           e == d \o T!Q8
           f == e \o << o2 >>
<1>0. T!target \in Nat /\ 0 \in Nat /\ 3 * T!MB \in Nat /\ E \in Nat
  BY Numbers4
<1>1. o1 \in Op4 /\ o2 \in Op4 /\ o1.op = "cr3" /\ o1.at = 3 * T!MB
  <2>1. o1 \in Op4 /\ o2 \in Op4
    BY <1>0, OpOf DEF Ops4
  <2> QED
    BY <2>1 DEF T!Op
<1>2. T!tp = f
  BY DEF T!tp, T!Do, T!Q9
<1> HIDE DEF o1, o2
<1>3. a \in Seq(Op4) /\ Len(a) = 1 /\ a[1] = o1
  BY <1>1, OneOp
<1> HIDE DEF a
<1>4. /\ b \in Seq(Op4) /\ Len(b) = Len(a) + Len(T!Q5)
      /\ \A k \in 1 .. Len(a) : b[k] = a[k]
      /\ \A k \in 1 .. Len(T!Q5) : b[Len(a) + k] = T!Q5[k]
  BY <1>3, Q5Of, Joined
<1> HIDE DEF b
<1>5. /\ c \in Seq(Op4) /\ Len(c) = Len(b) + Len(T!Q6)
      /\ \A k \in 1 .. Len(b) : c[k] = b[k]
      /\ \A k \in 1 .. Len(T!Q6) : c[Len(b) + k] = T!Q6[k]
  BY <1>4, Q6Of, Joined
<1> HIDE DEF c
<1>6. /\ d \in Seq(Op4) /\ Len(d) = Len(c) + Len(T!Q7)
      /\ \A k \in 1 .. Len(c) : d[k] = c[k]
      /\ \A k \in 1 .. Len(T!Q7) : d[Len(c) + k] = T!Q7[k]
  BY <1>5, Q7Of, Joined
<1> HIDE DEF d
<1>7. /\ e \in Seq(Op4) /\ Len(e) = Len(d) + Len(T!Q8)
      /\ \A k \in 1 .. Len(d) : e[k] = d[k]
      /\ \A k \in 1 .. Len(T!Q8) : e[Len(d) + k] = T!Q8[k]
  BY <1>6, Q8Of, Joined
<1> HIDE DEF e
<1>8. /\ f \in Seq(Op4) /\ Len(f) = Len(e) + 1
      /\ \A k \in 1 .. Len(e) : f[k] = e[k]
      /\ f[Len(e) + 1] = o2
  BY <1>1, <1>7, ThenOp
<1> HIDE DEF f
<1>9. /\ Len(T!Q5) = 2 * E + 3 /\ Len(T!Q6) = 2 * E + 3 /\ Len(T!Q7) = 7 /\ Len(T!Q8) = 6
  BY Q5Of, Q6Of, Q7Of, Q8Of
<1>10. /\ Len(b) = 2 * E + 4 /\ Len(c) = 4 * E + 7 /\ Len(d) = 4 * E + 14 /\ Len(e) = 4 * E + 20
       /\ Len(f) = 4 * E + 21
  <2>1. Len(b) = 1 + (2 * E + 3) /\ Len(c) = Len(b) + (2 * E + 3) /\ Len(d) = Len(c) + 7
        /\ Len(e) = Len(d) + 6 /\ Len(f) = Len(e) + 1
    BY <1>3, <1>4, <1>5, <1>6, <1>7, <1>8, <1>9
  <2> QED
    BY <1>0, <2>1, SMT
<1>11. \A k \in 1 .. 2 * E + 4 : f[k] = b[k]
  <2>1. \A k \in 1 .. 2 * E + 4 : k \in 1 .. 4 * E + 7 /\ k \in 1 .. 4 * E + 14 /\ k \in 1 .. 4 * E + 20
    BY <1>0, SMT
  <2> QED
    BY <2>1, <1>5, <1>6, <1>7, <1>8, <1>10
<1>12. \A k \in 1 .. 4 * E + 7 : f[k] = c[k]
  <2>1. \A k \in 1 .. 4 * E + 7 : k \in 1 .. 4 * E + 14 /\ k \in 1 .. 4 * E + 20
    BY <1>0, SMT
  <2> QED
    BY <2>1, <1>6, <1>7, <1>8, <1>10
<1>13. \A k \in 1 .. 4 * E + 14 : f[k] = d[k]
  <2>1. \A k \in 1 .. 4 * E + 14 : k \in 1 .. 4 * E + 20
    BY <1>0, SMT
  <2> QED
    BY <2>1, <1>7, <1>8, <1>10
<1>14. /\ 1 \in 1 .. 2 * E + 4 /\ 1 \in 1 .. 1
       /\ \A k \in 1 .. 2 * E + 3 : 1 + k \in 1 .. 2 * E + 4 /\ 2 * E + 4 + k \in 1 .. 4 * E + 7
       /\ \A k \in 1 .. 7 : 4 * E + 7 + k \in 1 .. 4 * E + 14
       /\ \A k \in 1 .. 6 : 4 * E + 14 + k \in 1 .. 4 * E + 20
       /\ 4 * E + 20 + 1 = 4 * E + 21
  BY <1>0, SMT
<1>15. f[1] = o1 /\ f[4 * E + 21] = o2
  <2>1. f[1] = b[1] /\ b[1] = a[1]
    BY <1>3, <1>4, <1>11, <1>14
  <2> QED
    BY <2>1, <1>3, <1>8, <1>10, <1>14
<1>16. ASSUME NEW k \in 1 .. 2 * E + 3
       PROVE  f[1 + k] = T!Q5[k] /\ f[2 * E + 4 + k] = T!Q6[k]
  <2>1. b[1 + k] = T!Q5[k] /\ c[2 * E + 4 + k] = T!Q6[k]
    BY <1>3, <1>4, <1>5, <1>9, <1>10
  <2> QED
    BY <2>1, <1>11, <1>12, <1>14
<1>17. ASSUME NEW k \in 1 .. 7
       PROVE  f[4 * E + 7 + k] = T!Q7[k]
  <2>1. d[4 * E + 7 + k] = T!Q7[k]
    BY <1>6, <1>9, <1>10
  <2> QED
    BY <2>1, <1>13, <1>14
<1>18. ASSUME NEW k \in 1 .. 6
       PROVE  f[4 * E + 14 + k] = T!Q8[k]
  <2>1. e[4 * E + 14 + k] = T!Q8[k]
    BY <1>7, <1>9, <1>10
  <2>2. 4 * E + 14 + k \in 1 .. Len(e)
    BY <1>10, <1>14
  <2> QED
    BY <2>1, <2>2, <1>8
<1> QED
  BY <1>1, <1>2, <1>8, <1>10, <1>15, <1>16, <1>17, <1>18 DEF o2

-----------------------------------------------------------------------------
(* tp4's walks *)

LEMMA Places4 ==
  /\ 0 \in T!Tables /\ T!pgd \in T!Tables /\ T!ptb \in T!Tables /\ T!ptb2 \in T!Tables
  /\ T!ptb3 \in T!Tables /\ T!Tables \subseteq Nat /\ 9 * T!MB \notin T!Tables /\ 9 * T!MB \in Nat
  /\ T!pgd # 0 /\ T!ptb # 0 /\ T!ptb2 # 0 /\ T!ptb3 # 0
  /\ T!pgd # T!ptb /\ T!pgd # T!ptb2 /\ T!pgd # T!ptb3
  /\ T!ptb # T!ptb2 /\ T!ptb # T!ptb3 /\ T!ptb2 # T!ptb3
<1>1. T!Tables = {0, T!pgd, T!ptb, T!ptb2, T!ptb3}
  BY DEF T!Tables
<1>2. 9 * T!MB \in Nat /\ 9 * T!MB # 0 /\ 9 * T!MB # T!pgd /\ 9 * T!MB # T!ptb
      /\ 9 * T!MB # T!ptb2 /\ 9 * T!MB # T!ptb3
  BY Scale, SMT
<1>3. /\ T!pgd # 0 /\ T!ptb # 0 /\ T!ptb2 # 0 /\ T!ptb3 # 0
      /\ T!pgd # T!ptb /\ T!pgd # T!ptb2 /\ T!pgd # T!ptb3
      /\ T!ptb # T!ptb2 /\ T!ptb # T!ptb3 /\ T!ptb2 # T!ptb3
  BY Scale, SMT
<1> QED
  BY <1>1, <1>2, <1>3, Numbers4

LEMMA Watched4 ==
  /\ T!Kernel = {3 * T!MB, 3 * T!MB + 1}
  /\ \A w \in T!Kernel : /\ w \in 0 .. E - 1 /\ w \in Nat
                         /\ T!T!pd32_get_idx(w) = 0 /\ T!T!pt32_get_idx(w) = w
  /\ \A w \in Kept \ T!Kernel :
        /\ w \in Nat /\ w - E \in 0 .. E - 1 /\ w - E # 3 * T!MB /\ w - E # E - 1
        /\ E + (w - E) = w
        /\ T!T!pd32_get_idx(w) = 1 /\ T!T!pt32_get_idx(w) = w - E
  /\ T!T!pd32_get_idx(T!v1) = 1 /\ T!T!pt32_get_idx(T!v1) = 3 * T!MB
  /\ T!T!pd32_get_idx(T!v2) = 1 /\ T!T!pt32_get_idx(T!v2) = E - 1
  /\ T!T!pd32_get_idx(T!target) = 3 * T!MB /\ T!T!pt32_get_idx(T!target) = 0
  /\ 0 \in 0 .. E - 1 /\ 1 \in 0 .. E - 1 /\ 3 * T!MB \in 0 .. E - 1 /\ E - 1 \in 0 .. E - 1
  /\ 3 * T!MB # E - 1 /\ 3 * T!MB # 0 /\ 3 * T!MB # 1
<1>1. T!Kernel = {3 * T!MB, 3 * T!MB + 1}
  BY DEF T!Kernel
<1>2. /\ 3 * T!MB \in 0 .. E - 1 /\ 3 * T!MB + 1 \in 0 .. E - 1
      /\ 3 * T!MB \in Nat /\ 3 * T!MB + 1 \in Nat
      /\ 0 \in 0 .. E - 1 /\ 1 \in 0 .. E - 1 /\ E - 1 \in 0 .. E - 1
      /\ 3 * T!MB # E - 1 /\ 3 * T!MB # 0 /\ 3 * T!MB # 1
  BY Scale, SMT
<1>3. \A w \in T!Kernel : /\ w \in 0 .. E - 1 /\ w \in Nat
                          /\ T!T!pd32_get_idx(w) = 0 /\ T!T!pt32_get_idx(w) = w
  BY <1>1, <1>2, Pages4
<1>4. \A w \in {T!pgd, T!ptb2, T!ptb3} :
        /\ w \in Nat /\ w - E \in 0 .. E - 1 /\ w - E # 3 * T!MB /\ w - E # E - 1
        /\ E + (w - E) = w
  BY Scale, SMT
<1>5. \A w \in Kept \ T!Kernel : w \in {T!pgd, T!ptb2, T!ptb3}
  BY DEF Kept
<1>6. \A w \in Kept \ T!Kernel : T!T!pd32_get_idx(w) = 1 /\ T!T!pt32_get_idx(w) = w - E
  <2> TAKE w \in Kept \ T!Kernel
  <2>1. w - E \in 0 .. E - 1 /\ E + (w - E) = w
    BY <1>4, <1>5
  <2> DEFINE x == w - E
  <2>2. x \in 0 .. E - 1 /\ E + x = w
    BY <2>1
  <2> HIDE DEF x
  <2>3. T!T!pd32_get_idx(w) = 1 /\ T!T!pt32_get_idx(w) = x
    BY <2>2, Pages4
  <2> QED
    BY <2>3 DEF x
<1>7. /\ T!T!pd32_get_idx(T!v1) = 1 /\ T!T!pd32_get_idx(T!v2) = 1
  <2>1. T!v1 = E + 3 * T!MB /\ T!v2 = E + (E - 1)
    BY Scale, SMT
  <2> QED
    BY <1>2, <2>1, Pages4
<1> QED
  BY <1>1, <1>2, <1>3, <1>4, <1>5, <1>6, <1>7, Numbers4

LEMMA KOf ==
  /\ \A x \in Nat : K(x) \in PgEntry
  /\ \A x : K(x).p /\ K(x).pfn = x /\ K(x).rw /\ ~K(x).usr
  /\ T!T!Zero \in PgEntry /\ ~T!T!Zero.p
  /\ \A x, y : K(x) = K(y) => x = y
  BY DEF K, PgEntry, T!T!pg_set_entry, T!KRN_RW, T!T!Zero

LEMMA WalkIs ==
  ASSUME NEW m, NEW d, NEW w, NEW e \in PgEntry, NEW x \in PgEntry,
         m[d][T!T!pd32_get_idx(w)] = e,
         e.p /\ e.pfn \in T!Tables => m[e.pfn][T!T!pt32_get_idx(w)] = x,
         ~(e.p /\ e.pfn \in T!Tables) => x = T!T!Zero
  PROVE  T!T!Walk(m, d, w) = [p |-> e.p /\ x.p, rw |-> e.rw /\ x.rw, usr |-> e.usr /\ x.usr,
                              pfn |-> x.pfn]
<1>1. T!T!Pte(m, d, w) = x
  BY DEF T!T!Pte
<1> QED
  BY <1>1 DEF T!T!Walk

LEMMA WalkTo ==
  ASSUME NEW m, NEW d, NEW w, NEW t \in T!Tables, NEW f \in Nat,
         m[d][T!T!pd32_get_idx(w)] = K(t), m[t][T!T!pt32_get_idx(w)] = K(f)
  PROVE  T!T!Walk(m, d, w) = K(f)
<1>1. K(t) \in PgEntry /\ K(f) \in PgEntry /\ K(t).p /\ K(t).pfn = t
  BY KOf, Places4
<1>2. T!T!Walk(m, d, w) = [p |-> K(t).p /\ K(f).p, rw |-> K(t).rw /\ K(f).rw,
                           usr |-> K(t).usr /\ K(f).usr, pfn |-> K(f).pfn]
  BY <1>1, WalkIs
<1> QED
  BY <1>2 DEF K, T!T!pg_set_entry, T!KRN_RW

LEMMA WalkNone ==
  ASSUME NEW m \in Mem4, NEW d \in T!Tables, NEW w, NEW a \in 0 .. E - 1,
         T!T!pd32_get_idx(w) = a, ~m[d][a].p
  PROVE  ~T!T!Walk(m, d, w).p
<1>1. m[d][a] \in PgEntry /\ T!T!Zero \in PgEntry /\ ~T!T!Zero.p
  BY KOf DEF Mem4
<1> DEFINE e == m[d][a]
<1>2. e \in PgEntry /\ ~e.p /\ m[d][T!T!pd32_get_idx(w)] = e
  BY <1>1
<1> HIDE DEF e
<1>3. T!T!Pte(m, d, w) = T!T!Zero
  BY <1>2 DEF T!T!Pte
<1>4. T!T!Walk(m, d, w).p = (e.p /\ T!T!Zero.p)
  BY <1>2, <1>3 DEF T!T!Walk
<1> QED
  BY <1>2, <1>4

LEMMA WalkZero ==
  ASSUME NEW m, NEW d, NEW w, NEW a, NEW b, NEW t \in T!Tables,
         T!T!pd32_get_idx(w) = a, T!T!pt32_get_idx(w) = b, m[d][a] = K(t), m[t][b] = T!T!Zero
  PROVE  ~T!T!Walk(m, d, w).p
<1>1. K(t) \in PgEntry /\ K(t).p /\ K(t).pfn = t /\ T!T!Zero \in PgEntry /\ ~T!T!Zero.p
  BY KOf, Places4
<1>2. T!T!Walk(m, d, w) = [p |-> K(t).p /\ T!T!Zero.p, rw |-> K(t).rw /\ T!T!Zero.rw,
                           usr |-> K(t).usr /\ T!T!Zero.usr, pfn |-> T!T!Zero.pfn]
  BY <1>1, WalkIs
<1>3. T!T!Walk(m, d, w).p = (K(t).p /\ T!T!Zero.p)
  BY <1>2
<1> QED
  BY <1>1, <1>3

LEMMA WalkType ==
  ASSUME NEW m \in Mem4, NEW d \in T!Tables, NEW w, NEW a \in 0 .. E - 1, NEW b \in 0 .. E - 1,
         T!T!pd32_get_idx(w) = a, T!T!pt32_get_idx(w) = b
  PROVE  T!T!Walk(m, d, w) \in PgEntry
<1> DEFINE e == m[d][a]
           x == IF e.p /\ e.pfn \in T!Tables THEN m[e.pfn][b] ELSE T!T!Zero
<1>1. e \in PgEntry
  BY DEF Mem4
<1>2. x \in PgEntry
  <2> HIDE DEF e
  <2>1. \A f \in T!Tables : m[f][b] \in PgEntry
    BY DEF Mem4
  <2> QED
    BY <2>1, KOf
<1>3. /\ m[d][T!T!pd32_get_idx(w)] = e
      /\ e.p /\ e.pfn \in T!Tables => m[e.pfn][T!T!pt32_get_idx(w)] = x
      /\ ~(e.p /\ e.pfn \in T!Tables) => x = T!T!Zero
  OBVIOUS
<1> HIDE DEF e, x
<1>4. T!T!Walk(m, d, w) = [p |-> e.p /\ x.p, rw |-> e.rw /\ x.rw, usr |-> e.usr /\ x.usr,
                           pfn |-> x.pfn]
  BY <1>1, <1>2, <1>3, WalkIs
<1> QED
  BY <1>1, <1>2, <1>4 DEF PgEntry

\* The kernel's pages, the directory and two tables, from the first step with paging on.
LEMMA KeptWalk ==
  ASSUME TablesInv, v6 >= On, NEW w \in Kept
  PROVE  /\ T!T!Walk(v2, v3, w).p => T!T!Walk(v2, v3, w) = K(w)
         /\ v6 <= Last4 \/ w \notin T!Kernel => T!T!Walk(v2, v3, w) = K(w)
<1>0. /\ v3 = T!pgd /\ v6 \in Nat /\ E \in Nat /\ E >= 16
      /\ v6 >= 4 * E + 8 /\ v6 <= 4 * E + 22
  BY Scale DEF TablesInv, On, Last4
<1>1. /\ v6 >= 2 * E + 5 /\ v6 >= 4 * E + 7
      /\ \A i \in 0 .. E - 1 : v6 >= 2 * i + 4 /\ v6 >= 2 * E + 2 * i + 7
  BY <1>0, SMT
<1>2. CASE w \in T!Kernel
  <2>1. T!T!pd32_get_idx(w) = 0 /\ T!T!pt32_get_idx(w) = w /\ w \in 0 .. E - 1
        /\ w \in Nat /\ 0 \in 0 .. E - 1 /\ v2 \in Mem4 /\ T!pgd \in T!Tables
        /\ T!ptb \in T!Tables
    BY <1>2, Watched4, Places4 DEF TablesInv
  <2>2. v2[T!ptb][w] = K(w)
    BY <1>1, <2>1 DEF TablesInv, PtbHas
  <2>3. v2[T!pgd][0] = K(T!ptb) => T!T!Walk(v2, v3, w) = K(w)
    <3>1. /\ v2[T!pgd][0] = K(T!ptb) => v2[v3][T!T!pd32_get_idx(w)] = K(T!ptb)
          /\ v2[T!ptb][T!T!pt32_get_idx(w)] = K(w) /\ T!ptb \in T!Tables /\ w \in Nat
      BY <1>0, <2>1, <2>2
    <3> QED
      BY <3>1, WalkTo, Zenon
  <2>4. v2[T!pgd][0] = T!T!Zero => ~T!T!Walk(v2, v3, w).p
    BY <1>0, <2>1, WalkNone, KOf
  <2>5. /\ v6 <= Last4 => v2[T!pgd][0] = K(T!ptb)
        /\ v6 > Last4 => v2[T!pgd][0] \in {T!T!Zero, K(T!ptb)}
        /\ v6 <= Last4 \/ v6 > Last4
    BY <1>0, <1>1, SMT DEF TablesInv, PgdHas, Last4
  <2> QED
    BY <1>2, <2>3, <2>4, <2>5
<1>3. CASE w \notin T!Kernel
  <2> DEFINE i == w - E
  <2>1. /\ T!T!pd32_get_idx(w) = 1 /\ T!T!pt32_get_idx(w) = i /\ i \in 0 .. E - 1
        /\ i # 3 * T!MB /\ i # E - 1 /\ E + i = w /\ w \in Nat
    BY <1>3, Watched4
  <2> HIDE DEF i
  <2>2. v2[T!ptb2][i] = K(w)
    BY <1>1, <2>1 DEF TablesInv, Ptb2Has, Ptb2At
  <2>3. v2[T!pgd][1] = K(T!ptb2)
    BY <1>1 DEF TablesInv, PgdHas
  <2>4. /\ v2[v3][T!T!pd32_get_idx(w)] = K(T!ptb2) /\ T!ptb2 \in T!Tables
        /\ v2[T!ptb2][T!T!pt32_get_idx(w)] = K(w) /\ w \in Nat
    BY <1>0, <2>1, <2>2, <2>3, Places4
  <2>5. T!T!Walk(v2, v3, w) = K(w)
    BY <2>4, WalkTo, Zenon
  <2> QED
    BY <2>5
<1> QED
  BY <1>2, <1>3

\* The pages of the two strings, before, during and after Q8's writes.
LEMMA StringsWalk ==
  ASSUME TablesInv, v6 >= On
  PROVE  /\ T!T!Walk(v2, v3, T!v1).p /\ T!T!Walk(v2, v3, T!v2).p
         /\ v6 >= 4 * E + 17 => T!T!Walk(v2, v3, T!v1) = K(T!Shared)
         /\ v6 >= 4 * E + 19 => T!T!Walk(v2, v3, T!v2) = K(T!Shared)
<1>0. /\ v3 = T!pgd /\ v6 \in Nat /\ E \in Nat /\ E >= 16 /\ v6 >= 4 * E + 8
  BY Scale DEF TablesInv, On, Last4
<1>1. /\ v6 >= 4 * E + 7 /\ \A i \in 0 .. E - 1 : v6 >= 2 * E + 2 * i + 7
  BY <1>0, SMT
<1>2. v2[T!pgd][1] = K(T!ptb2)
  BY <1>1 DEF TablesInv, PgdHas
<1>3. /\ v2[T!ptb2][3 * T!MB] = Changed(v6, 4 * E + 15, E + 3 * T!MB)
      /\ v2[T!ptb2][E - 1] = Changed(v6, 4 * E + 17, E + (E - 1))
  BY <1>1, Watched4 DEF TablesInv, Ptb2Has, Ptb2At
<1>40. /\ T!T!pd32_get_idx(T!v1) = 1 /\ T!T!pt32_get_idx(T!v1) = 3 * T!MB
       /\ T!T!pd32_get_idx(T!v2) = 1 /\ T!T!pt32_get_idx(T!v2) = E - 1
       /\ T!ptb2 \in T!Tables /\ v2[v3][1] = K(T!ptb2)
  BY <1>0, <1>2, Watched4, Places4
<1>4. ASSUME NEW f \in Nat
      PROVE  /\ v2[T!ptb2][3 * T!MB] = K(f) => T!T!Walk(v2, v3, T!v1) = K(f)
             /\ v2[T!ptb2][E - 1] = K(f) => T!T!Walk(v2, v3, T!v2) = K(f)
  <2>1. /\ v2[v3][T!T!pd32_get_idx(T!v1)] = K(T!ptb2)
        /\ v2[v3][T!T!pd32_get_idx(T!v2)] = K(T!ptb2)
        /\ v2[T!ptb2][3 * T!MB] = K(f) => v2[T!ptb2][T!T!pt32_get_idx(T!v1)] = K(f)
        /\ v2[T!ptb2][E - 1] = K(f) => v2[T!ptb2][T!T!pt32_get_idx(T!v2)] = K(f)
    BY <1>40
  <2> QED
    BY <1>40, <2>1, WalkTo, Zenon
<1>5. \A s, b : Changed(v6, s, b) \in {K(b), K(0), K(T!Shared)}
  BY DEF Changed
<1>6. /\ v6 >= 4 * E + 17 => Changed(v6, 4 * E + 15, E + 3 * T!MB) = K(T!Shared)
      /\ v6 >= 4 * E + 19 => Changed(v6, 4 * E + 17, E + (E - 1)) = K(T!Shared)
  <2>1. /\ v6 >= 4 * E + 17 => ~(v6 <= 4 * E + 15) /\ v6 # 4 * E + 15 + 1
        /\ v6 >= 4 * E + 19 => ~(v6 <= 4 * E + 17) /\ v6 # 4 * E + 17 + 1
    BY <1>0, SMT
  <2> QED
    BY <2>1, Zenon DEF Changed
<1>7. /\ v6 >= 4 * E + 17 => T!T!Walk(v2, v3, T!v1) = K(T!Shared)
      /\ v6 >= 4 * E + 19 => T!T!Walk(v2, v3, T!v2) = K(T!Shared)
  BY <1>3, <1>4, <1>6, Numbers4
<1>8. 0 \in Nat /\ T!Shared \in Nat /\ E + 3 * T!MB \in Nat /\ E + (E - 1) \in Nat
  BY Numbers4, SMT
<1>9. T!T!Walk(v2, v3, T!v1).p /\ T!T!Walk(v2, v3, T!v2).p
  <2>1. /\ \E f \in Nat : v2[T!ptb2][3 * T!MB] = K(f)
        /\ \E f \in Nat : v2[T!ptb2][E - 1] = K(f)
    BY <1>3, <1>5, <1>8
  <2> QED
    BY <2>1, <1>4, KOf
<1> QED
  BY <1>7, <1>9

\* The page through which the directory is changed.
LEMMA TargetWalk ==
  ASSUME TablesInv, v6 >= On
  PROVE  /\ T!T!Walk(v2, v3, T!target).p =>
                T!T!Walk(v2, v3, T!target) \in {K(9 * T!MB), K(T!pgd)}
         /\ v6 > 4 * E + 12 => T!T!Walk(v2, v3, T!target) = K(T!pgd)
<1>0. /\ v3 = T!pgd /\ v6 \in Nat /\ E \in Nat /\ E >= 16 /\ v6 >= 4 * E + 8
  BY Scale DEF TablesInv, On, Last4
<1>4. /\ v2 \in Mem4 /\ 9 * T!MB \in Nat /\ T!pgd \in Nat /\ 3 * T!MB \in 0 .. E - 1
      /\ T!pgd \in T!Tables /\ T!ptb3 \in T!Tables /\ 0 \in T!Tables
      /\ T!T!pd32_get_idx(T!target) = 3 * T!MB /\ T!T!pt32_get_idx(T!target) = 0
  BY Watched4, Places4, Numbers4 DEF TablesInv
<1>1. CASE v6 > 4 * E + 12
  <2>1. v6 >= 4 * E + 13 /\ v6 >= 4 * E + 11
    BY <1>0, <1>1, SMT
  <2>2. v2[T!pgd][3 * T!MB] = K(T!ptb3) /\ v2[T!ptb3][0] = K(T!pgd)
    BY <2>1 DEF TablesInv, PgdHas, Ptb3Has
  <2>3. T!T!Walk(v2, v3, T!target) = K(T!pgd)
    <3>1. /\ v2[v3][T!T!pd32_get_idx(T!target)] = K(T!ptb3)
          /\ v2[T!ptb3][T!T!pt32_get_idx(T!target)] = K(T!pgd)
          /\ T!ptb3 \in T!Tables /\ T!pgd \in Nat
      BY <1>0, <1>4, <2>2
    <3> QED
      BY <3>1, WalkTo, Zenon
  <2> QED
    BY <2>3
<1>2. CASE v6 = 4 * E + 12
  <2>1. v2[T!pgd][3 * T!MB] = K(0) /\ v2[0][0] \in {T!T!Zero, K(9 * T!MB)}
    BY <1>2 DEF TablesInv, PgdHas
  <2>2. ~(v6 > 4 * E + 12)
    BY <1>0, <1>2, SMT
  <2>3. v2[0][0] = T!T!Zero => ~T!T!Walk(v2, v3, T!target).p
    BY <1>0, <2>1, <1>4, WalkZero
  <2>4. v2[0][0] = K(9 * T!MB) => T!T!Walk(v2, v3, T!target) = K(9 * T!MB)
    <3> DEFINE z == 0
    <3>1. v2[v3][T!T!pd32_get_idx(T!target)] = K(z) /\ z \in T!Tables
      BY <1>0, <1>4, <2>1
    <3>2. v2[0][0] = v2[z][T!T!pt32_get_idx(T!target)] /\ 9 * T!MB \in Nat
      BY <1>0, <1>4, <2>1
    <3> HIDE DEF z
    <3>3. ASSUME NEW f \in Nat, v2[0][0] = K(f)
          PROVE  T!T!Walk(v2, v3, T!target) = K(f)
      <4>1. v2[z][T!T!pt32_get_idx(T!target)] = K(f)
        BY <3>2, <3>3
      <4> QED
        BY <3>1, <4>1, WalkTo, Zenon
    <3> QED
      BY <3>2, <3>3
  <2> QED
    BY <2>1, <2>2, <2>3, <2>4
<1>3. CASE v6 < 4 * E + 12
  <2>1. v6 >= 2 * E + 3 /\ v6 <= 4 * E + 11 /\ ~(v6 > 4 * E + 12)
    BY <1>0, <1>3, SMT
  <2>2. v2[T!pgd][3 * T!MB] = T!T!Zero
    BY <2>1 DEF TablesInv, PgdHas
  <2>3. ~T!T!Walk(v2, v3, T!target).p
    BY <1>0, <2>2, <1>4, WalkNone, KOf
  <2> QED
    BY <2>1, <2>3
<1> QED
  BY <1>0, <1>1, <1>2, <1>3, SMT

-----------------------------------------------------------------------------
(* tp4's steps *)

LEMMA Text4 ==
  /\ Len(T!tp) = Last4 /\ T!tp[1].op = "cr3"
  /\ \A i \in 0 .. E - 1 : /\ T!tp[2 * i + 2] = T!Op("raw", T!ptb, i, 0)
                           /\ T!tp[2 * i + 3] = T!Op("addr", T!ptb, i, i)
  /\ T!tp[2 * E + 2] = T!Op("clear", T!pgd, 0, 0)
  /\ T!tp[2 * E + 3] = T!Op("raw", T!pgd, 0, 0)
  /\ T!tp[2 * E + 4] = T!Op("addr", T!pgd, 0, T!ptb)
  /\ \A i \in 0 .. E - 1 : /\ T!tp[2 * E + 2 * i + 5] = T!Op("raw", T!ptb2, i, 0)
                           /\ T!tp[2 * E + 2 * i + 6] = T!Op("addr", T!ptb2, i, E + i)
  /\ T!tp[4 * E + 5] = T!Op("raw", T!pgd, 1, 0)
  /\ T!tp[4 * E + 6] = T!Op("addr", T!pgd, 1, T!ptb2)
  /\ T!tp[4 * E + 7].op = "pg"
  /\ T!tp[4 * E + 8] = T!Op("clear", T!ptb3, 0, 0)
  /\ T!tp[4 * E + 9] = T!Op("raw", T!ptb3, 0, 0)
  /\ T!tp[4 * E + 10] = T!Op("addr", T!ptb3, 0, T!pgd)
  /\ T!tp[4 * E + 11] = T!Op("raw", T!pgd, 3 * T!MB, 0)
  /\ T!tp[4 * E + 12] = T!Op("addr", T!pgd, 3 * T!MB, T!ptb3)
  /\ T!tp[4 * E + 13] = T!Op("read", T!pgd, 0, 0)
  /\ T!tp[4 * E + 14] = T!Op("read", T!target, 0, 0)
  /\ T!tp[4 * E + 15] = T!Op("raw", T!ptb2, 3 * T!MB, 0)
  /\ T!tp[4 * E + 16] = T!Op("addr", T!ptb2, 3 * T!MB, T!Shared)
  /\ T!tp[4 * E + 17] = T!Op("raw", T!ptb2, E - 1, 0)
  /\ T!tp[4 * E + 18] = T!Op("addr", T!ptb2, E - 1, T!Shared)
  /\ T!tp[4 * E + 19] = T!Op("read", T!v1, 0, 0)
  /\ T!tp[4 * E + 20] = T!Op("read", T!v2, 0, 0)
  /\ T!tp[4 * E + 21] = T!Op("store", T!target, 0, 0)
<1>1. E \in Nat
  BY Scale
<1>2. Len(T!tp) = Last4 /\ T!tp[1].op = "cr3" /\ T!tp[4 * E + 21] = T!Op("store", T!target, 0, 0)
  BY TextOf DEF Last4
<1>3. ASSUME NEW i \in 0 .. E - 1
      PROVE  /\ T!tp[2 * i + 2] = T!Op("raw", T!ptb, i, 0)
             /\ T!tp[2 * i + 3] = T!Op("addr", T!ptb, i, i)
  <2>1. /\ 2 * i + 1 \in 1 .. 2 * E + 3 /\ 1 + (2 * i + 1) = 2 * i + 2
        /\ 2 * i + 2 \in 1 .. 2 * E + 3 /\ 1 + (2 * i + 2) = 2 * i + 3 /\ 0 + i = i
    BY <1>1, SMT
  <2>2. T!tp[2 * i + 2] = T!Q5[2 * i + 1] /\ T!tp[2 * i + 3] = T!Q5[2 * i + 2]
    BY <2>1, TextOf
  <2> QED
    BY <2>1, <2>2, Q5Of
<1>4. ASSUME NEW i \in 0 .. E - 1
      PROVE  /\ T!tp[2 * E + 2 * i + 5] = T!Op("raw", T!ptb2, i, 0)
             /\ T!tp[2 * E + 2 * i + 6] = T!Op("addr", T!ptb2, i, E + i)
  <2>1. /\ 2 * i + 1 \in 1 .. 2 * E + 3 /\ 2 * E + 4 + (2 * i + 1) = 2 * E + 2 * i + 5
        /\ 2 * i + 2 \in 1 .. 2 * E + 3 /\ 2 * E + 4 + (2 * i + 2) = 2 * E + 2 * i + 6
    BY <1>1, SMT
  <2>2. /\ T!tp[2 * E + 2 * i + 5] = T!Q6[2 * i + 1]
        /\ T!tp[2 * E + 2 * i + 6] = T!Q6[2 * i + 2]
    BY <2>1, TextOf
  <2> QED
    BY <2>2, Q6Of
<1>5. /\ T!tp[2 * E + 2] = T!Q5[2 * E + 1] /\ T!tp[2 * E + 3] = T!Q5[2 * E + 2]
      /\ T!tp[2 * E + 4] = T!Q5[2 * E + 3]
      /\ T!tp[4 * E + 5] = T!Q6[2 * E + 1] /\ T!tp[4 * E + 6] = T!Q6[2 * E + 2]
      /\ T!tp[4 * E + 7] = T!Q6[2 * E + 3]
  <2>1. /\ 2 * E + 1 \in 1 .. 2 * E + 3 /\ 2 * E + 2 \in 1 .. 2 * E + 3
        /\ 2 * E + 3 \in 1 .. 2 * E + 3
        /\ 1 + (2 * E + 1) = 2 * E + 2 /\ 1 + (2 * E + 2) = 2 * E + 3
        /\ 1 + (2 * E + 3) = 2 * E + 4
        /\ 2 * E + 4 + (2 * E + 1) = 4 * E + 5 /\ 2 * E + 4 + (2 * E + 2) = 4 * E + 6
        /\ 2 * E + 4 + (2 * E + 3) = 4 * E + 7
    BY <1>1, SMT
  <2> QED
    BY <2>1, TextOf
<1>6. /\ T!tp[4 * E + 8] = T!Q7[1] /\ T!tp[4 * E + 9] = T!Q7[2]
      /\ T!tp[4 * E + 10] = T!Q7[3] /\ T!tp[4 * E + 11] = T!Q7[4]
      /\ T!tp[4 * E + 12] = T!Q7[5] /\ T!tp[4 * E + 13] = T!Q7[6]
      /\ T!tp[4 * E + 14] = T!Q7[7]
  <2>1. /\ 4 * E + 7 + 1 = 4 * E + 8 /\ 4 * E + 7 + 2 = 4 * E + 9 /\ 4 * E + 7 + 3 = 4 * E + 10
        /\ 4 * E + 7 + 4 = 4 * E + 11 /\ 4 * E + 7 + 5 = 4 * E + 12
        /\ 4 * E + 7 + 6 = 4 * E + 13 /\ 4 * E + 7 + 7 = 4 * E + 14
    BY <1>1, SMT
  <2>2. \A k \in 1 .. 7 : T!tp[4 * E + 7 + k] = T!Q7[k]
    BY TextOf
  <2>3. /\ T!tp[4 * E + 7 + 1] = T!Q7[1] /\ T!tp[4 * E + 7 + 2] = T!Q7[2]
        /\ T!tp[4 * E + 7 + 3] = T!Q7[3] /\ T!tp[4 * E + 7 + 4] = T!Q7[4]
        /\ T!tp[4 * E + 7 + 5] = T!Q7[5] /\ T!tp[4 * E + 7 + 6] = T!Q7[6]
        /\ T!tp[4 * E + 7 + 7] = T!Q7[7]
    BY <2>2
  <2> QED
    BY <2>1, <2>3
<1>7. /\ T!tp[4 * E + 15] = T!Q8[1] /\ T!tp[4 * E + 16] = T!Q8[2]
      /\ T!tp[4 * E + 17] = T!Q8[3] /\ T!tp[4 * E + 18] = T!Q8[4]
      /\ T!tp[4 * E + 19] = T!Q8[5] /\ T!tp[4 * E + 20] = T!Q8[6]
  <2>1. /\ 4 * E + 14 + 1 = 4 * E + 15 /\ 4 * E + 14 + 2 = 4 * E + 16
        /\ 4 * E + 14 + 3 = 4 * E + 17 /\ 4 * E + 14 + 4 = 4 * E + 18
        /\ 4 * E + 14 + 5 = 4 * E + 19 /\ 4 * E + 14 + 6 = 4 * E + 20
    BY <1>1, SMT
  <2>2. \A k \in 1 .. 6 : T!tp[4 * E + 14 + k] = T!Q8[k]
    BY TextOf
  <2>3. /\ T!tp[4 * E + 14 + 1] = T!Q8[1] /\ T!tp[4 * E + 14 + 2] = T!Q8[2]
        /\ T!tp[4 * E + 14 + 3] = T!Q8[3] /\ T!tp[4 * E + 14 + 4] = T!Q8[4]
        /\ T!tp[4 * E + 14 + 5] = T!Q8[5] /\ T!tp[4 * E + 14 + 6] = T!Q8[6]
    BY <2>2
  <2> QED
    BY <2>1, <2>3
<1>8. /\ T!tp[2 * E + 2] = T!Op("clear", T!pgd, 0, 0)
      /\ T!tp[2 * E + 3] = T!Op("raw", T!pgd, 0, 0)
      /\ T!tp[2 * E + 4] = T!Op("addr", T!pgd, 0, T!ptb)
      /\ T!tp[4 * E + 5] = T!Op("raw", T!pgd, 1, 0)
      /\ T!tp[4 * E + 6] = T!Op("addr", T!pgd, 1, T!ptb2)
      /\ T!tp[4 * E + 7].op = "pg"
  BY <1>5, Q5Of, Q6Of, Zenon
<1>9. /\ T!tp[4 * E + 8] = T!Op("clear", T!ptb3, 0, 0)
      /\ T!tp[4 * E + 9] = T!Op("raw", T!ptb3, 0, 0)
      /\ T!tp[4 * E + 10] = T!Op("addr", T!ptb3, 0, T!pgd)
      /\ T!tp[4 * E + 11] = T!Op("raw", T!pgd, 3 * T!MB, 0)
      /\ T!tp[4 * E + 12] = T!Op("addr", T!pgd, 3 * T!MB, T!ptb3)
      /\ T!tp[4 * E + 13] = T!Op("read", T!pgd, 0, 0)
      /\ T!tp[4 * E + 14] = T!Op("read", T!target, 0, 0)
  BY <1>6, Q7Of, Zenon
<1>10. /\ T!tp[4 * E + 15] = T!Op("raw", T!ptb2, 3 * T!MB, 0)
       /\ T!tp[4 * E + 16] = T!Op("addr", T!ptb2, 3 * T!MB, T!Shared)
       /\ T!tp[4 * E + 17] = T!Op("raw", T!ptb2, E - 1, 0)
       /\ T!tp[4 * E + 18] = T!Op("addr", T!ptb2, E - 1, T!Shared)
       /\ T!tp[4 * E + 19] = T!Op("read", T!v1, 0, 0)
       /\ T!tp[4 * E + 20] = T!Op("read", T!v2, 0, 0)
  BY <1>7, Q8Of, Zenon
<1> QED
  BY <1>2, <1>3, <1>4, <1>8, <1>9, <1>10

\* One entry written, the others and the other tables as they were.
LEMMA Put4 ==
  ASSUME NEW m \in Mem4, NEW t \in T!Tables, NEW i \in 0 .. E - 1, NEW e \in PgEntry
  PROVE  /\ [m EXCEPT ![t][i] = e] \in Mem4 /\ [m EXCEPT ![t][i] = e][t][i] = e
         /\ \A j \in 0 .. E - 1 : j # i => [m EXCEPT ![t][i] = e][t][j] = m[t][j]
         /\ \A u \in T!Tables : u # t => [m EXCEPT ![t][i] = e][u] = m[u]
  BY DEF Mem4

LEMMA Clear4 ==
  ASSUME NEW m \in Mem4, NEW t \in T!Tables
  PROVE  LET n == [m EXCEPT ![t] = [i \in 0 .. E - 1 |-> T!T!Zero]]
         IN  /\ n \in Mem4 /\ \A j \in 0 .. E - 1 : n[t][j] = T!T!Zero
             /\ \A u \in T!Tables : u # t => n[u] = m[u]
<1> DEFINE z == [i \in 0 .. E - 1 |-> T!T!Zero]
           n == [m EXCEPT ![t] = z]
<1>1. z \in [0 .. E - 1 -> PgEntry] /\ \A j \in 0 .. E - 1 : z[j] = T!T!Zero
  BY KOf
<1> HIDE DEF z
<1>2. n \in Mem4 /\ n[t] = z /\ \A u \in T!Tables : u # t => n[u] = m[u]
  BY <1>1 DEF Mem4
<1> QED
  BY <1>1, <1>2 DEF z

\* What a step does, by its kind.
LEMMA StepIs ==
  ASSUME T!Step
  PROVE  LET o == T!tp[v6]
             f == T!Translation(o.at).pfn
         IN  /\ o.op = "raw" => v2' = T!Put(f, o.i, K(0))
             /\ o.op = "addr" => v2' = T!Put(f, o.i, K(o.pfn))
             /\ o.op = "store" => v2' = T!Put(f, o.i, T!T!Zero)
             /\ o.op = "clear" /\ f \in T!Tables =>
                    v2' = [v2 EXCEPT ![f] = [i \in 0 .. E - 1 |-> T!T!Zero]]
             /\ o.op \in {"read", "cr3", "pg"} => v2' = v2
             /\ v3' = IF o.op = "cr3" THEN T!pgd ELSE v3
             /\ v4' \in BOOLEAN /\ (v4' <=> v4 \/ o.op = "pg")
             /\ v7' = IF o.op = "read" /\ o.at \in {T!v1, T!v2} THEN v7 \union {f} ELSE v7
             /\ v6' = v6 + 1 /\ v6 <= Len(T!tp) /\ v1' = v1 /\ v8' = v8 /\ ~v8
             /\ v5' = T!Using
<1> DEFINE o == T!tp[v6]
           op == o.op
           f == T!Translation(o.at).pfn
           z == [i \in 0 .. E - 1 |-> T!T!Zero]
<1>1. /\ v2' = CASE op = "raw" -> T!Put(f, o.i, K(0))
                 [] op = "addr" -> T!Put(f, o.i, K(o.pfn))
                 [] op = "store" -> T!Put(f, o.i, T!T!Zero)
                 [] op = "clear" /\ f \in T!Tables -> [v2 EXCEPT ![f] = z]
                 [] OTHER -> v2
      /\ v3' = (IF op = "cr3" THEN T!pgd ELSE v3)
      /\ v4' = (v4 \/ op = "pg")
      /\ v7' = (IF op = "read" /\ o.at \in {T!v1, T!v2} THEN v7 \union {f} ELSE v7)
      /\ v6' = v6 + 1 /\ v6 <= Len(T!tp) /\ v1' = v1 /\ v8' = v8 /\ ~v8
      /\ v5' = T!Using
  BY Zenon DEF T!Step, K
<1>2. v4' \in BOOLEAN /\ (v4' <=> v4 \/ op = "pg")
  BY <1>1, Zenon
<1> HIDE DEF op, f, z
<1>3. /\ op = "raw" => v2' = T!Put(f, o.i, K(0))
      /\ op = "addr" => v2' = T!Put(f, o.i, K(o.pfn))
      /\ op = "store" => v2' = T!Put(f, o.i, T!T!Zero)
      /\ op = "clear" /\ f \in T!Tables => v2' = [v2 EXCEPT ![f] = z]
      /\ op \in {"read", "cr3", "pg"} => v2' = v2
  <2> DEFINE w1 == T!Put(f, o.i, K(0))
             w2 == T!Put(f, o.i, K(o.pfn))
             w3 == T!Put(f, o.i, T!T!Zero)
             w4 == [v2 EXCEPT ![f] = z]
             n == v2'
  <2>1. n = CASE op = "raw" -> w1 [] op = "addr" -> w2 [] op = "store" -> w3
              [] op = "clear" /\ f \in T!Tables -> w4 [] OTHER -> v2
    BY <1>1
  <2> HIDE DEF o, w1, w2, w3, w4, n
  <2>2. /\ op = "raw" => n = w1
        /\ op = "addr" => n = w2
        /\ op = "store" => n = w3
        /\ op = "clear" /\ f \in T!Tables => n = w4
        /\ op \in {"read", "cr3", "pg"} => n = v2
    BY <2>1
  <2> QED
    BY <2>2 DEF w1, w2, w3, w4, n
<1> QED
  BY <1>1, <1>2, <1>3, Zenon DEF op, f, z

LEMMA OpHas ==
  ASSUME NEW op, NEW t, NEW i, NEW x
  PROVE  /\ T!Op(op, t, i, x).op = op /\ T!Op(op, t, i, x).at = t
         /\ T!Op(op, t, i, x).i = i /\ T!Op(op, t, i, x).pfn = x
  BY DEF T!Op

\* Where an access goes.
LEMMA Goes4 ==
  ASSUME TablesInv, TlbInv
  PROVE  /\ v6 < On => \A w : T!Translation(w).pfn = w
         /\ v6 >= On => \A w \in Kept : v6 <= Last4 \/ w \notin T!Kernel =>
                                             T!Translation(w).pfn = w
         /\ v6 > 4 * E + 12 => T!Translation(T!target).pfn \in {9 * T!MB, T!pgd}
         /\ ~v1 /\ FollowInv =>
               /\ v6 > 4 * E + 12 => T!Translation(T!target).pfn = T!pgd
               /\ v6 >= 4 * E + 17 => T!Translation(T!v1).pfn = T!Shared
               /\ v6 >= 4 * E + 19 => T!Translation(T!v2).pfn = T!Shared
<1>1. /\ v6 \in Nat /\ E \in Nat /\ v4 \in BOOLEAN /\ (v4 <=> v6 >= 4 * E + 8)
      /\ v6 > 4 * E + 12 => v6 >= 4 * E + 8
      /\ v6 >= 4 * E + 17 => v6 >= 4 * E + 8
      /\ v6 >= 4 * E + 19 => v6 >= 4 * E + 8
  BY Scale DEF TablesInv, On, Last4
<1>2. /\ T!target \in T!Watched /\ T!v1 \in T!Watched /\ T!v2 \in T!Watched
      /\ Kept \subseteq T!Watched
  BY DEF T!Watched, Kept
<1>3. \A w : /\ ~v4 => T!Translation(w) = K(w)
             /\ v4 => \/ T!Translation(w) = v5[w] /\ w \in T!Watched /\ v5[w].p
                      \/ T!Translation(w) = T!T!Walk(v2, v3, w)
  BY DEF T!Translation, T!Cached, K
<1>4. v6 < On => \A w : T!Translation(w).pfn = w
  <2>1. v6 < On => ~v4
    BY <1>1 DEF On
  <2> QED
    BY <2>1, <1>3, KOf
<1>5. ASSUME v6 >= On, NEW w \in Kept, v6 <= Last4 \/ w \notin T!Kernel
      PROVE  T!Translation(w).pfn = w
  <2>1. v4
    BY <1>1, <1>5 DEF On
  <2>2. T!T!Walk(v2, v3, w) = K(w)
    BY <1>5, KeptWalk
  <2>3. v5[w].p => v5[w] = K(w)
    BY DEF TlbInv
  <2> QED
    BY <2>1, <2>2, <2>3, <1>3, KOf
<1>6. ASSUME v6 > 4 * E + 12
      PROVE  T!Translation(T!target).pfn \in {9 * T!MB, T!pgd}
  <2>1. v4 /\ v6 >= On
    BY <1>1, <1>6 DEF On
  <2>2. T!T!Walk(v2, v3, T!target) = K(T!pgd)
    BY <1>6, <2>1, TargetWalk
  <2>3. v5[T!target].p => v5[T!target] \in {K(9 * T!MB), K(T!pgd)}
    BY DEF TlbInv
  <2> QED
    BY <2>1, <2>2, <2>3, <1>3, KOf
<1>7. ASSUME ~v1, FollowInv
      PROVE  /\ v6 > 4 * E + 12 => T!Translation(T!target).pfn = T!pgd
             /\ v6 >= 4 * E + 17 => T!Translation(T!v1).pfn = T!Shared
             /\ v6 >= 4 * E + 19 => T!Translation(T!v2).pfn = T!Shared
  <2>1. /\ v5[T!target].p => v5[T!target] = K(T!pgd)
        /\ v5[T!v1].p => v5[T!v1] = K(T!Shared)
        /\ v5[T!v2].p => v5[T!v2] = K(T!Shared)
    BY <1>7 DEF FollowInv
  <2>2. v6 > 4 * E + 12 => v4 /\ T!T!Walk(v2, v3, T!target) = K(T!pgd)
    BY <1>1, TargetWalk DEF On
  <2>3. v6 >= 4 * E + 17 => v4 /\ T!T!Walk(v2, v3, T!v1) = K(T!Shared)
    BY <1>1, StringsWalk DEF On
  <2>4. v6 >= 4 * E + 19 => v4 /\ T!T!Walk(v2, v3, T!v2) = K(T!Shared)
    BY <1>1, StringsWalk DEF On
  <2> QED
    BY <2>1, <2>2, <2>3, <2>4, <1>3, KOf
<1> QED
  BY <1>4, <1>5, <1>6, <1>7

-----------------------------------------------------------------------------
(* What the tables hold goes on, when a step leaves them and when it writes *)

LEMMA PtbKeep ==
  ASSUME NEW k \in Nat, NEW t, PtbHas(k, t), k > 2 * E + 1 \/ k = 1
  PROVE  PtbHas(k + 1, t)
<1>1. E \in Nat
  BY Scale
<1>2. \A i \in 0 .. E - 1 : k + 1 >= 2 * i + 4 => k >= 2 * i + 4
  BY <1>1, SMT
<1> QED
  BY <1>2 DEF PtbHas

LEMMA PtbWrote ==
  ASSUME NEW k \in Nat, NEW t, NEW n, NEW i \in 0 .. E - 1, PtbHas(k, t),
         \A j \in 0 .. E - 1 : j # i => n[j] = t[j],
         k = 2 * i + 2 \/ (k = 2 * i + 3 /\ n[i] = K(i))
  PROVE  PtbHas(k + 1, n)
<1>1. E \in Nat
  BY Scale
<1>2. \A j \in 0 .. E - 1 : k + 1 >= 2 * j + 4 =>
          (j # i /\ k >= 2 * j + 4) \/ (j = i /\ (k = 2 * i + 3 \/ k >= 2 * i + 4))
  BY <1>1, SMT
<1>3. ~(k >= 2 * i + 4) /\ (k = 2 * i + 3 => n[i] = K(i))
  <2>1. 2 * i + 2 # 2 * i + 3 /\ ~(2 * i + 2 >= 2 * i + 4) /\ ~(2 * i + 3 >= 2 * i + 4)
    BY <1>1, SMT
  <2> QED
    BY <2>1
<1> QED
  BY <1>2, <1>3 DEF PtbHas

LEMMA PgdKeep ==
  ASSUME NEW k \in Nat, NEW t, PgdHas(k, t),
         \/ k < 2 * E + 2 \/ k \in 2 * E + 5 .. 4 * E + 4 \/ k \in 4 * E + 7 .. 4 * E + 10
         \/ k \in 4 * E + 13 .. 4 * E + 20
  PROVE  PgdHas(k + 1, t)
<1>1. E \in Nat /\ E >= 16
  BY Scale
<1> QED
  BY <1>1, SMT DEF PgdHas, Last4

LEMMA ChangedKeep ==
  ASSUME NEW k \in Nat, NEW s \in Nat, NEW b, k # s, k # s + 1
  PROVE  Changed(k + 1, s, b) = Changed(k, s, b)
<1>1. /\ k <= s <=> k + 1 <= s
      /\ k # s + 1 /\ ~(k <= s) => k + 1 # s + 1
  BY SMT
<1>2. CASE k <= s
  BY <1>1, <1>2, Zenon DEF Changed
<1>3. CASE ~(k <= s)
  BY <1>1, <1>3, Zenon DEF Changed
<1> QED
  BY <1>2, <1>3

LEMMA Ptb2AtKeep ==
  ASSUME NEW k \in Nat, NEW i \in 0 .. E - 1,
         i = 3 * T!MB => k # 4 * E + 15 /\ k # 4 * E + 16,
         i = E - 1 => k # 4 * E + 17 /\ k # 4 * E + 18
  PROVE  Ptb2At(k + 1, i) = Ptb2At(k, i)
<1>1. /\ 4 * E + 15 \in Nat /\ 4 * E + 17 \in Nat
      /\ 4 * E + 15 + 1 = 4 * E + 16 /\ 4 * E + 17 + 1 = 4 * E + 18
  BY Scale, SMT
<1>2. /\ i = 3 * T!MB => Changed(k + 1, 4 * E + 15, E + i) = Changed(k, 4 * E + 15, E + i)
      /\ i = E - 1 => Changed(k + 1, 4 * E + 17, E + i) = Changed(k, 4 * E + 17, E + i)
  BY <1>1, ChangedKeep
<1> QED
  BY <1>2, Zenon DEF Ptb2At

LEMMA Ptb2Keep ==
  ASSUME NEW k \in Nat, NEW t, Ptb2Has(k, t),
         k < 2 * E + 5 \/ k \in 4 * E + 5 .. 4 * E + 14 \/ k \in 4 * E + 19 .. 4 * E + 21
  PROVE  Ptb2Has(k + 1, t)
<1>1. E \in Nat /\ E >= 16
  BY Scale
<1>2. \A i \in 0 .. E - 1 : k + 1 >= 2 * E + 2 * i + 7 => k >= 2 * E + 2 * i + 7
  BY <1>1, SMT
<1>3. k # 4 * E + 15 /\ k # 4 * E + 16 /\ k # 4 * E + 17 /\ k # 4 * E + 18
  BY <1>1, SMT
<1>4. \A i \in 0 .. E - 1 : Ptb2At(k + 1, i) = Ptb2At(k, i)
  BY <1>3, Ptb2AtKeep
<1> QED
  BY <1>2, <1>4 DEF Ptb2Has

LEMMA Ptb2Wrote ==
  ASSUME NEW k \in Nat, NEW t, NEW n, NEW i \in 0 .. E - 1, Ptb2Has(k, t),
         \A j \in 0 .. E - 1 : j # i => n[j] = t[j],
         k + 1 >= 2 * E + 2 * i + 7 => n[i] = Ptb2At(k + 1, i),
         \A j \in 0 .. E - 1 : j # i => k # 2 * E + 2 * j + 6 /\ Ptb2At(k + 1, j) = Ptb2At(k, j)
  PROVE  Ptb2Has(k + 1, n)
<1>1. E \in Nat
  BY Scale
<1>2. \A j \in 0 .. E - 1 : k + 1 >= 2 * E + 2 * j + 7 /\ k # 2 * E + 2 * j + 6 =>
                                  k >= 2 * E + 2 * j + 7
  BY <1>1, SMT
<1> QED
  BY <1>2 DEF Ptb2Has

LEMMA Ptb3Keep ==
  ASSUME NEW k \in Nat, NEW t, Ptb3Has(k, t), k < 4 * E + 9 \/ k > 4 * E + 10
  PROVE  Ptb3Has(k + 1, t)
<1>1. E \in Nat
  BY Scale
<1> QED
  BY <1>1, SMT DEF Ptb3Has

-----------------------------------------------------------------------------
(* A step's effect on the tables *)

LEMMA Counts4 ==
  ASSUME TablesInv, T!Step
  PROVE  /\ v6 \in Nat /\ v6 >= 1 /\ v6 <= 4 * E + 21 /\ v6' = v6 + 1
         /\ v6' \in 1 .. Last4 + 1 /\ v3' = T!pgd
         /\ v1' = v1 /\ ~v8 /\ v8' = v8 /\ v4' \in BOOLEAN /\ v5' = T!Using
<1>1. E \in Nat /\ v6 \in 1 .. 4 * E + 22 /\ (v6 > 1 => v3 = T!pgd) /\ v4 \in BOOLEAN
  BY Scale DEF TablesInv, Last4
<1>2. /\ v6' = v6 + 1 /\ v6 <= Len(T!tp) /\ v1' = v1 /\ ~v8 /\ v8' = v8 /\ v5' = T!Using
      /\ v4' \in BOOLEAN /\ v3' = IF T!tp[v6].op = "cr3" THEN T!pgd ELSE v3
  BY StepIs
<1>3. Len(T!tp) = 4 * E + 21
  BY Text4 DEF Last4
<1>4. v6 \in Nat /\ v6 >= 1 /\ v6 <= 4 * E + 21 /\ v6' \in 1 .. Last4 + 1
  BY <1>1, <1>2, <1>3, SMT DEF Last4
<1>5. v6 = 1 => T!tp[v6].op = "cr3"
  BY Text4
<1>6. v3' = T!pgd
  <2>1. CASE v6 = 1
    BY <1>2, <1>5, <2>1
  <2>2. CASE v6 # 1
    <3>1. v6 > 1
      BY <1>4, <2>2, SMT
    <3> QED
      BY <1>1, <1>2, <3>1
  <2> QED
    BY <2>1, <2>2
<1> QED
  BY <1>2, <1>4, <1>6

LEMMA WriteStep ==
  ASSUME TablesInv, TlbInv, T!Step, NEW t \in T!Tables, NEW i \in 0 .. E - 1, NEW x \in Nat,
         v6 < On \/ t \in Kept \ T!Kernel,
         (T!tp[v6] = T!Op("raw", t, i, 0) /\ x = 0) \/ T!tp[v6] = T!Op("addr", t, i, x)
  PROVE  /\ v2' \in Mem4 /\ v2'[t][i] = K(x)
         /\ \A j \in 0 .. E - 1 : j # i => v2'[t][j] = v2[t][j]
         /\ \A u \in T!Tables : u # t => v2'[u] = v2[u]
         /\ v4' <=> v4
         /\ v7' = v7
<1>1. T!Translation(t).pfn = t
  <2>1. v6 >= On \/ v6 < On
    BY Scale, SMT DEF TablesInv, On
  <2> QED
    BY <2>1, Goes4
<1>2. /\ T!tp[v6].at = t /\ T!tp[v6].i = i
      /\ \/ T!tp[v6].op = "raw" /\ x = 0
         \/ T!tp[v6].op = "addr" /\ T!tp[v6].pfn = x
  BY OpHas
<1>3. v2' = T!Put(t, i, K(x))
  BY <1>1, <1>2, StepIs
<1>4. v2' = [v2 EXCEPT ![t][i] = K(x)]
  BY <1>3 DEF T!Put
<1>5. v2 \in Mem4 /\ K(x) \in PgEntry
  BY KOf DEF TablesInv
<1>6. (v4' <=> v4) /\ v7' = v7
  BY <1>2, StepIs
<1> DEFINE n == [v2 EXCEPT ![t][i] = K(x)]
<1>7. /\ n \in Mem4 /\ n[t][i] = K(x)
      /\ \A j \in 0 .. E - 1 : j # i => n[t][j] = v2[t][j]
      /\ \A u \in T!Tables : u # t => n[u] = v2[u]
  BY <1>5, Put4
<1>8. v2' = n
  BY <1>4
<1> HIDE DEF n
<1> QED
  BY <1>6, <1>7, <1>8

LEMMA WipeStep ==
  ASSUME TablesInv, TlbInv, T!Step, NEW t \in T!Tables, v6 < On \/ t \in Kept \ T!Kernel,
         T!tp[v6] = T!Op("clear", t, 0, 0)
  PROVE  /\ v2' \in Mem4 /\ \A j \in 0 .. E - 1 : v2'[t][j] = T!T!Zero
         /\ \A u \in T!Tables : u # t => v2'[u] = v2[u]
         /\ v4' <=> v4
         /\ v7' = v7
<1>1. T!Translation(t).pfn = t
  <2>1. v6 >= On \/ v6 < On
    BY Scale, SMT DEF TablesInv, On
  <2> QED
    BY <2>1, Goes4
<1>2. T!tp[v6].at = t /\ T!tp[v6].op = "clear"
  BY OpHas
<1>3. v2' = [v2 EXCEPT ![t] = [i \in 0 .. E - 1 |-> T!T!Zero]]
  BY <1>1, <1>2, StepIs
<1>5. v2 \in Mem4
  BY DEF TablesInv
<1>6. (v4' <=> v4) /\ v7' = v7
  BY <1>2, StepIs
<1> DEFINE n == [v2 EXCEPT ![t] = [i \in 0 .. E - 1 |-> T!T!Zero]]
<1>7. /\ n \in Mem4 /\ \A j \in 0 .. E - 1 : n[t][j] = T!T!Zero
      /\ \A u \in T!Tables : u # t => n[u] = v2[u]
  BY <1>5, Clear4
<1>8. v2' = n
  BY <1>3
<1> HIDE DEF n
<1> QED
  BY <1>6, <1>7, <1>8

LEMMA TablesGo ==
  ASSUME TablesInv, T!Step, v2' \in Mem4, v4' <=> v6 + 1 >= On, v2'[0][0] = v2[0][0],
         PtbHas(v6 + 1, v2'[T!ptb]), PgdHas(v6 + 1, v2'[T!pgd]),
         Ptb2Has(v6 + 1, v2'[T!ptb2]), Ptb3Has(v6 + 1, v2'[T!ptb3])
  PROVE  TablesInv'
<1>1. /\ v6' = v6 + 1 /\ v6' \in 1 .. Last4 + 1 /\ v3' = T!pgd
      /\ v1' = v1 /\ v8' = v8 /\ v4' \in BOOLEAN
  BY Counts4
<1>2. v1' \in BOOLEAN /\ v8' \in BOOLEAN /\ v2'[0][0] \in {T!T!Zero, K(9 * T!MB)}
  BY <1>1 DEF TablesInv
<1>3. PtbHas(v6, v2[T!ptb])' /\ PgdHas(v6, v2[T!pgd])'
      /\ Ptb2Has(v6, v2[T!ptb2])' /\ Ptb3Has(v6, v2[T!ptb3])'
  BY <1>1 DEF PtbHas, PgdHas, Ptb2Has, Ptb3Has, Ptb2At, Changed
<1> QED
  BY <1>1, <1>2, <1>3, Zenon DEF TablesInv

-----------------------------------------------------------------------------
(* Step by step, the tables hold what they should *)

\* A step that changes no table.
LEMMA NoWrite ==
  ASSUME TablesInv, T!Step, v2' = v2, v4' <=> v6 + 1 >= On,
         \/ v6 = 1 \/ v6 = 4 * E + 7 \/ v6 \in 4 * E + 13 .. 4 * E + 14
         \/ v6 \in 4 * E + 19 .. 4 * E + 20
  PROVE  TablesInv'
<1>1. v6 \in Nat /\ E \in Nat /\ E >= 16
  BY Counts4, Scale
<1>2. /\ v2 \in Mem4 /\ PtbHas(v6, v2[T!ptb]) /\ PgdHas(v6, v2[T!pgd])
      /\ Ptb2Has(v6, v2[T!ptb2]) /\ Ptb3Has(v6, v2[T!ptb3])
  BY DEF TablesInv
<1>3. /\ v6 > 2 * E + 1 \/ v6 = 1
      /\ \/ v6 < 2 * E + 2 \/ v6 \in 2 * E + 5 .. 4 * E + 4 \/ v6 \in 4 * E + 7 .. 4 * E + 10
         \/ v6 \in 4 * E + 13 .. 4 * E + 20
      /\ v6 < 2 * E + 5 \/ v6 \in 4 * E + 5 .. 4 * E + 14 \/ v6 \in 4 * E + 19 .. 4 * E + 21
      /\ v6 < 4 * E + 9 \/ v6 > 4 * E + 10
  BY <1>1, SMT
<1>4. /\ PtbHas(v6 + 1, v2[T!ptb]) /\ PgdHas(v6 + 1, v2[T!pgd])
      /\ Ptb2Has(v6 + 1, v2[T!ptb2]) /\ Ptb3Has(v6 + 1, v2[T!ptb3])
  BY <1>1, <1>2, <1>3, PtbKeep, PgdKeep, Ptb2Keep, Ptb3Keep
<1> QED
  BY <1>2, <1>4, TablesGo

LEMMA FirstStep ==
  ASSUME TablesInv, T!Step, v6 = 1
  PROVE  TablesInv' /\ v7' = v7
<1>1. T!tp[v6].op = "cr3"
  BY Text4
<1>2. v2' = v2 /\ (v4' <=> v4) /\ v7' = v7
  BY <1>1, StepIs
<1>3. v4' <=> v6 + 1 >= On
  <2>1. ~(v6 >= On) /\ ~(v6 + 1 >= On)
    BY Scale, SMT DEF On
  <2> QED
    BY <1>2, <2>1 DEF TablesInv
<1> QED
  BY <1>2, <1>3, NoWrite

\* The first loop of Q5.
LEMMA PtbStep ==
  ASSUME TablesInv, TlbInv, T!Step, NEW i \in 0 .. E - 1, v6 \in {2 * i + 2, 2 * i + 3}
  PROVE  TablesInv' /\ v7' = v7
<1>1. v6 \in Nat /\ E \in Nat /\ E >= 16 /\ i \in Nat /\ 0 \in Nat
  BY Counts4, Scale, SMT
<1>2. /\ v2 \in Mem4 /\ PtbHas(v6, v2[T!ptb]) /\ PgdHas(v6, v2[T!pgd])
      /\ Ptb2Has(v6, v2[T!ptb2]) /\ Ptb3Has(v6, v2[T!ptb3])
  BY DEF TablesInv
<1>3. v6 < On /\ v6 + 1 < On /\ v6 < 2 * E + 2 /\ v6 < 2 * E + 5 /\ v6 < 4 * E + 9
  BY <1>1, SMT DEF On
<1> DEFINE x == IF v6 = 2 * i + 2 THEN 0 ELSE i
<1>4. x \in Nat /\ (v6 = 2 * i + 3 => x = i)
  BY <1>1, SMT
<1>5. (T!tp[v6] = T!Op("raw", T!ptb, i, 0) /\ x = 0) \/ T!tp[v6] = T!Op("addr", T!ptb, i, x)
  <2>1. CASE v6 = 2 * i + 2
    BY <2>1, Text4
  <2>2. CASE v6 # 2 * i + 2
    BY <2>2, Text4
  <2> QED
    BY <2>1, <2>2
<1> HIDE DEF x
<1>6. /\ v2' \in Mem4 /\ v2'[T!ptb][i] = K(x)
      /\ \A j \in 0 .. E - 1 : j # i => v2'[T!ptb][j] = v2[T!ptb][j]
      /\ \A u \in T!Tables : u # T!ptb => v2'[u] = v2[u]
      /\ (v4' <=> v4) /\ v7' = v7
  BY <1>3, <1>4, <1>5, Places4, WriteStep
<1>7. PtbHas(v6 + 1, v2'[T!ptb])
  <2> DEFINE t == v2[T!ptb]
             n == v2'[T!ptb]
  <2>1. /\ PtbHas(v6, t) /\ \A j \in 0 .. E - 1 : j # i => n[j] = t[j]
        /\ v6 = 2 * i + 2 \/ (v6 = 2 * i + 3 /\ n[i] = K(i))
    BY <1>2, <1>4, <1>6
  <2> HIDE DEF t, n
  <2>2. PtbHas(v6 + 1, n)
    BY <1>1, <2>1, PtbWrote
  <2> QED
    BY <2>2 DEF n
<1>8. /\ v2'[T!pgd] = v2[T!pgd] /\ v2'[T!ptb2] = v2[T!ptb2] /\ v2'[T!ptb3] = v2[T!ptb3]
      /\ v2'[0] = v2[0]
  BY <1>6, Places4
<1>9. /\ PgdHas(v6 + 1, v2[T!pgd]) /\ Ptb2Has(v6 + 1, v2[T!ptb2]) /\ Ptb3Has(v6 + 1, v2[T!ptb3])
  BY <1>1, <1>2, <1>3, PgdKeep, Ptb2Keep, Ptb3Keep
<1>10. v4' <=> v6 + 1 >= On
  <2>1. ~(v6 >= On) /\ ~(v6 + 1 >= On)
    BY <1>1, <1>3, SMT DEF On
  <2> QED
    BY <1>6, <2>1 DEF TablesInv
<1> QED
  BY <1>6, <1>7, <1>8, <1>9, <1>10, TablesGo

\* A write into the directory, or its clearing.
LEMMA PgdStep ==
  ASSUME TablesInv, T!Step, v2' \in Mem4, v4' <=> v4, PgdHas(v6 + 1, v2'[T!pgd]),
         \A u \in T!Tables : u # T!pgd => v2'[u] = v2[u],
         \/ v6 \in 2 * E + 2 .. 2 * E + 4 \/ v6 \in 4 * E + 5 .. 4 * E + 6
         \/ v6 \in 4 * E + 11 .. 4 * E + 12 \/ v6 = 4 * E + 21
  PROVE  TablesInv'
<1>1. v6 \in Nat /\ E \in Nat /\ E >= 16
  BY Counts4, Scale
<1>2. /\ PtbHas(v6, v2[T!ptb]) /\ Ptb2Has(v6, v2[T!ptb2]) /\ Ptb3Has(v6, v2[T!ptb3])
  BY DEF TablesInv
<1>3. /\ v6 > 2 * E + 1
      /\ v6 < 2 * E + 5 \/ v6 \in 4 * E + 5 .. 4 * E + 14 \/ v6 \in 4 * E + 19 .. 4 * E + 21
      /\ v6 < 4 * E + 9 \/ v6 > 4 * E + 10
      /\ v6 >= On <=> v6 + 1 >= On
  BY <1>1, SMT DEF On
<1>4. /\ PtbHas(v6 + 1, v2[T!ptb]) /\ Ptb2Has(v6 + 1, v2[T!ptb2])
      /\ Ptb3Has(v6 + 1, v2[T!ptb3])
  BY <1>1, <1>2, <1>3, PtbKeep, Ptb2Keep, Ptb3Keep
<1>5. v2'[T!ptb] = v2[T!ptb] /\ v2'[T!ptb2] = v2[T!ptb2] /\ v2'[T!ptb3] = v2[T!ptb3]
      /\ v2'[0] = v2[0]
  BY Places4
<1>6. v4' <=> v6 + 1 >= On
  BY <1>3 DEF TablesInv
<1> QED
  BY <1>4, <1>5, <1>6, TablesGo

\* The end of Q5.
LEMMA PgdFirst ==
  ASSUME TablesInv, TlbInv, T!Step, v6 \in 2 * E + 2 .. 2 * E + 4
  PROVE  TablesInv' /\ v7' = v7
<1>1. /\ v6 \in Nat /\ E \in Nat /\ E >= 16 /\ v6 < On /\ 0 \in Nat /\ T!ptb \in Nat
      /\ T!pgd \in T!Tables /\ 0 \in 0 .. E - 1 /\ 3 * T!MB \in 0 .. E - 1 /\ 3 * T!MB # 0
      /\ v6 = 2 * E + 2 \/ v6 = 2 * E + 3 \/ v6 = 2 * E + 4
  <2>1. v6 \in Nat /\ E \in Nat /\ E >= 16
    BY Counts4, Scale
  <2>2. v6 < On /\ (v6 = 2 * E + 2 \/ v6 = 2 * E + 3 \/ v6 = 2 * E + 4)
    BY <2>1, SMT DEF On
  <2> QED
    BY <2>1, <2>2, Watched4, Places4, Numbers4
<1>2. CASE v6 = 2 * E + 2
  <2>1. T!tp[v6] = T!Op("clear", T!pgd, 0, 0)
    BY <1>2, Text4
  <2>2. /\ v2' \in Mem4 /\ \A j \in 0 .. E - 1 : v2'[T!pgd][j] = T!T!Zero
        /\ \A u \in T!Tables : u # T!pgd => v2'[u] = v2[u]
        /\ (v4' <=> v4) /\ v7' = v7
    BY <1>1, <2>1, WipeStep
  <2>3. v2'[T!pgd][3 * T!MB] = T!T!Zero
    BY <1>1, <2>2
  <2>4. PgdHas(v6 + 1, v2'[T!pgd])
    BY <1>1, <1>2, <2>3, SMT DEF PgdHas, Last4
  <2> QED
    BY <2>2, <2>4, PgdStep
<1>3. CASE v6 # 2 * E + 2
  <2> DEFINE x == IF v6 = 2 * E + 3 THEN 0 ELSE T!ptb
  <2>1. (T!tp[v6] = T!Op("raw", T!pgd, 0, 0) /\ x = 0) \/ T!tp[v6] = T!Op("addr", T!pgd, 0, x)
    <3>1. 2 * E + 4 # 2 * E + 3
      BY <1>1, SMT
    <3> QED
      BY <1>1, <1>3, <3>1, Text4
  <2>2. x \in Nat /\ (v6 = 2 * E + 4 => x = T!ptb)
    <3>1. 2 * E + 4 # 2 * E + 3
      BY <1>1, SMT
    <3> QED
      BY <1>1, <3>1
  <2> HIDE DEF x
  <2>3. /\ v2' \in Mem4 /\ v2'[T!pgd][0] = K(x)
        /\ \A j \in 0 .. E - 1 : j # 0 => v2'[T!pgd][j] = v2[T!pgd][j]
        /\ \A u \in T!Tables : u # T!pgd => v2'[u] = v2[u]
        /\ (v4' <=> v4) /\ v7' = v7
    BY <1>1, <2>1, <2>2, WriteStep
  <2>4. v2'[T!pgd][3 * T!MB] = T!T!Zero
    <3>1. v2[T!pgd][3 * T!MB] = T!T!Zero
      <4>1. v6 >= 2 * E + 3 /\ v6 <= 4 * E + 11
        BY <1>1, <1>3, SMT
      <4> QED
        BY <4>1 DEF TablesInv, PgdHas
    <3> QED
      BY <1>1, <2>3, <3>1
  <2>5. v6 = 2 * E + 4 => v2'[T!pgd][0] = K(T!ptb)
    BY <2>2, <2>3
  <2>6. PgdHas(v6 + 1, v2'[T!pgd])
    <3> DEFINE t == v2'[T!pgd]
    <3>1. t[3 * T!MB] = T!T!Zero /\ (v6 = 2 * E + 4 => t[0] = K(T!ptb))
      BY <2>4, <2>5
    <3> HIDE DEF t
    <3>2. PgdHas(v6 + 1, t)
      BY <1>1, <1>3, <3>1, SMT DEF PgdHas, Last4
    <3> QED
      BY <3>2 DEF t
  <2> QED
    BY <2>3, <2>6, PgdStep
<1> QED
  BY <1>2, <1>3

\* The loop of Q6.
LEMMA Ptb2Step ==
  ASSUME TablesInv, T!Step, NEW i \in 0 .. E - 1, v2' \in Mem4, v4' <=> v4,
         \A j \in 0 .. E - 1 : j # i => v2'[T!ptb2][j] = v2[T!ptb2][j],
         \A u \in T!Tables : u # T!ptb2 => v2'[u] = v2[u],
         v6 + 1 >= 2 * E + 2 * i + 7 => v2'[T!ptb2][i] = Ptb2At(v6 + 1, i),
         \A j \in 0 .. E - 1 :
            j # i => v6 # 2 * E + 2 * j + 6 /\ Ptb2At(v6 + 1, j) = Ptb2At(v6, j),
         v6 \in 2 * E + 5 .. 4 * E + 4 \/ v6 \in 4 * E + 15 .. 4 * E + 18
  PROVE  TablesInv'
<1>1. v6 \in Nat /\ E \in Nat /\ E >= 16
  BY Counts4, Scale
<1>2. /\ PtbHas(v6, v2[T!ptb]) /\ PgdHas(v6, v2[T!pgd])
      /\ Ptb2Has(v6, v2[T!ptb2]) /\ Ptb3Has(v6, v2[T!ptb3])
  BY DEF TablesInv
<1>3. /\ v6 > 2 * E + 1
      /\ v6 \in 2 * E + 5 .. 4 * E + 4 \/ v6 \in 4 * E + 13 .. 4 * E + 20
      /\ v6 < 4 * E + 9 \/ v6 > 4 * E + 10
      /\ v6 >= On <=> v6 + 1 >= On
  BY <1>1, SMT DEF On
<1>4. PtbHas(v6 + 1, v2[T!ptb]) /\ PgdHas(v6 + 1, v2[T!pgd]) /\ Ptb3Has(v6 + 1, v2[T!ptb3])
  BY <1>1, <1>2, <1>3, PtbKeep, PgdKeep, Ptb3Keep
<1>5. Ptb2Has(v6 + 1, v2'[T!ptb2])
  <2> DEFINE t == v2[T!ptb2]
             n == v2'[T!ptb2]
  <2>1. /\ Ptb2Has(v6, t) /\ \A j \in 0 .. E - 1 : j # i => n[j] = t[j]
        /\ v6 + 1 >= 2 * E + 2 * i + 7 => n[i] = Ptb2At(v6 + 1, i)
    BY <1>2
  <2> HIDE DEF t, n
  <2>2. Ptb2Has(v6 + 1, n)
    BY <1>1, <2>1, Ptb2Wrote
  <2> QED
    BY <2>2 DEF n
<1>6. v2'[T!ptb] = v2[T!ptb] /\ v2'[T!pgd] = v2[T!pgd] /\ v2'[T!ptb3] = v2[T!ptb3]
      /\ v2'[0] = v2[0]
  BY Places4
<1>7. v4' <=> v6 + 1 >= On
  BY <1>3 DEF TablesInv
<1> QED
  BY <1>4, <1>5, <1>6, <1>7, TablesGo

LEMMA LoopStep ==
  ASSUME TablesInv, TlbInv, T!Step, NEW i \in 0 .. E - 1,
         v6 \in {2 * E + 2 * i + 5, 2 * E + 2 * i + 6}
  PROVE  TablesInv' /\ v7' = v7
<1>1. /\ v6 \in Nat /\ E \in Nat /\ E >= 16 /\ i \in Nat /\ E + i \in Nat /\ 0 \in Nat
      /\ v6 < On /\ v6 \in 2 * E + 5 .. 4 * E + 4
  <2>1. v6 \in Nat /\ E \in Nat /\ E >= 16
    BY Counts4, Scale
  <2> QED
    BY <2>1, SMT DEF On
<1> DEFINE x == IF v6 = 2 * E + 2 * i + 5 THEN 0 ELSE E + i
<1>2. x \in Nat /\ (v6 = 2 * E + 2 * i + 6 => x = E + i)
  BY <1>1, SMT
<1>3. \/ T!tp[v6] = T!Op("raw", T!ptb2, i, 0) /\ x = 0
      \/ T!tp[v6] = T!Op("addr", T!ptb2, i, x)
  <2>1. CASE v6 = 2 * E + 2 * i + 5
    BY <2>1, Text4
  <2>2. CASE v6 # 2 * E + 2 * i + 5
    BY <2>2, Text4
  <2> QED
    BY <2>1, <2>2
<1> HIDE DEF x
<1>4. /\ v2' \in Mem4 /\ v2'[T!ptb2][i] = K(x)
      /\ \A j \in 0 .. E - 1 : j # i => v2'[T!ptb2][j] = v2[T!ptb2][j]
      /\ \A u \in T!Tables : u # T!ptb2 => v2'[u] = v2[u]
      /\ (v4' <=> v4) /\ v7' = v7
  BY <1>1, <1>2, <1>3, Places4, WriteStep
<1>5. v6 + 1 >= 2 * E + 2 * i + 7 => v2'[T!ptb2][i] = Ptb2At(v6 + 1, i)
  <2>1. v6 + 1 >= 2 * E + 2 * i + 7 => v6 = 2 * E + 2 * i + 6
    BY <1>1, SMT
  <2>2. v6 + 1 <= 4 * E + 15 /\ v6 + 1 <= 4 * E + 17
    BY <1>1, SMT
  <2>3. Ptb2At(v6 + 1, i) = K(E + i)
    BY <2>2, Zenon DEF Ptb2At, Changed
  <2> QED
    BY <1>2, <1>4, <2>1, <2>3
<1>6. \A j \in 0 .. E - 1 : j # i => v6 # 2 * E + 2 * j + 6
  BY <1>1, SMT
<1>7. v6 # 4 * E + 15 /\ v6 # 4 * E + 16 /\ v6 # 4 * E + 17 /\ v6 # 4 * E + 18
  BY <1>1, SMT
<1>8. \A j \in 0 .. E - 1 : Ptb2At(v6 + 1, j) = Ptb2At(v6, j)
  BY <1>1, <1>7, Ptb2AtKeep
<1> QED
  BY <1>1, <1>4, <1>5, <1>6, <1>8, Ptb2Step

\* Q8's two writes of entries.
LEMMA SharedStep ==
  ASSUME TablesInv, TlbInv, T!Step, NEW i \in {3 * T!MB, E - 1}, NEW s,
         s = IF i = E - 1 THEN 4 * E + 17 ELSE 4 * E + 15, v6 = s \/ v6 = s + 1
  PROVE  TablesInv' /\ v7' = v7
<1>1. /\ v6 \in Nat /\ E \in Nat /\ E >= 16 /\ i \in 0 .. E - 1 /\ T!Shared \in Nat /\ 0 \in Nat
      /\ 3 * T!MB # E - 1
  BY Counts4, Scale, Watched4, Numbers4
<1>2. /\ s \in Nat /\ v6 \in 4 * E + 15 .. 4 * E + 18 /\ s # s + 1
      /\ s + 1 = IF i = E - 1 THEN 4 * E + 18 ELSE 4 * E + 16
      /\ i = E - 1 => v6 # 4 * E + 15 /\ v6 # 4 * E + 16
      /\ i # E - 1 => v6 # 4 * E + 17 /\ v6 # 4 * E + 18
  BY <1>1, SMT
<1> DEFINE x == IF v6 = s THEN 0 ELSE T!Shared
<1>3. x \in Nat /\ (v6 = s => x = 0) /\ (v6 = s + 1 => x = T!Shared)
  BY <1>1, <1>2
<1>4. \/ T!tp[v6] = T!Op("raw", T!ptb2, i, 0) /\ x = 0
      \/ T!tp[v6] = T!Op("addr", T!ptb2, i, x)
  <2>1. CASE i = E - 1
    <3>1. (v6 = 4 * E + 17 /\ x = 0) \/ (v6 = 4 * E + 18 /\ x = T!Shared)
      BY <1>2, <1>3, <2>1
    <3> HIDE DEF x
    <3> QED
      BY <2>1, <3>1, Text4
  <2>2. CASE i # E - 1
    <3>1. (v6 = 4 * E + 15 /\ x = 0) \/ (v6 = 4 * E + 16 /\ x = T!Shared)
      BY <1>2, <1>3, <2>2
    <3> HIDE DEF x
    <3>2. i = 3 * T!MB
      BY <2>2
    <3> QED
      BY <3>1, <3>2, Text4
  <2> QED
    BY <2>1, <2>2
<1> HIDE DEF x
<1>5. T!ptb2 \in T!Tables /\ T!ptb2 \in Kept \ T!Kernel
  <2>1. T!ptb2 # 3 * T!MB /\ T!ptb2 # 3 * T!MB + 1
    BY Scale, SMT
  <2> QED
    BY <2>1, Watched4, Places4 DEF Kept
<1>6. /\ v2' \in Mem4 /\ v2'[T!ptb2][i] = K(x)
      /\ \A j \in 0 .. E - 1 : j # i => v2'[T!ptb2][j] = v2[T!ptb2][j]
      /\ \A u \in T!Tables : u # T!ptb2 => v2'[u] = v2[u]
      /\ (v4' <=> v4) /\ v7' = v7
  BY <1>1, <1>3, <1>4, <1>5, WriteStep
<1>7. \A b : Changed(v6 + 1, s, b) = K(x)
  <2>1. ~(v6 + 1 <= s) /\ (v6 = s <=> v6 + 1 = s + 1)
    BY <1>1, <1>2, SMT
  <2> QED
    BY <1>3, <2>1, Zenon DEF Changed
<1>8. Ptb2At(v6 + 1, i) = K(x)
  <2>1. CASE i = E - 1
    <3>1. i # 3 * T!MB /\ s = 4 * E + 17
      BY <1>1, <2>1
    <3> QED
      BY <1>7, <2>1, <3>1, Zenon DEF Ptb2At
  <2>2. CASE i # E - 1
    <3>1. i = 3 * T!MB /\ s = 4 * E + 15
      BY <2>2
    <3> QED
      BY <1>7, <3>1, Zenon DEF Ptb2At
  <2> QED
    BY <2>1, <2>2
<1>9. \A j \in 0 .. E - 1 : v6 # 2 * E + 2 * j + 6
  BY <1>1, <1>2, SMT
<1>10. \A j \in 0 .. E - 1 : j # i => Ptb2At(v6 + 1, j) = Ptb2At(v6, j)
  <2> SUFFICES ASSUME NEW j \in 0 .. E - 1, j # i
               PROVE  Ptb2At(v6 + 1, j) = Ptb2At(v6, j)
    OBVIOUS
  <2>1. /\ j = 3 * T!MB => v6 # 4 * E + 15 /\ v6 # 4 * E + 16
        /\ j = E - 1 => v6 # 4 * E + 17 /\ v6 # 4 * E + 18
    BY <1>2
  <2> QED
    BY <1>1, <2>1, Ptb2AtKeep
<1> QED
  BY <1>1, <1>2, <1>6, <1>8, <1>9, <1>10, Ptb2Step

\* The entry of the second table in the directory.
LEMMA PgdSecond ==
  ASSUME TablesInv, TlbInv, T!Step, v6 \in 4 * E + 5 .. 4 * E + 6
  PROVE  TablesInv' /\ v7' = v7
<1>1. /\ v6 \in Nat /\ E \in Nat /\ E >= 16 /\ v6 < On /\ 0 \in Nat /\ T!ptb2 \in Nat
      /\ T!pgd \in T!Tables /\ 0 \in 0 .. E - 1 /\ 1 \in 0 .. E - 1 /\ 3 * T!MB \in 0 .. E - 1
      /\ 3 * T!MB # 1 /\ 0 # 1
      /\ v6 = 4 * E + 5 \/ v6 = 4 * E + 6
  <2>1. v6 \in Nat /\ E \in Nat /\ E >= 16
    BY Counts4, Scale
  <2>2. v6 < On /\ (v6 = 4 * E + 5 \/ v6 = 4 * E + 6)
    BY <2>1, SMT DEF On
  <2> QED
    BY <2>1, <2>2, Watched4, Places4, Numbers4
<1> DEFINE x == IF v6 = 4 * E + 5 THEN 0 ELSE T!ptb2
<1>2. x \in Nat /\ (v6 = 4 * E + 6 => x = T!ptb2)
  <2>1. 4 * E + 6 # 4 * E + 5
    BY <1>1, SMT
  <2> QED
    BY <1>1, <2>1
<1>3. (T!tp[v6] = T!Op("raw", T!pgd, 1, 0) /\ x = 0) \/ T!tp[v6] = T!Op("addr", T!pgd, 1, x)
  <2>1. CASE v6 = 4 * E + 5
    BY <2>1, Text4
  <2>2. CASE v6 # 4 * E + 5
    BY <1>1, <2>2, Text4
  <2> QED
    BY <2>1, <2>2
<1> HIDE DEF x
<1>4. /\ v2' \in Mem4 /\ v2'[T!pgd][1] = K(x)
      /\ \A j \in 0 .. E - 1 : j # 1 => v2'[T!pgd][j] = v2[T!pgd][j]
      /\ \A u \in T!Tables : u # T!pgd => v2'[u] = v2[u]
      /\ (v4' <=> v4) /\ v7' = v7
  BY <1>1, <1>2, <1>3, WriteStep
<1>5. PgdHas(v6 + 1, v2'[T!pgd])
  <2> DEFINE t == v2[T!pgd]
             n == v2'[T!pgd]
  <2>1. /\ n[0] = t[0] /\ n[3 * T!MB] = t[3 * T!MB] /\ PgdHas(v6, t)
        /\ v6 = 4 * E + 6 => n[1] = K(T!ptb2)
    BY <1>1, <1>2, <1>4 DEF TablesInv
  <2> HIDE DEF t, n
  <2>2. PgdHas(v6 + 1, n)
    BY <1>1, <2>1, SMT DEF PgdHas, Last4
  <2> QED
    BY <2>2 DEF n
<1> QED
  BY <1>4, <1>5, PgdStep

\* Paging is turned on.
LEMMA PagingStep ==
  ASSUME TablesInv, T!Step, v6 = 4 * E + 7
  PROVE  TablesInv' /\ v7' = v7
<1>1. T!tp[v6].op = "pg"
  BY Text4
<1>2. v2' = v2 /\ v4' /\ v7' = v7
  BY <1>1, StepIs
<1>3. v6 + 1 >= On
  BY Scale, SMT DEF On
<1> QED
  BY <1>2, <1>3, NoWrite

\* The third table, cleared, then filled through its own mapping.
LEMMA Ptb3Step ==
  ASSUME TablesInv, T!Step, v2' \in Mem4, v4' <=> v4, Ptb3Has(v6 + 1, v2'[T!ptb3]),
         \A u \in T!Tables : u # T!ptb3 => v2'[u] = v2[u], v6 \in 4 * E + 8 .. 4 * E + 10
  PROVE  TablesInv'
<1>1. v6 \in Nat /\ E \in Nat /\ E >= 16
  BY Counts4, Scale
<1>2. PtbHas(v6, v2[T!ptb]) /\ Ptb2Has(v6, v2[T!ptb2]) /\ PgdHas(v6, v2[T!pgd])
  BY DEF TablesInv
<1>3. /\ v6 > 2 * E + 1 /\ v6 \in 4 * E + 5 .. 4 * E + 14 /\ v6 \in 4 * E + 7 .. 4 * E + 10
      /\ v6 >= On <=> v6 + 1 >= On
  BY <1>1, SMT DEF On
<1>4. /\ PtbHas(v6 + 1, v2[T!ptb]) /\ Ptb2Has(v6 + 1, v2[T!ptb2])
      /\ PgdHas(v6 + 1, v2[T!pgd])
  BY <1>1, <1>2, <1>3, PtbKeep, Ptb2Keep, PgdKeep
<1>5. v2'[T!ptb] = v2[T!ptb] /\ v2'[T!ptb2] = v2[T!ptb2] /\ v2'[T!pgd] = v2[T!pgd]
      /\ v2'[0] = v2[0]
  BY Places4
<1>6. v4' <=> v6 + 1 >= On
  BY <1>3 DEF TablesInv
<1> QED
  BY <1>4, <1>5, <1>6, TablesGo

LEMMA Kept4 ==
  T!pgd \in Kept \ T!Kernel /\ T!ptb2 \in Kept \ T!Kernel /\ T!ptb3 \in Kept \ T!Kernel
<1>1. /\ T!pgd # 3 * T!MB /\ T!pgd # 3 * T!MB + 1 /\ T!ptb2 # 3 * T!MB /\ T!ptb2 # 3 * T!MB + 1
      /\ T!ptb3 # 3 * T!MB /\ T!ptb3 # 3 * T!MB + 1
  BY Scale, SMT
<1> QED
  BY <1>1, Watched4 DEF Kept

LEMMA ThirdTable ==
  ASSUME TablesInv, TlbInv, T!Step, v6 \in 4 * E + 8 .. 4 * E + 10
  PROVE  TablesInv' /\ v7' = v7
<1>1. /\ v6 \in Nat /\ E \in Nat /\ E >= 16 /\ 0 \in Nat /\ T!pgd \in Nat
      /\ T!ptb3 \in T!Tables /\ T!ptb3 \in Kept \ T!Kernel /\ 0 \in 0 .. E - 1
      /\ v6 = 4 * E + 8 \/ v6 = 4 * E + 9 \/ v6 = 4 * E + 10
  <2>1. v6 \in Nat /\ E \in Nat /\ E >= 16
    BY Counts4, Scale
  <2>2. v6 = 4 * E + 8 \/ v6 = 4 * E + 9 \/ v6 = 4 * E + 10
    BY <2>1, SMT
  <2> QED
    BY <2>1, <2>2, Watched4, Places4, Numbers4, Kept4
<1>2. CASE v6 = 4 * E + 8
  <2>1. T!tp[v6] = T!Op("clear", T!ptb3, 0, 0)
    BY <1>2, Text4
  <2>2. /\ v2' \in Mem4 /\ \A u \in T!Tables : u # T!ptb3 => v2'[u] = v2[u]
        /\ (v4' <=> v4) /\ v7' = v7
    BY <1>1, <2>1, WipeStep
  <2>3. Ptb3Has(v6 + 1, v2'[T!ptb3])
    BY <1>1, <1>2, SMT DEF Ptb3Has
  <2> QED
    BY <2>2, <2>3, Ptb3Step
<1>3. CASE v6 # 4 * E + 8
  <2> DEFINE x == IF v6 = 4 * E + 9 THEN 0 ELSE T!pgd
  <2>1. 4 * E + 10 # 4 * E + 9
    BY <1>1, SMT
  <2>2. x \in Nat /\ (v6 = 4 * E + 9 => x = 0) /\ (v6 = 4 * E + 10 => x = T!pgd)
    BY <1>1, <2>1
  <2>3. (T!tp[v6] = T!Op("raw", T!ptb3, 0, 0) /\ x = 0) \/ T!tp[v6] = T!Op("addr", T!ptb3, 0, x)
    BY <1>1, <1>3, <2>1, Text4
  <2> HIDE DEF x
  <2>4. /\ v2' \in Mem4 /\ v2'[T!ptb3][0] = K(x)
        /\ \A u \in T!Tables : u # T!ptb3 => v2'[u] = v2[u]
        /\ (v4' <=> v4) /\ v7' = v7
    BY <1>1, <2>2, <2>3, WriteStep
  <2>5. Ptb3Has(v6 + 1, v2'[T!ptb3])
    <3> DEFINE n == v2'[T!ptb3]
    <3>1. (v6 = 4 * E + 9 => n[0] = K(0)) /\ (v6 = 4 * E + 10 => n[0] = K(T!pgd))
      BY <2>2, <2>4
    <3> HIDE DEF n
    <3>2. Ptb3Has(v6 + 1, n)
      BY <1>1, <1>3, <3>1, SMT DEF Ptb3Has
    <3> QED
      BY <3>2 DEF n
  <2> QED
    BY <2>4, <2>5, Ptb3Step
<1> QED
  BY <1>2, <1>3

\* The entry of the third table, through the directory's mapping.
LEMMA PgdThird ==
  ASSUME TablesInv, TlbInv, T!Step, v6 \in 4 * E + 11 .. 4 * E + 12
  PROVE  TablesInv' /\ v7' = v7
<1> DEFINE i == 3 * T!MB
<1>1. /\ v6 \in Nat /\ E \in Nat /\ E >= 16 /\ 0 \in Nat /\ T!ptb3 \in Nat
      /\ T!pgd \in T!Tables /\ T!pgd \in Kept \ T!Kernel
      /\ 0 \in 0 .. E - 1 /\ 1 \in 0 .. E - 1 /\ i \in 0 .. E - 1 /\ i # 1 /\ i # 0
      /\ v6 = 4 * E + 11 \/ v6 = 4 * E + 12
  <2>1. v6 \in Nat /\ E \in Nat /\ E >= 16
    BY Counts4, Scale
  <2>2. v6 = 4 * E + 11 \/ v6 = 4 * E + 12
    BY <2>1, SMT
  <2> QED
    BY <2>1, <2>2, Watched4, Places4, Numbers4, Kept4
<1> DEFINE x == IF v6 = 4 * E + 11 THEN 0 ELSE T!ptb3
<1>2. x \in Nat /\ (v6 = 4 * E + 11 => x = 0) /\ (v6 = 4 * E + 12 => x = T!ptb3)
  <2>1. 4 * E + 12 # 4 * E + 11
    BY <1>1, SMT
  <2> QED
    BY <1>1, <2>1
<1>3. (T!tp[v6] = T!Op("raw", T!pgd, i, 0) /\ x = 0) \/ T!tp[v6] = T!Op("addr", T!pgd, i, x)
  <2>1. CASE v6 = 4 * E + 11
    BY <2>1, Text4
  <2>2. CASE v6 # 4 * E + 11
    BY <1>1, <2>2, Text4
  <2> QED
    BY <2>1, <2>2
<1> HIDE DEF x, i
<1>4. /\ v2' \in Mem4 /\ v2'[T!pgd][i] = K(x)
      /\ \A j \in 0 .. E - 1 : j # i => v2'[T!pgd][j] = v2[T!pgd][j]
      /\ \A u \in T!Tables : u # T!pgd => v2'[u] = v2[u]
      /\ (v4' <=> v4) /\ v7' = v7
  BY <1>1, <1>2, <1>3, WriteStep
<1>5. PgdHas(v6 + 1, v2'[T!pgd])
  <2> DEFINE t == v2[T!pgd]
             n == v2'[T!pgd]
  <2>1. /\ n[0] = t[0] /\ n[1] = t[1] /\ PgdHas(v6, t)
        /\ (v6 = 4 * E + 11 => n[i] = K(0)) /\ (v6 = 4 * E + 12 => n[i] = K(T!ptb3))
    BY <1>1, <1>2, <1>4 DEF TablesInv
  <2> HIDE DEF t, n
  <2>2. PgdHas(v6 + 1, n)
    BY <1>1, <2>1, SMT DEF PgdHas, Last4, i
  <2> QED
    BY <2>2 DEF n
<1> QED
  BY <1>4, <1>5, PgdStep

\* The reads of the directory and of the page through which it will change.
LEMMA TableReads ==
  ASSUME TablesInv, T!Step, v6 \in 4 * E + 13 .. 4 * E + 14
  PROVE  TablesInv' /\ v7' = v7
<1>1. /\ v6 \in Nat /\ E \in Nat /\ E >= 16 /\ (v6 = 4 * E + 13 \/ v6 = 4 * E + 14)
  <2>1. v6 \in Nat /\ E \in Nat /\ E >= 16
    BY Counts4, Scale
  <2> QED
    BY <2>1, SMT
<1>2. \E t \in {T!pgd, T!target} : T!tp[v6] = T!Op("read", t, 0, 0)
  BY <1>1, Text4
<1>3. T!pgd \notin {T!v1, T!v2} /\ T!target \notin {T!v1, T!v2}
  <2>1. T!pgd # T!v1 /\ T!pgd # T!v2 /\ T!v1 <= 2 * E /\ T!v2 <= 2 * E
    BY Scale, SMT
  <2>2. \A m \in Nat, e \in Nat : m >= 4 => e * m >= e * 4
    BY SMT
  <2>3. T!target > E * 4
    <3>1. E * T!MB >= E * 4
      BY <2>2, Scale
    <3> DEFINE a == E * T!MB
    <3>2. a \in Nat /\ a >= E * 4 /\ T!target > a /\ T!target \in Nat
      <4>1. \A m \in Nat, e \in Nat : e * m \in Nat
        BY SMT
      <4> QED
        BY <3>1, <4>1, Scale
    <3> HIDE DEF a
    <3> QED
      BY <1>1, <3>2, SMT
  <2>4. T!target # T!v1 /\ T!target # T!v2
    BY <1>1, <2>1, <2>3, Numbers4, SMT
  <2> QED
    BY <2>1, <2>4
<1>4. v2' = v2 /\ (v4' <=> v4) /\ v7' = v7
  <2>1. T!tp[v6].op = "read" /\ T!tp[v6].at \in {T!pgd, T!target}
    BY <1>2, OpHas
  <2> QED
    BY <1>3, <2>1, StepIs
<1>5. v4' <=> v6 + 1 >= On
  <2>1. v6 >= On /\ v6 + 1 >= On
    BY <1>1, SMT DEF On
  <2> QED
    BY <1>4, <2>1 DEF TablesInv
<1> QED
  BY <1>4, <1>5, NoWrite

\* The reads of the two strings: both are at 0x2000.
LEMMA StringReads ==
  ASSUME TablesInv, TlbInv, T!Step, v6 \in 4 * E + 19 .. 4 * E + 20
  PROVE  TablesInv' /\ (~v1 /\ FollowInv => v7' \subseteq {T!Shared})
<1>1. /\ v6 \in Nat /\ E \in Nat /\ E >= 16 /\ (v6 = 4 * E + 19 \/ v6 = 4 * E + 20)
      /\ v6 >= 4 * E + 17 /\ v6 >= 4 * E + 19
  <2>1. v6 \in Nat /\ E \in Nat /\ E >= 16
    BY Counts4, Scale
  <2> QED
    BY <2>1, SMT
<1>2. \E t \in {T!v1, T!v2} : T!tp[v6] = T!Op("read", t, 0, 0)
  BY <1>1, Text4
<1>3. PICK t \in {T!v1, T!v2} : T!tp[v6].op = "read" /\ T!tp[v6].at = t
  BY <1>2, OpHas
<1>4. v2' = v2 /\ (v4' <=> v4) /\ v7' = v7 \union {T!Translation(t).pfn}
  BY <1>3, StepIs
<1>5. v4' <=> v6 + 1 >= On
  <2>1. v6 >= On /\ v6 + 1 >= On
    BY <1>1, SMT DEF On
  <2> QED
    BY <1>4, <2>1 DEF TablesInv
<1>6. ASSUME ~v1, FollowInv
      PROVE  v7' \subseteq {T!Shared}
  <2>1. v7 \subseteq {T!Shared}
    BY <1>6 DEF FollowInv
  <2>2. T!Translation(t).pfn = T!Shared
    BY <1>1, <1>3, <1>6, Goes4
  <2> QED
    BY <1>4, <2>1, <2>2
<1> QED
  BY <1>4, <1>5, <1>6, NoWrite

\* Q9 clears the directory's first entry, or, with an old translation, no table.
LEMMA LastStep ==
  ASSUME TablesInv, TlbInv, T!Step, v6 = 4 * E + 21
  PROVE  /\ TablesInv' /\ v7' = v7
         /\ ~v1 /\ FollowInv => v2'[T!pgd][0] = T!T!Zero
<1> DEFINE i == 3 * T!MB
           f == T!Translation(T!target).pfn
<1>1. /\ v6 \in Nat /\ E \in Nat /\ E >= 16 /\ v6 > 4 * E + 12
      /\ 0 \in 0 .. E - 1 /\ 1 \in 0 .. E - 1 /\ i \in 0 .. E - 1 /\ i # 0 /\ 1 # 0
      /\ T!pgd \in T!Tables /\ 9 * T!MB \notin T!Tables
  <2>1. v6 \in Nat /\ E \in Nat /\ E >= 16
    BY Counts4, Scale
  <2>2. v6 > 4 * E + 12
    BY <2>1, SMT
  <2> QED
    BY <2>1, <2>2, Watched4, Places4
<1>2. T!tp[v6].op = "store" /\ T!tp[v6].at = T!target /\ T!tp[v6].i = 0
  <2>1. T!tp[v6] = T!Op("store", T!target, 0, 0)
    BY Text4
  <2> QED
    BY <2>1, OpHas
<1>3. v2' = T!Put(f, 0, T!T!Zero) /\ (v4' <=> v4) /\ v7' = v7
  BY <1>2, StepIs
<1>4. f \in {9 * T!MB, T!pgd} /\ (~v1 /\ FollowInv => f = T!pgd)
  BY <1>1, Goes4
<1> HIDE DEF f
<1>5. v2 \in Mem4 /\ PgdHas(v6, v2[T!pgd]) /\ T!T!Zero \in PgEntry
  BY KOf DEF TablesInv
<1>6. CASE f = T!pgd
  <2> DEFINE n == [v2 EXCEPT ![T!pgd][0] = T!T!Zero]
  <2>1. v2' = n
    BY <1>1, <1>3, <1>6 DEF T!Put
  <2>2. /\ n \in Mem4 /\ n[T!pgd][0] = T!T!Zero
        /\ \A j \in 0 .. E - 1 : j # 0 => n[T!pgd][j] = v2[T!pgd][j]
        /\ \A u \in T!Tables : u # T!pgd => n[u] = v2[u]
    BY <1>1, <1>5, Put4
  <2> HIDE DEF n
  <2>3. PgdHas(v6 + 1, n[T!pgd])
    <3> DEFINE t == v2[T!pgd]
               p == n[T!pgd]
    <3>1. p[0] = T!T!Zero /\ p[1] = t[1] /\ p[i] = t[i] /\ PgdHas(v6, t)
      BY <1>1, <1>5, <2>2
    <3> HIDE DEF t, p
    <3>2. PgdHas(v6 + 1, p)
      BY <1>1, <3>1, SMT DEF PgdHas, Last4, i
    <3> QED
      BY <3>2 DEF p
  <2> QED
    BY <1>3, <2>1, <2>2, <2>3, PgdStep
<1>7. CASE f = 9 * T!MB
  <2>1. v2' = v2
    BY <1>1, <1>3, <1>7 DEF T!Put
  <2>2. PgdHas(v6 + 1, v2[T!pgd])
    <3> DEFINE t == v2[T!pgd]
    <3>1. PgdHas(v6, t)
      BY <1>5
    <3> HIDE DEF t
    <3>2. PgdHas(v6 + 1, t)
      BY <1>1, <3>1, SMT DEF PgdHas, Last4
    <3> QED
      BY <3>2 DEF t
  <2>3. T!pgd # 9 * T!MB
    BY <1>1
  <2> QED
    BY <1>3, <1>4, <1>5, <1>7, <2>1, <2>2, <2>3, PgdStep
<1> QED
  BY <1>4, <1>6, <1>7

\* The steps of tp4's program.
LEMMA TablesStep ==
  ASSUME TablesInv, TlbInv, T!Step
  PROVE  /\ TablesInv'
         /\ ~v1 /\ FollowInv => /\ v7' \subseteq {T!Shared}
                                /\ v6' > Last4 => v2'[T!pgd][0] = T!T!Zero
<1>1. v6 \in Nat /\ v6 >= 1 /\ v6 <= 4 * E + 21 /\ v6' = v6 + 1 /\ E \in Nat /\ E >= 16
  BY Counts4, Scale
<1>2. \/ v6 = 1 \/ (\E i \in 0 .. E - 1 : v6 \in {2 * i + 2, 2 * i + 3})
      \/ v6 \in 2 * E + 2 .. 2 * E + 4
      \/ \E i \in 0 .. E - 1 : v6 \in {2 * E + 2 * i + 5, 2 * E + 2 * i + 6}
      \/ v6 \in 4 * E + 5 .. 4 * E + 6 \/ v6 = 4 * E + 7 \/ v6 \in 4 * E + 8 .. 4 * E + 10
      \/ v6 \in 4 * E + 11 .. 4 * E + 12 \/ v6 \in 4 * E + 13 .. 4 * E + 14
      \/ v6 = 4 * E + 15 \/ v6 = 4 * E + 16 \/ v6 = 4 * E + 17 \/ v6 = 4 * E + 18
      \/ v6 \in 4 * E + 19 .. 4 * E + 20 \/ v6 = 4 * E + 21
  <2>1. CASE v6 \in 2 .. 2 * E + 1
    <3> DEFINE i == (v6 - 2) \div 2
    <3>1. i \in 0 .. E - 1 /\ v6 \in {2 * i + 2, 2 * i + 3}
      BY <1>1, <2>1, SMT
    <3> QED
      BY <3>1
  <2>2. CASE v6 \in 2 * E + 5 .. 4 * E + 4
    <3> DEFINE i == (v6 - (2 * E + 5)) \div 2
    <3>1. i \in 0 .. E - 1 /\ v6 \in {2 * E + 2 * i + 5, 2 * E + 2 * i + 6}
      BY <1>1, <2>2, SMT
    <3> QED
      BY <3>1
  <2>3. CASE v6 \notin 2 .. 2 * E + 1 /\ v6 \notin 2 * E + 5 .. 4 * E + 4
    BY <1>1, <2>3, SMT
  <2> QED
    BY <2>1, <2>2, <2>3
<1>3. v6 # 4 * E + 21 => ~(v6' > Last4)
  BY <1>1, SMT DEF Last4
<1>4. ~v1 /\ FollowInv => v7 \subseteq {T!Shared}
  BY DEF FollowInv
<1>5. CASE v6 \in 4 * E + 15 .. 4 * E + 18
  <2>1. CASE v6 = 4 * E + 15 \/ v6 = 4 * E + 16
    <3>1. 3 * T!MB # E - 1 /\ 4 * E + 15 + 1 = 4 * E + 16
      BY <1>1, Watched4, SMT
    <3> DEFINE s == 4 * E + 15
               i == 3 * T!MB
    <3>2. /\ i \in {3 * T!MB, E - 1} /\ s = (IF i = E - 1 THEN 4 * E + 17 ELSE 4 * E + 15)
          /\ v6 = s \/ v6 = s + 1
      BY <2>1, <3>1
    <3> HIDE DEF s, i
    <3> QED
      BY <1>1, <1>3, <1>4, <2>1, <3>2, SharedStep
  <2>2. CASE v6 = 4 * E + 17 \/ v6 = 4 * E + 18
    <3>1. 4 * E + 17 + 1 = 4 * E + 18
      BY <1>1, SMT
    <3> DEFINE s == 4 * E + 17
               i == E - 1
    <3>2. /\ i \in {3 * T!MB, E - 1} /\ s = (IF i = E - 1 THEN 4 * E + 17 ELSE 4 * E + 15)
          /\ v6 = s \/ v6 = s + 1
      BY <2>2, <3>1
    <3> HIDE DEF s, i
    <3> QED
      BY <1>1, <1>3, <1>4, <2>2, <3>2, SharedStep
  <2> QED
    BY <1>1, <1>5, <2>1, <2>2, SMT
<1>6. CASE v6 \notin 4 * E + 15 .. 4 * E + 18 /\ v6 \notin 4 * E + 19 .. 4 * E + 20
           /\ v6 # 4 * E + 21
  <2>1. v6 # 4 * E + 15 /\ v6 # 4 * E + 16 /\ v6 # 4 * E + 17 /\ v6 # 4 * E + 18
    BY <1>1, <1>6, SMT
  <2>2. TablesInv' /\ v7' = v7
    BY <1>2, <1>6, <2>1, FirstStep, PtbStep, PgdFirst, LoopStep, PgdSecond, PagingStep,
       ThirdTable, PgdThird, TableReads, Zenon
  <2> QED
    BY <1>3, <1>4, <1>6, <2>2
<1>7. CASE v6 \in 4 * E + 19 .. 4 * E + 20
  <2>1. v6 # 4 * E + 21
    BY <1>1, <1>7, SMT
  <2> QED
    BY <1>3, <1>7, <2>1, StringReads
<1>8. CASE v6 = 4 * E + 21
  BY <1>4, <1>8, LastStep
<1> QED
  BY <1>5, <1>6, <1>7, <1>8

-----------------------------------------------------------------------------
(* What the processor caches *)

\* Every translation cached is an old one or the walk of a page that is used, or, when the
\* processor runs ahead, of any.
Recent ==
    /\ v5' \in [T!Watched -> PgEntry]
    /\ \A w \in T!Watched :
          \/ v5'[w] = v5[w] \/ v5'[w] = T!T!Zero
          \/ /\ v4 /\ v5'[w] = T!T!Walk(v2, v3, w)
             /\ v1 \/ w \in T!Kernel \/ (w = T!tp[v6].at /\ v6 <= Last4 /\ v6' = v6 + 1)

LEMMA WatchedWalks ==
  ASSUME TablesInv, v4, NEW w \in T!Watched
  PROVE  T!T!Walk(v2, v3, w) \in PgEntry
<1>1. /\ v2 \in Mem4 /\ v6 >= On /\ v3 = T!pgd /\ T!pgd \in T!Tables
  <2>1. v6 >= On /\ (v6 > 1 => v3 = T!pgd) /\ v6 \in 1 .. Last4 + 1
    BY DEF TablesInv
  <2>2. v6 > 1
    BY <2>1, Scale, SMT DEF On, Last4
  <2> QED
    BY <2>1, <2>2, Places4 DEF TablesInv
<1>2. T!T!pd32_get_idx(w) \in 0 .. E - 1 /\ T!T!pt32_get_idx(w) \in 0 .. E - 1
  <2>1. w \in Kept \/ w \in {T!target, T!v1, T!v2}
    BY DEF T!Watched, Kept
  <2>2. CASE w \in Kept
    BY <2>2, Watched4
  <2>3. CASE w \in {T!target, T!v1, T!v2}
    BY <2>3, Watched4
  <2> QED
    BY <2>1, <2>2, <2>3
<1>3. v3 \in T!Tables
  BY <1>1
<1> QED
  BY <1>1, <1>2, <1>3, WalkType

LEMMA UsingRecent ==
  ASSUME TablesInv, TlbInv, v5' = T!Using, v6 <= Last4 => v6' = v6 + 1
  PROVE  Recent
<1>1. v5' = [w \in T!Watched |-> IF v4 /\ w \in T!Needed THEN T!Translation(w) ELSE v5[w]]
  BY DEF T!Using
<1>2. \A w \in T!Watched : v4 => \/ T!Translation(w) = v5[w]
                                 \/ T!Translation(w) = T!T!Walk(v2, v3, w)
  BY DEF T!Translation, T!Cached
<1>3. \A w \in T!Watched : v5[w] \in PgEntry
  BY DEF TlbInv
<1>4. \A w \in T!Watched : \/ v5'[w] = v5[w]
                           \/ v4 /\ w \in T!Needed /\ v5'[w] = T!T!Walk(v2, v3, w)
  BY <1>1, <1>2
<1>5. \A w \in T!Watched : v5'[w] \in PgEntry
  BY <1>3, <1>4, WatchedWalks
<1>6. v5' \in [T!Watched -> PgEntry]
  BY <1>1, <1>5
<1>7. \A w \in T!Needed : w \in T!Kernel \/ (w = T!tp[v6].at /\ v6 <= Last4)
  BY Text4 DEF T!Needed
<1> QED
  BY <1>4, <1>6, <1>7 DEF Recent

LEMMA NextRecent ==
  ASSUME TablesInv, TlbInv, T!Next
  PROVE  Recent
<1>1. CASE T!Fault
  BY <1>1 DEF T!Fault, TlbInv, Recent
<1>2. CASE T!Step
  BY <1>2, StepIs, UsingRecent
<1>3. CASE T!RunOn
  <2>1. v5' = T!Using /\ v6 > Last4 /\ v6 \in Nat
    BY <1>3, Text4 DEF T!RunOn, TablesInv
  <2>2. ~(v6 <= Last4)
    BY <2>1, Scale, SMT DEF Last4
  <2> QED
    BY <2>1, <2>2, UsingRecent
<1>4. ASSUME NEW w \in T!Watched, T!Evict(w)
      PROVE  Recent
  <2>1. v5' = [v5 EXCEPT ![w] = T!T!Zero] /\ v5 \in [T!Watched -> PgEntry]
    BY <1>4 DEF T!Evict, TlbInv
  <2> QED
    BY <2>1, KOf DEF Recent
<1>5. ASSUME NEW w \in T!Watched, T!Speculate(w)
      PROVE  Recent
  <2>1. v5' = [v5 EXCEPT ![w] = T!T!Walk(v2, v3, w)] /\ v5 \in [T!Watched -> PgEntry] /\ v1 /\ v4
    BY <1>5 DEF T!Speculate, TlbInv
  <2>2. T!T!Walk(v2, v3, w) \in PgEntry
    BY <2>1, WatchedWalks
  <2> DEFINE x == T!T!Walk(v2, v3, w)
  <2>3. v5' = [v5 EXCEPT ![w] = x] /\ x \in PgEntry
    BY <2>1, <2>2
  <2>4. \A u \in T!Watched : v5'[u] = v5[u] \/ (u = w /\ v5'[u] = T!T!Walk(v2, v3, u))
    BY <2>1
  <2> HIDE DEF x
  <2>5. v5' \in [T!Watched -> PgEntry]
    BY <2>1, <2>3
  <2> QED
    BY <2>1, <2>4, <2>5 DEF Recent
<1> QED
  BY <1>1, <1>2, <1>3, <1>4, <1>5 DEF T!Next

\* Paging, once on, stays on; the counter is never set back.
LEMMA Onward4 ==
  ASSUME TablesInv, TlbInv, T!Next
  PROVE  /\ v1' = v1 /\ (v4 => v4')
         /\ v6' = v6 \/ (v6' = v6 + 1 /\ T!Step)
         /\ ~T!Step => UNCHANGED <<v2, v3, v4, v6, v7>>
<1>1. CASE T!Step
  BY <1>1, StepIs
<1>2. CASE ~T!Step
  BY <1>2 DEF T!Next, T!Fault, T!RunOn, T!Evict, T!Speculate
<1> QED
  BY <1>1, <1>2

LEMMA TlbNext ==
  ASSUME TablesInv, TlbInv, T!Next
  PROVE  TlbInv'
<1>1. Recent /\ (v4 => v4')
  BY NextRecent, Onward4
<1>2. v4 => v6 >= On
  BY DEF TablesInv
<1>3. ~v4' => \A w \in T!Watched : ~v5'[w].p
  BY <1>1, KOf DEF Recent, TlbInv
<1>4. ASSUME NEW w \in Kept, v5'[w].p
      PROVE  v5'[w] = K(w)
  <2>1. w \in T!Watched
    BY DEF Kept, T!Watched
  <2>2. v5[w].p => v5[w] = K(w)
    BY DEF TlbInv
  <2>3. v4 => (T!T!Walk(v2, v3, w).p => T!T!Walk(v2, v3, w) = K(w))
    BY <1>2, KeptWalk
  <2> QED
    BY <1>1, <1>4, <2>1, <2>2, <2>3, KOf DEF Recent
<1>5. v5'[T!target].p => v5'[T!target] \in {K(9 * T!MB), K(T!pgd)}
  <2>1. T!target \in T!Watched
    BY DEF T!Watched
  <2>2. v5[T!target].p => v5[T!target] \in {K(9 * T!MB), K(T!pgd)}
    BY DEF TlbInv
  <2>3. v4 => (T!T!Walk(v2, v3, T!target).p =>
                    T!T!Walk(v2, v3, T!target) \in {K(9 * T!MB), K(T!pgd)})
    BY <1>2, TargetWalk
  <2> QED
    BY <1>1, <2>1, <2>2, <2>3, KOf DEF Recent
<1> QED
  BY <1>1, <1>3, <1>4, <1>5 DEF TlbInv, Recent

\* What each step with paging on accesses.
LEMMA Accessed4 ==
  ASSUME NEW k \in Nat, k >= On, k <= Last4
  PROVE  \/ T!tp[k].at \in {T!pgd, T!ptb2, T!ptb3}
         \/ T!tp[k].at = T!target /\ (k = 4 * E + 14 \/ k = 4 * E + 21)
         \/ T!tp[k].at = T!v1 /\ k = 4 * E + 19
         \/ T!tp[k].at = T!v2 /\ k = 4 * E + 20
<1>1. \/ k = 4 * E + 8 \/ k = 4 * E + 9 \/ k = 4 * E + 10 \/ k = 4 * E + 11 \/ k = 4 * E + 12
      \/ k = 4 * E + 13 \/ k = 4 * E + 14 \/ k = 4 * E + 15 \/ k = 4 * E + 16
      \/ k = 4 * E + 17 \/ k = 4 * E + 18 \/ k = 4 * E + 19 \/ k = 4 * E + 20
      \/ k = 4 * E + 21
  BY Scale, SMT DEF On, Last4
<1>2. /\ T!tp[4 * E + 8].at = T!ptb3 /\ T!tp[4 * E + 9].at = T!ptb3
      /\ T!tp[4 * E + 10].at = T!ptb3 /\ T!tp[4 * E + 11].at = T!pgd
      /\ T!tp[4 * E + 12].at = T!pgd /\ T!tp[4 * E + 13].at = T!pgd
      /\ T!tp[4 * E + 14].at = T!target /\ T!tp[4 * E + 15].at = T!ptb2
      /\ T!tp[4 * E + 16].at = T!ptb2 /\ T!tp[4 * E + 17].at = T!ptb2
      /\ T!tp[4 * E + 18].at = T!ptb2 /\ T!tp[4 * E + 19].at = T!v1
      /\ T!tp[4 * E + 20].at = T!v2 /\ T!tp[4 * E + 21].at = T!target
  BY Text4, OpHas
<1> QED
  BY <1>1, <1>2

LEMMA Apart4 ==
  /\ T!target \notin Kept /\ T!v1 \notin Kept /\ T!v2 \notin Kept
  /\ T!target # T!v1 /\ T!target # T!v2 /\ T!v1 # T!v2
<1>1. T!target > 2 * E
  <2>1. \A m \in Nat, e \in Nat : m >= 4 => e * m >= e * 4 /\ e * m \in Nat
    BY SMT
  <2>2. E * T!MB >= E * 4 /\ E * T!MB \in Nat
    BY <2>1, Scale
  <2> DEFINE a == E * T!MB
  <2>3. a \in Nat /\ a >= E * 4 /\ T!target > a /\ T!target \in Nat /\ E \in Nat
    BY <2>2, Scale
  <2> HIDE DEF a
  <2> QED
    BY <2>3, SMT
<1>2. /\ T!v1 < 2 * E /\ T!v2 < 2 * E /\ T!v1 # T!v2
      /\ T!v1 > T!ptb3 /\ T!v2 > T!ptb3 /\ T!ptb3 < 2 * E /\ T!ptb3 > T!ptb2 /\ T!ptb2 > T!pgd
      /\ T!pgd > 3 * T!MB + 1
  BY Scale, SMT
<1>3. \A w \in Kept : w <= T!ptb3 /\ w \in Nat
  BY <1>2, Scale, Watched4, SMT DEF Kept
<1>4. /\ T!target \in Nat /\ T!v1 \in Nat /\ T!v2 \in Nat /\ T!ptb3 \in Nat /\ E \in Nat
  BY Scale, Numbers4
<1>5. T!target # T!v1 /\ T!target # T!v2 /\ T!target > T!ptb3
  BY <1>1, <1>2, <1>4, SMT
<1>6. \A w \in Kept : w # T!target /\ w # T!v1 /\ w # T!v2
  BY <1>2, <1>3, <1>4, <1>5, SMT
<1> QED
  BY <1>2, <1>5, <1>6

\* No page is needed, until Q9, that is not mapped or cached.
LEMMA ServedUntil ==
  ASSUME TablesInv, TlbInv, v6 <= Last4
  PROVE  T!Served
<1> SUFFICES ASSUME NEW w \in T!Needed
             PROVE  T!Translation(w).p
  BY DEF T!Served
<1>1. CASE ~v4
  BY <1>1, KOf DEF T!Translation, K
<1>2. CASE v4
  <2>1. v6 \in Nat /\ v6 >= On /\ E \in Nat
    BY <1>2, Scale DEF TablesInv
  <2>2. w \in T!Kernel \/ w = T!tp[v6].at
    BY DEF T!Needed
  <2>3. T!T!Walk(v2, v3, w).p
    <3>1. w \in Kept \/ (w = T!target /\ v6 > 4 * E + 12) \/ w \in {T!v1, T!v2}
      <4>1. v6 = 4 * E + 14 \/ v6 = 4 * E + 21 => v6 > 4 * E + 12
        BY <2>1, SMT
      <4>2. CASE w \in T!Kernel
        BY <4>2 DEF Kept
      <4>3. CASE w = T!tp[v6].at
        BY <2>1, <4>1, <4>3, Accessed4 DEF Kept
      <4> QED
        BY <2>2, <4>2, <4>3
    <3>2. CASE w \in Kept
      BY <2>1, <3>2, KeptWalk, KOf
    <3>3. CASE w = T!target /\ v6 > 4 * E + 12
      BY <2>1, <3>3, TargetWalk, KOf
    <3>4. CASE w \in {T!v1, T!v2}
      BY <2>1, <3>4, StringsWalk
    <3> QED
      BY <3>1, <3>2, <3>3, <3>4
  <2> QED
    BY <1>2, <2>3 DEF T!Translation, T!Cached
<1> QED
  BY <1>1, <1>2 DEF TablesInv

LEMMA FaultNext ==
  ASSUME TablesInv, TlbInv, FaultInv, T!Next
  PROVE  FaultInv' /\ v8' \in BOOLEAN
<1>1. CASE T!Fault
  <2>1. ~T!Served /\ UNCHANGED <<v5, v6>> /\ v8' = TRUE
    BY <1>1 DEF T!Fault
  <2>2. v6 > Last4 /\ v6 \in Nat /\ v6 >= On
    <3>1. ~(v6 <= Last4)
      BY <2>1, ServedUntil
    <3> QED
      BY <3>1, Scale, SMT DEF TablesInv, Last4, On
  <2>3. v4
    BY <2>2 DEF TablesInv
  <2>4. T!Needed = T!Kernel
    <3>1. ~(v6 <= Len(T!tp))
      BY <2>2, Text4, Scale, SMT DEF Last4
    <3> QED
      BY <3>1 DEF T!Needed
  <2>5. PICK w \in T!Kernel : ~T!Translation(w).p
    BY <2>1, <2>4 DEF T!Served
  <2>6. ~v5[w].p
    BY <2>3, <2>5 DEF T!Translation, T!Cached, T!Watched
  <2> QED
    BY <2>1, <2>2, <2>6 DEF FaultInv
<1>2. CASE ~T!Fault
  <2>1. ~v8 /\ v8' = v8
    BY <1>2 DEF T!Next, T!Step, T!RunOn, T!Evict, T!Speculate
  <2> QED
    BY <2>1 DEF FaultInv, TablesInv
<1> QED
  BY <1>1, <1>2

LEMMA FollowNext ==
  ASSUME TablesInv, TlbInv, FollowInv, T!Next
  PROVE  FollowInv'
<1> SUFFICES ASSUME ~v1'
             PROVE  /\ v5'[T!target].p => v6' > 4 * E + 14 /\ v5'[T!target] = K(T!pgd)
                    /\ v5'[T!v1].p => v6' > 4 * E + 19 /\ v5'[T!v1] = K(T!Shared)
                    /\ v5'[T!v2].p => v6' > 4 * E + 20 /\ v5'[T!v2] = K(T!Shared)
                    /\ v7' \subseteq {T!Shared}
                    /\ v6' > Last4 => v2'[T!pgd][0] = T!T!Zero
  BY DEF FollowInv
<1>1. /\ v1' = v1 /\ ~v1 /\ Recent /\ E \in Nat /\ v6 \in Nat
      /\ v6' = v6 \/ (v6' = v6 + 1 /\ T!Step)
      /\ ~T!Step => UNCHANGED <<v2, v3, v4, v6, v7>>
  BY Onward4, NextRecent, Scale DEF TablesInv
<1>2. /\ v5[T!target].p => v6 > 4 * E + 14 /\ v5[T!target] = K(T!pgd)
      /\ v5[T!v1].p => v6 > 4 * E + 19 /\ v5[T!v1] = K(T!Shared)
      /\ v5[T!v2].p => v6 > 4 * E + 20 /\ v5[T!v2] = K(T!Shared)
      /\ v7 \subseteq {T!Shared}
      /\ v6 > Last4 => v2[T!pgd][0] = T!T!Zero
  BY <1>1 DEF FollowInv
<1>3. /\ v6 > 4 * E + 14 => v6' > 4 * E + 14
      /\ v6 > 4 * E + 19 => v6' > 4 * E + 19
      /\ v6 > 4 * E + 20 => v6' > 4 * E + 20
  BY <1>1, SMT
<1>4. ASSUME NEW w \in {T!target, T!v1, T!v2}, v5'[w].p, v5'[w] # v5[w]
      PROVE  /\ v5'[w] = T!T!Walk(v2, v3, w) /\ w = T!tp[v6].at
             /\ v6 >= On /\ v6 <= Last4 /\ v6' = v6 + 1
  <2>1. w \in T!Watched /\ w \notin T!Kernel
    BY Apart4 DEF T!Watched, Kept
  <2>2. v4 => v6 >= On
    BY DEF TablesInv
  <2> QED
    BY <1>1, <1>4, <2>1, <2>2, KOf DEF Recent
<1>5. v5'[T!target].p => v6' > 4 * E + 14 /\ v5'[T!target] = K(T!pgd)
  <2>1. CASE v5'[T!target] = v5[T!target]
    BY <1>2, <1>3, <2>1
  <2>2. CASE v5'[T!target] # v5[T!target] /\ v5'[T!target].p
    <3>1. /\ v5'[T!target] = T!T!Walk(v2, v3, T!target) /\ T!target = T!tp[v6].at
          /\ v6 >= On /\ v6 <= Last4 /\ v6' = v6 + 1
      BY <1>4, <2>2
    <3>2. v6 = 4 * E + 14 \/ v6 = 4 * E + 21
      BY <1>1, <3>1, Accessed4, Apart4 DEF Kept
    <3>3. v6 > 4 * E + 12 /\ v6' > 4 * E + 14
      BY <1>1, <3>1, <3>2, SMT
    <3> QED
      BY <3>1, <3>3, TargetWalk
  <2> QED
    BY <2>1, <2>2
<1>6. v5'[T!v1].p => v6' > 4 * E + 19 /\ v5'[T!v1] = K(T!Shared)
  <2>1. CASE v5'[T!v1] = v5[T!v1]
    BY <1>2, <1>3, <2>1
  <2>2. CASE v5'[T!v1] # v5[T!v1] /\ v5'[T!v1].p
    <3>1. /\ v5'[T!v1] = T!T!Walk(v2, v3, T!v1) /\ T!v1 = T!tp[v6].at
          /\ v6 >= On /\ v6 <= Last4 /\ v6' = v6 + 1
      BY <1>4, <2>2
    <3>2. v6 = 4 * E + 19
      BY <1>1, <3>1, Accessed4, Apart4 DEF Kept
    <3>3. v6 >= 4 * E + 17 /\ v6' > 4 * E + 19
      BY <1>1, <3>1, <3>2, SMT
    <3> QED
      BY <3>1, <3>3, StringsWalk
  <2> QED
    BY <2>1, <2>2
<1>7. v5'[T!v2].p => v6' > 4 * E + 20 /\ v5'[T!v2] = K(T!Shared)
  <2>1. CASE v5'[T!v2] = v5[T!v2]
    BY <1>2, <1>3, <2>1
  <2>2. CASE v5'[T!v2] # v5[T!v2] /\ v5'[T!v2].p
    <3>1. /\ v5'[T!v2] = T!T!Walk(v2, v3, T!v2) /\ T!v2 = T!tp[v6].at
          /\ v6 >= On /\ v6 <= Last4 /\ v6' = v6 + 1
      BY <1>4, <2>2
    <3>2. v6 = 4 * E + 20
      BY <1>1, <3>1, Accessed4, Apart4 DEF Kept
    <3>3. v6 >= 4 * E + 19 /\ v6' > 4 * E + 20
      BY <1>1, <3>1, <3>2, SMT
    <3> QED
      BY <3>1, <3>3, StringsWalk
  <2> QED
    BY <2>1, <2>2
<1>8. v7' \subseteq {T!Shared} /\ (v6' > Last4 => v2'[T!pgd][0] = T!T!Zero)
  BY <1>1, <1>2, TablesStep
<1> QED
  BY <1>5, <1>6, <1>7, <1>8

-----------------------------------------------------------------------------
(* tp4, whole *)

LEMMA Tp4Begin ==
  ASSUME T!Init
  PROVE  Tp4Inv
<1>1. PICK j \in {T!T!Zero, T!Junk} : v2 = [f \in T!Tables |-> [i \in 0 .. E - 1 |-> j]]
  BY DEF T!Init
<1>2. /\ v1 \in BOOLEAN /\ v3 = 0 /\ v4 = FALSE /\ v6 = 1 /\ v7 = {} /\ v8 = FALSE
      /\ v5 = [w \in T!Watched |-> T!T!Zero]
  BY DEF T!Init
<1>3. j \in PgEntry /\ j \in {T!T!Zero, K(9 * T!MB)}
  <2>1. T!Junk = K(9 * T!MB)
    BY DEF T!Junk, K
  <2> QED
    BY <2>1, KOf, Places4
<1>4. v2 \in Mem4 /\ v2[0][0] = j
  BY <1>1, <1>3, Places4, Watched4 DEF Mem4
<1>5. /\ 1 \in 1 .. Last4 + 1 /\ ~(1 >= On) /\ ~(1 > Last4)
      /\ \A t : PtbHas(1, t) /\ PgdHas(1, t) /\ Ptb2Has(1, t) /\ Ptb3Has(1, t)
  <2>1. E \in Nat /\ E >= 16
    BY Scale
  <2>2. 1 \in 1 .. Last4 + 1 /\ ~(1 >= On) /\ ~(1 > Last4)
    BY <2>1, SMT DEF On, Last4
  <2>3. \A i \in 0 .. E - 1 : ~(1 >= 2 * i + 4) /\ ~(1 >= 2 * E + 2 * i + 7)
    BY <2>1, SMT
  <2>4. \A t : PtbHas(1, t) /\ Ptb2Has(1, t)
    BY <2>3 DEF PtbHas, Ptb2Has
  <2>5. \A t : PgdHas(1, t)
    BY <2>1, SMT DEF PgdHas, Last4
  <2>6. \A t : Ptb3Has(1, t)
    BY <2>1, SMT DEF Ptb3Has
  <2> QED
    BY <2>2, <2>4, <2>5, <2>6
<1>6. TablesInv
  <2>1. ~(1 > 1)
    OBVIOUS
  <2> QED
    BY <1>2, <1>3, <1>4, <1>5, <2>1 DEF TablesInv
<1>7. v5 \in [T!Watched -> PgEntry] /\ \A w \in T!Watched : ~v5[w].p
  BY <1>2, KOf
<1>8. /\ T!target \in T!Watched /\ T!v1 \in T!Watched /\ T!v2 \in T!Watched
      /\ Kept \subseteq T!Watched
  BY DEF T!Watched, Kept
<1>9. TlbInv
  BY <1>7, <1>8 DEF TlbInv
<1>10. FollowInv
  BY <1>2, <1>5, <1>7, <1>8 DEF FollowInv
<1> QED
  BY <1>2, <1>6, <1>9, <1>10 DEF Tp4Inv, FaultInv

LEMMA Tp4Next ==
  ASSUME Tp4Inv, T!Next
  PROVE  Tp4Inv'
<1>1. TablesInv /\ TlbInv /\ FollowInv /\ FaultInv
  BY DEF Tp4Inv
<1>2. TlbInv' /\ FollowInv' /\ FaultInv' /\ v8' \in BOOLEAN
  BY <1>1, TlbNext, FollowNext, FaultNext
<1>3. TablesInv'
  <2>1. CASE T!Step
    BY <1>1, <2>1, TablesStep
  <2>2. CASE ~T!Step
    <3>1. UNCHANGED <<v2, v3, v4, v6, v7>> /\ v1' = v1 /\ v8' \in BOOLEAN
      BY <1>1, <1>2, <2>2, Onward4
    <3>2. /\ PtbHas(v6, v2[T!ptb])' /\ PgdHas(v6, v2[T!pgd])'
          /\ Ptb2Has(v6, v2[T!ptb2])' /\ Ptb3Has(v6, v2[T!ptb3])'
      BY <1>1, <3>1 DEF TablesInv, PtbHas, PgdHas, Ptb2Has, Ptb3Has, Ptb2At, Changed
    <3> QED
      BY <1>1, <3>1, <3>2 DEF TablesInv
  <2> QED
    BY <2>1, <2>2
<1> QED
  BY <1>2, <1>3 DEF Tp4Inv

LEMMA Tp4Stutter ==
  ASSUME Tp4Inv, UNCHANGED pool
  PROVE  Tp4Inv'
<1>1. UNCHANGED <<v1, v2, v3, v4, v5, v6, v7, v8>>
  BY DEF pool
<1>2. /\ PtbHas(v6, v2[T!ptb])' /\ PgdHas(v6, v2[T!pgd])'
      /\ Ptb2Has(v6, v2[T!ptb2])' /\ Ptb3Has(v6, v2[T!ptb3])'
  BY <1>1 DEF Tp4Inv, TablesInv, PtbHas, PgdHas, Ptb2Has, Ptb3Has, Ptb2At, Changed
<1>3. TablesInv'
  BY <1>1, <1>2 DEF Tp4Inv, TablesInv
<1>4. TlbInv'
  BY <1>1 DEF Tp4Inv, TlbInv
<1>5. FollowInv'
  BY <1>1 DEF Tp4Inv, FollowInv
<1>6. FaultInv'
  BY <1>1 DEF Tp4Inv, FaultInv
<1> QED
  BY <1>3, <1>4, <1>5, <1>6 DEF Tp4Inv

LEMMA Tp4Then ==
  ASSUME Tp4Inv
  PROVE  T!OnlyQ9Faults /\ T!Coherent
<1>1. TablesInv /\ TlbInv /\ FollowInv /\ FaultInv
  BY DEF Tp4Inv
<1>2. Len(T!tp) = Last4 /\ T!Cleared = (v6 > Last4) /\ E \in Nat /\ v6 \in Nat
  BY <1>1, Text4, Scale DEF T!Cleared, TablesInv
<1>3. T!OnlyQ9Faults
  <2>1. v8 => v6 > Last4 /\ \E w \in T!Kernel : ~v5[w].p
    BY <1>1 DEF FaultInv
  <2> QED
    BY <1>2, <2>1 DEF T!OnlyQ9Faults, T!Cached
<1>4. ASSUME ~v1
      PROVE  /\ v7 \subseteq {T!Shared}
             /\ T!Cleared => /\ v2[T!pgd][0] = T!T!Zero
                             /\ v2[T!pgd][1] = T!T!pg_set_entry(T!KRN_RW, T!ptb2)
                             /\ v2[T!pgd][T!T!pd32_get_idx(T!target)]
                                    = T!T!pg_set_entry(T!KRN_RW, T!ptb3)
             /\ ~T!Cleared =>
                    \A w \in T!Watched : T!Cached(w) => v5[w] = T!T!Walk(v2, v3, w)
  <2>1. v7 \subseteq {T!Shared} /\ (v6 > Last4 => v2[T!pgd][0] = T!T!Zero)
    BY <1>1, <1>4 DEF FollowInv
  <2>2. v6 > Last4 => v2[T!pgd][1] = K(T!ptb2) /\ v2[T!pgd][3 * T!MB] = K(T!ptb3)
    <3>1. v6 > Last4 => v6 >= 4 * E + 7 /\ v6 >= 4 * E + 13
      BY <1>2, SMT DEF Last4
    <3> QED
      BY <1>1, <3>1 DEF TablesInv, PgdHas
  <2>3. ASSUME ~(v6 > Last4), NEW w \in T!Watched, v5[w].p
        PROVE  v5[w] = T!T!Walk(v2, v3, w)
    <3>1. v6 <= Last4 /\ v4 /\ v6 >= On
      <4>1. v4
        BY <1>1, <2>3 DEF TlbInv, TablesInv
      <4>2. v6 <= Last4
        BY <1>2, <2>3, SMT DEF Last4
      <4> QED
        BY <1>1, <4>1, <4>2 DEF TablesInv
    <3>2. w \in Kept \/ w \in {T!target, T!v1, T!v2}
      BY DEF Kept, T!Watched
    <3>3. CASE w \in Kept
      BY <1>1, <2>3, <3>1, <3>3, KeptWalk DEF TlbInv
    <3>4. CASE w = T!target
      <4>1. v6 > 4 * E + 14 /\ v5[w] = K(T!pgd)
        BY <1>1, <1>4, <2>3, <3>4 DEF FollowInv
      <4>2. v6 > 4 * E + 12
        BY <1>2, <4>1, SMT
      <4> QED
        BY <1>1, <3>1, <3>4, <4>1, <4>2, TargetWalk
    <3>5. CASE w = T!v1
      <4>1. v6 > 4 * E + 19 /\ v5[w] = K(T!Shared)
        BY <1>1, <1>4, <2>3, <3>5 DEF FollowInv
      <4>2. v6 >= 4 * E + 17
        BY <1>2, <4>1, SMT
      <4> QED
        BY <1>1, <3>1, <3>5, <4>1, <4>2, StringsWalk
    <3>6. CASE w = T!v2
      <4>1. v6 > 4 * E + 20 /\ v5[w] = K(T!Shared)
        BY <1>1, <1>4, <2>3, <3>6 DEF FollowInv
      <4>2. v6 >= 4 * E + 19
        BY <1>2, <4>1, SMT
      <4> QED
        BY <1>1, <3>1, <3>6, <4>1, <4>2, StringsWalk
    <3> QED
      BY <3>2, <3>3, <3>4, <3>5, <3>6
  <2>4. T!T!pd32_get_idx(T!target) = 3 * T!MB
    BY Numbers4
  <2>5. \A w \in T!Watched : T!Cached(w) => v5[w].p
    BY DEF T!Cached
  <2> QED
    BY <1>2, <2>1, <2>2, <2>3, <2>4, <2>5 DEF K
<1>5. T!Coherent
  BY <1>4 DEF T!Coherent
<1> QED
  BY <1>3, <1>5

-----------------------------------------------------------------------------
(* The parts together *)

SetupInv ==
    /\ part = "line" => RegInv /\ ReadInv
    /\ part = "startup" => ChipInv /\ GateInv /\ EventInv
    /\ part = "segments" => SegInv
    /\ part = "tables" => Tp4Inv

LEMMA SetupBegin ==
  ASSUME SetupInit
  PROVE  SetupInv
<1>1. /\ part = "line" => L!Init
      /\ part = "startup" => S!Init
      /\ part = "segments" => G!Init
      /\ part = "tables" => T!Init
  BY DEF SetupInit
<1> QED
  BY <1>1, RegInit, ReadInit, ChipInit, GateInit, SegStart, Tp4Begin DEF SetupInv

\* The steps of a part are the only ones that change its variables.
LEMMA SetupSteps ==
  ASSUME [SetupNext]_<<part, vars, pool>>
  PROVE  /\ part' = part
         /\ part = "line" => L!Next \/ UNCHANGED pool
         /\ part = "startup" => S!Next \/ UNCHANGED pool
         /\ part = "segments" => G!Next \/ UNCHANGED pool
         /\ part = "tables" => T!Next \/ UNCHANGED pool
         /\ [Next]_vars
  BY DEF SetupNext, StringStep, Start, Segments, Line, Tables, Write

LEMMA SetupGoesOn ==
  ASSUME SetupInv, [SetupNext]_<<part, vars, pool>>
  PROVE  SetupInv'
<1>1. part' = part
  BY SetupSteps
<1>2. CASE part = "line"
  <2>1. L!Next \/ UNCHANGED pool
    BY <1>2, SetupSteps
  <2>2. RegInv' /\ ReadInv'
    <3>1. CASE L!Next
      BY <1>2, <3>1, RegNext, ReadNext DEF SetupInv
    <3>2. CASE UNCHANGED pool
      <4>1. RegInv /\ ReadInv /\ UNCHANGED <<v1, v2, v3, v4, v5, v6, v7, v8, v9, v10, v11>>
        BY <1>2, <3>2 DEF SetupInv, pool
      <4> QED
        BY <4>1 DEF RegInv, ReadInv, Up, Under, Below
    <3> QED
      BY <2>1, <3>1, <3>2
  <2> QED
    BY <1>1, <1>2, <2>2 DEF SetupInv
<1>3. CASE part = "startup"
  <2>1. S!Next \/ UNCHANGED pool
    BY <1>3, SetupSteps
  <2>2. ChipInv' /\ GateInv' /\ EventInv'
    <3>1. CASE S!Next
      BY <1>3, <3>1, ChipNext, GateNext, EventNext DEF SetupInv
    <3>2. CASE UNCHANGED pool
      <4>1. ChipInv /\ GateInv /\ EventInv
            /\ UNCHANGED <<v1, v2, v3, v4, v5, v6, v7, v8, v9, v10>>
        BY <1>3, <3>2 DEF SetupInv, pool
      <4>2. ChipInv'
        BY <4>1 DEF ChipInv, ChipAt
      <4>3. GateInv'
        BY <4>1 DEF GateInv, GatesHold, GateTypes, GatesBuilt, GateWritten, Leads, S!Place
      <4>4. EventInv'
        BY <4>1 DEF EventInv, S!Place
      <4> QED
        BY <4>2, <4>3, <4>4
    <3> QED
      BY <2>1, <3>1, <3>2
  <2> QED
    BY <1>1, <1>3, <2>2 DEF SetupInv
<1>4. CASE part = "segments"
  <2>1. G!Next \/ UNCHANGED pool
    BY <1>4, SetupSteps
  <2>2. SegInv'
    BY <1>4, <2>1, SegStep, SegStutter DEF SetupInv
  <2> QED
    BY <1>1, <1>4, <2>2 DEF SetupInv
<1>5. CASE part = "tables"
  <2>1. T!Next \/ UNCHANGED pool
    BY <1>5, SetupSteps
  <2>2. Tp4Inv'
    BY <1>5, <2>1, Tp4Next, Tp4Stutter DEF SetupInv
  <2> QED
    BY <1>1, <1>5, <2>2 DEF SetupInv
<1>6. CASE part \notin {"line", "startup", "segments", "tables"}
  BY <1>1, <1>6 DEF SetupInv
<1> QED
  BY <1>2, <1>3, <1>4, <1>5, <1>6

THEOREM SetupInvariant == SetupSpec => []SetupInv
<1>1. SetupInit => SetupInv
  BY SetupBegin
<1>2. SetupInv /\ [SetupNext]_<<part, vars, pool>> => SetupInv'
  BY SetupGoesOn
<1> QED
  BY <1>1, <1>2, PTL DEF SetupSpec

\* The string functions of the composition are those of module Strings, so that what is
\* proved of them above holds here (string.h:50-122).
THEOREM StringsInSetup == SetupSpec => [](StoresExact /\ Searched)
<1>1. SetupInit => Init
  BY DEF SetupInit, NoString
<1>2. [SetupNext]_<<part, vars, pool>> => [Next]_vars
  BY SetupSteps
<1>3. SetupSpec => Spec
  BY <1>1, <1>2, PTL DEF SetupSpec, Spec
<1> QED
  BY <1>3, StoresExactly, SearchesFind, PTL

\* pic_init (pic.c), from the BIOS's vectors, lines masked or not, that call at any time:
\* when it returns the chips mask nothing, serve nothing, expect an end of interrupt,
\* and give IRQ i the vector 32 + i, through the cascade.
THEOREM ChipsAreReady == SetupSpec => []ControllersReady
<1>1. SetupInv => ControllersReady
  BY ChipsThen DEF SetupInv, ControllersReady
<1> QED
  BY <1>1, SetupInvariant, PTL

\* intr_init (intr.c), idt.s and the gate that tp2 or tp5 writes, wherever the linker
\* puts the trampolines and whatever handler is installed, but for the NMI's vector:
\* each gate leads to the trampoline of its vector, each line to the ends of interrupt
\* of its chips, the tp's int to the handler, in the midst of the writes too.
THEOREM GatesLeadOn == SetupSpec => []EventsLead
<1>1. SetupInv => EventsLead
  BY GatesThen DEF SetupInv, EventsLead
<1> QED
  BY <1>1, SetupInvariant, PTL

\* uart_init (uart.c), for a 16550 or a 16650 in each of the states a boot loader may
\* leave it in, whatever the stack held where fcr sets no bits, and bytes that arrive at
\* any time: the line ends at 115200 bauds, 8 bits, its interrupts and its FIFO off, and
\* nothing has been sent.
THEOREM LineIsSetUp == SetupSpec => []LineSetUp
<1>1. SetupInv => LineSetUp
  BY LineThen DEF SetupInv, LineSetUp
<1> QED
  BY <1>1, SetupInvariant, PTL

\* uart_read (uart.c), for any buffer, any number of bytes and a FIFO of any depth: at
\* most n bytes come out, each once, in the order they came in, and none that the flush
\* of uart_init took.
THEOREM LineReadOnce == SetupSpec => []ReadOnce
<1>1. SetupInv => ReadOnce
  BY ReadThen DEF SetupInv, ReadOnce
<1> QED
  BY <1>1, SetupInvariant, PTL

\* init_gdt, tp1, tp3, tp5 and the exam's init_tss (segmem.h, tp1/tp.c, tp3/tp.c, tp5/tp.c,
\* tp_exam/tp.c), with any number of NMIs, which may come before any instruction and in
\* the handlers of the others, by gates with GRUB's selector (intr.c:18): no load, jump,
\* string store or delivery faults while a tp runs, C code has flat segments, and every
\* selector still means the segment that was loaded with it.
THEOREM SegmentsStayUsable == SetupSpec => []SegmentsUsable
<1>1. SetupInv => SegmentsUsable
  BY SegThen DEF SetupInv, SegmentsUsable
<1> QED
  BY <1>1, SetupInvariant, PTL

\* idt.s and the iret of its handlers, through any nesting: the interrupted program, or
\* handler, has its segments and its stack pointer back and, but for tp3's ring 3, whose
\* stack is the kernel's too, every word of its stack.
THEOREM ContextsComeBack == SetupSpec => Restored
<1>1. SetupInv /\ [SetupNext]_<<part, vars, pool>> =>
          [part = "segments" => G!RestoredStep]_<<part, pool>>
  <2> SUFFICES ASSUME SetupInv, [SetupNext]_<<part, vars, pool>>
               PROVE  [part = "segments" => G!RestoredStep]_<<part, pool>>
    OBVIOUS
  <2>1. CASE part = "segments" /\ G!Next
    BY <2>1, RestoresAlways DEF SetupInv
  <2>2. CASE part # "segments"
    BY <2>2
  <2>3. CASE part = "segments" /\ UNCHANGED pool
    <3>1. part' = part
      BY SetupSteps
    <3> QED
      BY <2>3, <3>1
  <2> QED
    BY <2>1, <2>2, <2>3, SetupSteps
<1> QED
  BY <1>1, SetupInvariant, PTL DEF SetupSpec, Restored

\* tp4 (tp4/tp.c), for tables of any number of entries, whatever they held, with a
\* processor that caches only what it uses or anything the tables map: paging comes on and
\* the tables change through their own mapping without a fault until Q9's store, and then
\* only where the TLB has forgotten the kernel; with the first processor no translation in
\* use is stale, both strings are read at 0x2000, and Q9 clears the directory's first
\* entry and no other.
THEOREM TablesAreReached == SetupSpec => []TablesReached
<1>1. SetupInv => TablesReached
  BY Tp4Then DEF SetupInv, TablesReached
<1> QED
  BY <1>1, SetupInvariant, PTL
=============================================================================
