----------------------------- MODULE LoaderProof -----------------------------
(***************************************************************************)
(* What loadProgram leaves in memory, and what preParseInst enters of it,  *)
(* for every file that fits the code region; that what is entered is what  *)
(* an assembler was given; and that initTrap's words are Core's handler.   *)
(***************************************************************************)
EXTENDS Loader, SequenceTheorems, TLAPS

LEMMA Places ==
  /\ TRAMPOLINE = 1000 /\ CODE_WORDS \in 1 .. 1000
  /\ Len(trampoline_code) = 31
  /\ TrampolineAddresses = 1000 .. 1031
BY LoaderAssumption DEF TRAMPOLINE, Machine!TRAMPOLINE, trampoline_code, TrampolineAddresses

LEMMA Regions ==
  /\ \A a \in CodeAddresses : a \in Int /\ 0 <= a /\ a < CODE_WORDS /\ a < 1000
  /\ \A a \in Int : 0 <= a /\ a < CODE_WORDS => a \in CodeAddresses
  /\ \A a \in TrampolineAddresses : a \in Int /\ 1000 <= a /\ a <= 1031
  /\ CODE_WORDS \in Int /\ 0 < CODE_WORDS
BY Places DEF CodeAddresses

(* The file with its padding is a whole number of words, of which the last has a
   byte of the file. *)
LEMMA BufferIs ==
  ASSUME LoaderInv
  PROVE  /\ Len(Buffer) \in Nat
         /\ Len(file) <= Len(Buffer) /\ Len(Buffer) < Len(file) + 4
         /\ Len(Buffer) % 4 = 0
         /\ \A b \in 1 .. Len(Buffer) : Buffer[b] = IF b <= Len(file) THEN file[b] ELSE 0
<1> DEFINE p == (4 - (Len(file) % 4)) % 4
           zeros == [b \in 1 .. p |-> 0]
           S == {file[b] : b \in 1 .. Len(file)} \cup {0}
<1>1. Len(file) \in Nat /\ file = [b \in 1 .. Len(file) |-> file[b]]
  BY Places DEF LoaderInv
<1>2. p \in 0 .. 3 /\ (Len(file) + p) % 4 = 0
  BY <1>1
<1>3. file \in Seq(S)
  BY <1>1
<1>4. zeros \in Seq(S) /\ Len(zeros) = p /\ \A b \in 1 .. p : zeros[b] = 0
  BY <1>2
<1>5. Buffer = file \o zeros
  BY DEF Buffer, PaddedBy
<1> HIDE DEF p, zeros, S
<1>6. /\ Len(Buffer) = Len(file) + p
      /\ \A i \in 1 .. Len(file) + p :
           Buffer[i] = IF i <= Len(file) THEN file[i] ELSE zeros[i - Len(file)]
  BY <1>3, <1>4, <1>5, ConcatProperties
<1>7. ASSUME NEW b \in 1 .. Len(Buffer), ~(b <= Len(file))
      PROVE  Buffer[b] = 0
  <2>1. b - Len(file) \in 1 .. p
    BY <1>1, <1>2, <1>6, <1>7
  <2> QED BY <1>4, <1>6, <1>7, <2>1
<1> QED BY <1>1, <1>2, <1>6, <1>7

(* What is in memory does not depend on the loops of preParseInst. *)
LEMMA SameMemory ==
  ASSUME UNCHANGED <<file, memory>>
  PROVE  /\ \A a : FileAt(a)' <=> FileAt(a)
         /\ \A a : Parses(a)' <=> Parses(a)
         /\ Found(CodeAddresses)' = Found(CodeAddresses)
         /\ Found(TrampolineAddresses)' = Found(TrampolineAddresses)
BY DEF FileAt, Parses, Found, CodeAddresses, TrampolineAddresses

LEMMA InitHolds ==
  ASSUME Init
  PROVE  LoaderInv
<1>1. PICK cut \in Cuts :
        file = [b \in 1 .. 4 * Len(source) - cut |-> ByteOf(Words, b - 1)]
  BY DEF Init
<1> DEFINE N == 4 * Len(source) - cut
<1>2. N \in Nat /\ N >= 1 /\ N <= 4 * (CODE_WORDS - 1)
  <2>1. Len(source) \in 1 .. CODE_WORDS - 1 /\ cut \in 0 .. 3
    BY LoaderAssumption DEF Init
  <2> QED BY <2>1, Places
<1>3. file = [b \in 1 .. N |-> file[b]]
  BY <1>1
<1> HIDE DEF N
<1>4. Len(file) = N
  BY <1>2, <1>3
<1>5. file = [b \in 1 .. Len(file) |-> file[b]] /\ Len(file) \in 1 .. 4 * (CODE_WORDS - 1)
  BY <1>2, <1>3, <1>4, Places
<1>6. memory = [a \in CodeAddresses \cup TrampolineAddresses |->
                  IF a \in TRAMPOLINE .. TRAMPOLINE + Len(trampoline_code) - 1
                  THEN trampoline_code[a - TRAMPOLINE + 1] ELSE MAGIC]
  BY DEF Init
<1>7. \A a \in CodeAddresses : memory[a] = MAGIC
  BY <1>6, Places, Regions
<1>8. ASSUME NEW k \in 0 .. Len(trampoline_code)
      PROVE  memory[TRAMPOLINE + k] = IF k < Len(trampoline_code) THEN trampoline_code[k + 1]
                                                                  ELSE MAGIC
  <2>1. /\ TRAMPOLINE + k \in TrampolineAddresses
        /\ (TRAMPOLINE + k) - TRAMPOLINE + 1 = k + 1
        /\ TRAMPOLINE + k \in TRAMPOLINE .. TRAMPOLINE + Len(trampoline_code) - 1
             <=> k < Len(trampoline_code)
    BY Places
  <2> QED BY <1>6, <2>1
<1>9. phase = "load" /\ at = 0 /\ parsed = << >> /\ DOMAIN parsed = {}
  BY DEF Init
<1>10. \A a \in CodeAddresses : a >= at
  BY <1>9, Regions
<1> QED BY <1>5, <1>6, <1>7, <1>8, <1>9, <1>10 DEF LoaderInv

LEMMA LoadWordStep ==
  ASSUME LoaderInv, LoadWord
  PROVE  LoaderInv'
<1>1. /\ phase = "load" /\ 4 * at < Len(Buffer) /\ at \in Nat /\ parsed = << >>
      /\ memory' = [memory EXCEPT ![at] = SubSeq(Buffer, 4 * at + 1, 4 * at + 4)]
      /\ at' = at + 1 /\ file' = file /\ parsed' = parsed /\ phase' = phase
  BY DEF LoadWord, LoaderInv
<1>2. Len(file) \in Int /\ Len(file) <= 4 * (CODE_WORDS - 1)
  BY Places DEF LoaderInv
<1>3. 4 * at + 4 <= Len(Buffer) /\ 4 * at < Len(file)
  BY <1>1, <1>2, BufferIs
<1>4. at \in CodeAddresses
  BY <1>1, <1>2, <1>3, Regions
<1>5. ASSUME NEW n \in 1 .. 4
      PROVE  memory'[at][n] = IF 4 * at + n <= Len(file) THEN file[4 * at + n] ELSE 0
  <2> DEFINE S == {Buffer[i] : i \in 4 * at + 1 .. 4 * at + 4}
             w == SubSeq(Buffer, 4 * at + 1, 4 * at + 4)
  <2>1. memory'[at] = w
    BY <1>1, <1>4 DEF LoaderInv
  <2>2. /\ 4 * at + 1 \in Int /\ 4 * at + 4 \in Int /\ (4 * at + 4) - (4 * at + 1) + 1 = 4
        /\ \A i \in 4 * at + 1 .. 4 * at + 4 : Buffer[i] \in S
    BY <1>1
  <2> HIDE DEF S
  <2>3. \A i \in 1 .. (4 * at + 4) - (4 * at + 1) + 1 : w[i] = Buffer[4 * at + 1 + i - 1]
    BY <2>2, SubSeqProperties
  <2>4. w[n] = Buffer[4 * at + n] /\ 4 * at + n \in 1 .. Len(Buffer)
    <3>1. n \in 1 .. (4 * at + 4) - (4 * at + 1) + 1 /\ 4 * at + 1 + n - 1 = 4 * at + n
      BY <1>1
    <3>2. 4 * at + n \in 1 .. Len(Buffer)
      BY <1>1, <1>3, BufferIs
    <3> HIDE DEF w
    <3> QED BY <2>3, <3>1, <3>2
  <2> HIDE DEF w
  <2> QED BY <2>1, <2>4, BufferIs
<1>6. ASSUME NEW a \in CodeAddresses
      PROVE  IF a >= at + 1 THEN memory'[a] = MAGIC ELSE FileAt(a)'
  <2>1. a \in Int /\ at \in Int
    BY <1>1, Regions
  <2>2. CASE a = at
    <3>1. ~(4 * a >= Len(file)) /\ ~(a >= at + 1)
      BY <1>2, <1>3, <2>1, <2>2
    <3> QED BY <1>1, <1>5, <2>2, <3>1 DEF FileAt
  <2>3. CASE a > at
    <3>1. a >= at + 1 /\ a # at /\ a >= at
      BY <2>1, <2>3
    <3> QED BY <1>1, <3>1 DEF LoaderInv
  <2>4. CASE a < at
    <3>1. ~(a >= at + 1) /\ a # at /\ ~(a >= at)
      BY <2>1, <2>4
    <3>2. memory'[a] = memory[a] /\ FileAt(a)
      BY <1>1, <3>1 DEF LoaderInv
    <3> QED BY <1>1, <3>1, <3>2 DEF FileAt
  <2> QED BY <2>1, <2>2, <2>3, <2>4
<1>7. \A k \in 0 .. Len(trampoline_code) : memory'[TRAMPOLINE + k] = memory[TRAMPOLINE + k]
  BY <1>1, <1>4, Places, Regions
<1>8. DOMAIN memory' = DOMAIN memory /\ at + 1 \in Nat /\ DOMAIN parsed = {}
  BY <1>1
<1>9. CodeAddresses' = CodeAddresses /\ TrampolineAddresses' = TrampolineAddresses
  BY DEF CodeAddresses, TrampolineAddresses
<1> QED BY <1>1, <1>6, <1>7, <1>8, <1>9 DEF LoaderInv

LEMMA LoadEndsStep ==
  ASSUME LoaderInv, LoadEnds
  PROVE  LoaderInv'
<1>1. /\ phase = "load" /\ 4 * at >= Len(Buffer) /\ at \in Nat /\ parsed = << >>
      /\ phase' = "code" /\ at' = 0 /\ UNCHANGED <<file, memory, parsed>>
  BY DEF LoadEnds, LoaderInv
<1>0. Len(file) \in Int
  BY Places DEF LoaderInv
<1>2. Len(file) <= 4 * at
  BY <1>0, <1>1, BufferIs
<1>3. ASSUME NEW a \in CodeAddresses
      PROVE  FileAt(a)
  <2>1. CASE a >= at
    <3>1. 4 * a >= Len(file)
      BY <1>0, <1>1, <1>2, <2>1, Regions
    <3> QED BY <1>1, <2>1, <3>1 DEF LoaderInv, FileAt
  <2>2. CASE ~(a >= at)
    BY <1>1, <2>2 DEF LoaderInv
  <2> QED BY <2>1, <2>2
<1>4. 0 \in CodeAddresses /\ 0 .. 0 - 1 = {} /\ DOMAIN parsed = {}
  BY <1>1, Regions
<1> QED BY <1>1, <1>3, <1>4, SameMemory DEF LoaderInv

(* Both loops of preParseInst end in front of a MAGIC. *)
LEMMA LoopsEnd ==
  ASSUME LoaderInv, phase # "load"
  PROVE  /\ CODE_WORDS - 1 \in CodeAddresses /\ ~Parses(CODE_WORDS - 1)
         /\ 1031 \in TrampolineAddresses /\ ~Parses(1031)
<1>1. CODE_WORDS - 1 \in CodeAddresses
  BY Regions
<1>2. Len(file) \in Int /\ 4 * (CODE_WORDS - 1) >= Len(file)
  BY Places DEF LoaderInv
<1>3. memory[CODE_WORDS - 1] = MAGIC
  BY <1>1, <1>2 DEF LoaderInv, FileAt
<1>4. memory[1031] = MAGIC
  BY Places DEF LoaderInv
<1> QED BY <1>1, <1>3, <1>4, Places DEF Parses

LEMMA ParseWordStep ==
  ASSUME LoaderInv, ParseWord
  PROVE  LoaderInv'
<1>1. /\ phase \in {"code", "trampoline"} /\ Parses(at) /\ at' = at + 1
      /\ UNCHANGED <<file, memory, phase>>
      /\ parsed' = [a \in DOMAIN parsed \cup {at} |->
                      IF a = at THEN parseInst(memory[at]) ELSE parsed[a]]
  BY DEF ParseWord
<1>2. \A a \in DOMAIN parsed' :
        memory[a] # MAGIC /\ parsed'[a] # Refused /\ parsed'[a] = parseInst(memory[a])
  BY <1>1 DEF LoaderInv, Parses
<1>3. CASE phase = "code"
  <2>1. at \in CodeAddresses /\ at # CODE_WORDS - 1 /\ DOMAIN parsed = 0 .. at - 1
    BY <1>1, <1>3, LoopsEnd DEF LoaderInv
  <2>2. at + 1 \in CodeAddresses /\ 0 .. (at + 1) - 1 = (0 .. at - 1) \cup {at}
    BY <2>1, Regions
  <2> QED BY <1>1, <1>2, <1>3, <2>1, <2>2, SameMemory DEF LoaderInv
<1>4. CASE phase = "trampoline"
  <2>1. /\ at \in TrampolineAddresses /\ at # 1031
        /\ DOMAIN parsed = Found(CodeAddresses) \cup (TRAMPOLINE .. at - 1)
    BY <1>1, <1>4, LoopsEnd DEF LoaderInv
  <2>2. /\ at + 1 \in TrampolineAddresses
        /\ TRAMPOLINE .. (at + 1) - 1 = (TRAMPOLINE .. at - 1) \cup {at}
    BY <2>1, Places, Regions
  <2>3. DOMAIN parsed' = Found(CodeAddresses) \cup (TRAMPOLINE .. (at + 1) - 1)
    BY <1>1, <2>1, <2>2
  <2> QED BY <1>1, <1>2, <1>4, <2>2, <2>3, SameMemory DEF LoaderInv
<1> QED BY <1>1, <1>3, <1>4

(* A loop that ends at a has found what is before a. *)
LEMMA FoundIs ==
  ASSUME NEW addresses, addresses \subseteq Int, NEW a \in addresses, ~Parses(a),
         \A b \in addresses : b < a => Parses(b)
  PROVE  Found(addresses) = {b \in addresses : b < a}
<1>1. ASSUME NEW c \in addresses
      PROVE  c \in Found(addresses) <=> c < a
  <2>1. CASE c < a
    <3>1. \A b \in addresses : b <= c => b < a
      BY <2>1
    <3> QED BY <2>1, <3>1 DEF Found
  <2>2. CASE ~(c < a)
    <3>1. a <= c
      BY <2>2
    <3> QED BY <2>2, <3>1 DEF Found
  <2> QED BY <2>1, <2>2
<1>2. Found(addresses) \subseteq addresses
  BY DEF Found
<1> QED BY <1>1, <1>2

LEMMA ParseEndsStep ==
  ASSUME LoaderInv, ParseEnds
  PROVE  LoaderInv'
<1>1. phase \in {"code", "trampoline"} /\ ~Parses(at) /\ UNCHANGED <<file, memory, parsed>>
  BY DEF ParseEnds
<1>2. \A b \in DOMAIN parsed : Parses(b)
  BY DEF LoaderInv, Parses
<1>3. CASE phase = "code"
  <2>1. phase' = "trampoline" /\ at' = TRAMPOLINE
    BY <1>3 DEF ParseEnds
  <2>2. at \in 0 .. CODE_WORDS - 1 /\ DOMAIN parsed = 0 .. at - 1
    BY <1>3 DEF LoaderInv, CodeAddresses
  <2>3. Found(CodeAddresses) = 0 .. at - 1
    <3>1. \A b \in CodeAddresses : b < at <=> b \in 0 .. at - 1
      BY <2>2, Regions
    <3>2. \A b \in 0 .. at - 1 : b \in CodeAddresses
      BY <2>2, Regions
    <3>3. CodeAddresses \subseteq Int /\ at \in CodeAddresses
      BY <2>2, Regions DEF CodeAddresses
    <3>4. \A b \in CodeAddresses : b < at => Parses(b)
      BY <1>2, <2>2, <3>1
    <3>5. Found(CodeAddresses) = {b \in CodeAddresses : b < at}
      BY <1>1, <3>3, <3>4, FoundIs
    <3> QED BY <3>1, <3>2, <3>5
  <2>4. TRAMPOLINE \in TrampolineAddresses /\ TRAMPOLINE .. TRAMPOLINE - 1 = {}
    BY Places
  <2> QED BY <1>1, <1>3, <2>1, <2>2, <2>3, <2>4, SameMemory DEF LoaderInv
<1>4. CASE phase = "trampoline"
  <2>1. phase' = "prompt"
    BY <1>4 DEF ParseEnds
  <2>2. /\ at \in 1000 .. 1031
        /\ DOMAIN parsed = Found(CodeAddresses) \cup (1000 .. at - 1)
    BY <1>4, Places DEF LoaderInv
  <2>3. Found(TrampolineAddresses) = 1000 .. at - 1
    <3>1. \A b \in TrampolineAddresses : b < at <=> b \in 1000 .. at - 1
      BY <2>2, Places
    <3>2. \A b \in 1000 .. at - 1 : b \in TrampolineAddresses
      BY <2>2, Places
    <3>3. TrampolineAddresses \subseteq Int /\ at \in TrampolineAddresses
      BY <2>2, Places
    <3>4. \A b \in TrampolineAddresses : b < at => Parses(b)
      BY <1>2, <2>2, <3>1
    <3>5. Found(TrampolineAddresses) = {b \in TrampolineAddresses : b < at}
      BY <1>1, <3>3, <3>4, FoundIs
    <3> QED BY <3>1, <3>2, <3>5
  <2> QED BY <1>1, <1>4, <2>1, <2>2, <2>3, SameMemory DEF LoaderInv
<1> QED BY <1>1, <1>3, <1>4

(* Memory is the file as far as it has been loaded, and getParsedInst has what memory
   holds as far as it has been parsed: LoaderInv, for every file that fits. *)
THEOREM LoaderInvariance == Spec => []LoaderInv
<1>1. Init => LoaderInv
  BY InitHolds
<1>2. ASSUME LoaderInv, [Next]_vars
      PROVE  LoaderInv'
  <2>1. CASE LoadWord
    BY <1>2, <2>1, LoadWordStep
  <2>2. CASE LoadEnds
    BY <1>2, <2>2, LoadEndsStep
  <2>3. CASE ParseWord
    BY <1>2, <2>3, ParseWordStep
  <2>4. CASE ParseEnds
    BY <1>2, <2>4, ParseEndsStep
  <2>5. CASE UNCHANGED vars
    BY <1>2, <2>5, SameMemory DEF vars, LoaderInv
  <2> QED BY <1>2, <2>1, <2>2, <2>3, <2>4, <2>5 DEF Next, Ready
<1> QED BY <1>1, <1>2, PTL DEF Spec

(* At the prompt memory holds the file, byte by byte, with zeros up to the end of its
   last word and MAGIC behind it. *)
THEOREM FileIsLoaded == Spec => []LoadedExactly
<1>1. LoaderInv => LoadedExactly
  BY DEF LoaderInv, LoadedExactly, AtPrompt
<1> QED BY <1>1, LoaderInvariance, PTL

(* At the prompt getParsedInst has the addresses of code and trampoline up to the
   first word that is MAGIC or no instruction, no others, and for each what
   parseInst makes of the word that memory holds there. *)
THEOREM EnteredIsInMemory ==
  Spec => [](AtPrompt =>
               /\ DOMAIN parsed = Found(CodeAddresses) \cup Found(TrampolineAddresses)
               /\ \A a \in DOMAIN parsed : parsed[a] = parseInst(memory[a]))
<1>1. LoaderInv /\ AtPrompt =>
        /\ DOMAIN parsed = Found(CodeAddresses) \cup Found(TrampolineAddresses)
        /\ \A a \in DOMAIN parsed : parsed[a] = parseInst(memory[a])
  BY DEF LoaderInv, AtPrompt
<1> QED BY <1>1, LoaderInvariance, PTL

-----------------------------------------------------------------------------
(* The fields of a word that an assembler made. *)
(* A word with these fields. *)
IsWord(w, o, d, f, s1, s2, f7) ==
  /\ o \in 0 .. 127 /\ d \in 0 .. 31 /\ f \in 0 .. 7 /\ s1 \in 0 .. 31 /\ s2 \in 0 .. 31
  /\ f7 \in 0 .. 127
  /\ w = Asm!RType(o, d, f, s1, s2, f7)

(* The number that a word is, but for its sign. *)
LEMMA LowIs ==
  ASSUME NEW o, NEW d, NEW f, NEW s1, NEW s2, NEW f7, NEW w, IsWord(w, o, d, f, s1, s2, f7)
  PROVE  /\ opcode(w) = o
         /\ Low(w) = o + 128 * d + 4096 * f + 32768 * s1 + 1048576 * s2 + 33554432 * (f7 % 64)
         /\ Sign(w) = f7 \div 64
<1> DEFINE dl == d % 2
           dh == d \div 2
           al == s1 % 2
           ah == s1 \div 2
           bl == s2 % 16
           bh == s2 \div 16
           fl == f7 % 64
           fh == f7 \div 64
<1>0. /\ o \in 0 .. 127 /\ d \in 0 .. 31 /\ f \in 0 .. 7 /\ s1 \in 0 .. 31 /\ s2 \in 0 .. 31
      /\ f7 \in 0 .. 127 /\ w = Asm!RType(o, d, f, s1, s2, f7)
  BY DEF IsWord
<1>1. /\ dl \in 0 .. 1 /\ dh \in 0 .. 15 /\ d = 2 * dh + dl
      /\ al \in 0 .. 1 /\ ah \in 0 .. 15 /\ s1 = 2 * ah + al
      /\ bl \in 0 .. 15 /\ bh \in 0 .. 1 /\ s2 = 16 * bh + bl
      /\ fl \in 0 .. 63 /\ fh \in 0 .. 1 /\ f7 = 64 * fh + fl
  BY <1>0
<1>2. /\ w[1] = o + 128 * dl /\ w[2] = dh + 16 * f + 128 * al
      /\ w[3] = ah + 16 * bl /\ w[4] = bh + 2 * f7
  BY <1>0 DEF Asm!RType
<1> HIDE DEF dl, dh, al, ah, bl, bh, fl, fh
<1>3. w[4] = bh + 2 * fl + 128 * fh /\ bh + 2 * fl \in 0 .. 127
  BY <1>0, <1>1, <1>2
<1>4. w[4] % 128 = bh + 2 * fl /\ w[4] \div 128 = fh
  BY <1>0, <1>1, <1>3
<1>5. w[1] % 128 = o
  BY <1>0, <1>1, <1>2
<1>6. Low(w) = w[1] + 256 * w[2] + 65536 * w[3] + 16777216 * (bh + 2 * fl)
  BY <1>4 DEF Low
<1>7. Low(w) = o + 128 * d + 4096 * f + 32768 * s1 + 1048576 * s2 + 33554432 * fl
  BY <1>0, <1>1, <1>2, <1>6
<1> QED BY <1>4, <1>5, <1>7 DEF opcode, Sign, fl, fh

LEMMA FieldsAre ==
  ASSUME NEW o, NEW d, NEW f, NEW s1, NEW s2, NEW f7, NEW w, IsWord(w, o, d, f, s1, s2, f7)
  PROVE  /\ opcode(w) = o /\ rd(w) = d /\ funct3(w) = f /\ rs1(w) = s1 /\ rs2(w) = s2
         /\ funct7(w) = f7 /\ Sign(w) = f7 \div 64
         /\ Bit(w, 7) = d % 2 /\ Field(w, 8, 4) = d \div 2 /\ Field(w, 7, 5) = d
         /\ Field(w, 12, 8) = f + 8 * s1
         /\ Bit(w, 20) = s2 % 2 /\ Field(w, 21, 10) = s2 \div 2 + 16 * (f7 % 64)
         /\ Field(w, 20, 12) = s2 + 32 * f7 /\ Field(w, 25, 6) = f7 % 64
         /\ Signed(w, 12) = f + 8 * s1 + 256 * s2 + 8192 * (f7 % 64) - 524288 * (f7 \div 64)
         /\ Signed(w, 20) = s2 + 32 * (f7 % 64) - 2048 * (f7 \div 64)
         /\ Signed(w, 25) = (f7 % 64) - 64 * (f7 \div 64)
<1> DEFINE fl == f7 % 64
           fh == f7 \div 64
           n  == Low(w)
<1>0. /\ o \in 0 .. 127 /\ d \in 0 .. 31 /\ f \in 0 .. 7 /\ s1 \in 0 .. 31 /\ s2 \in 0 .. 31
      /\ f7 \in 0 .. 127 /\ w = Asm!RType(o, d, f, s1, s2, f7)
  BY DEF IsWord
<1>1. fl \in 0 .. 63 /\ fh \in 0 .. 1 /\ f7 = 64 * fh + fl
  BY <1>0
<1>2. /\ opcode(w) = o /\ Sign(w) = fh
      /\ n = o + 128 * d + 4096 * f + 32768 * s1 + 1048576 * s2 + 33554432 * fl
  BY LowIs
<1> HIDE DEF fl, fh, n
<1>3. /\ n \div 128 = d + 32 * f + 256 * s1 + 8192 * s2 + 262144 * fl
      /\ n \div 256 = (d \div 2) + 16 * f + 128 * s1 + 4096 * s2 + 131072 * fl
  BY <1>0, <1>1, <1>2
<1>4. n \div 4096 = f + 8 * s1 + 256 * s2 + 8192 * fl
  BY <1>0, <1>1, <1>2
<1>5. n \div 32768 = s1 + 32 * s2 + 1024 * fl
  BY <1>0, <1>1, <1>2
<1>6. n \div 1048576 = s2 + 32 * fl /\ n \div 2097152 = (s2 \div 2) + 16 * fl
  BY <1>0, <1>1, <1>2
<1>7. n \div 33554432 = fl
  BY <1>0, <1>1, <1>2
<1>8. rd(w) = d /\ Field(w, 7, 5) = d /\ Bit(w, 7) = d % 2 /\ Field(w, 8, 4) = d \div 2
  <2>1. /\ (n \div 128 + fh * 16777216) % 32 = d
        /\ (n \div 128 + fh * 16777216) % 2 = d % 2
    BY <1>0, <1>1, <1>3
  <2>2. (n \div 256 + fh * 8388608) % 16 = d \div 2
    BY <1>0, <1>1, <1>3
  <2> QED BY <1>2, <2>1, <2>2 DEF rd, Field, Bit, n
<1>9. funct3(w) = f /\ Field(w, 12, 8) = f + 8 * s1
  <2>1. /\ (n \div 4096 + fh * 524288) % 8 = f
        /\ (n \div 4096 + fh * 524288) % 256 = f + 8 * s1
    BY <1>0, <1>1, <1>4
  <2> QED BY <1>2, <2>1 DEF funct3, Field, n
<1>10. rs1(w) = s1
  <2>1. (n \div 32768 + fh * 65536) % 32 = s1
    BY <1>0, <1>1, <1>5
  <2> QED BY <1>2, <2>1 DEF rs1, Field, n
<1>11. /\ rs2(w) = s2 /\ Bit(w, 20) = s2 % 2 /\ Field(w, 21, 10) = s2 \div 2 + 16 * fl
       /\ Field(w, 20, 12) = s2 + 32 * f7
  <2>1. n \div 1048576 + fh * 2048 = s2 + 32 * f7
    BY <1>0, <1>1, <1>6
  <2>3. /\ (s2 + 32 * f7) % 32 = s2 /\ (s2 + 32 * f7) % 2 = s2 % 2
        /\ (s2 + 32 * f7) % 4096 = s2 + 32 * f7
    BY <1>0
  <2>2. (n \div 2097152 + fh * 1024) % 1024 = s2 \div 2 + 16 * fl
    <3>1. s2 \div 2 \in 0 .. 15
      BY <1>0
    <3> QED BY <1>1, <1>6, <3>1
  <2> QED BY <1>2, <2>1, <2>2, <2>3 DEF rs2, Bit, Field, n
<1>13. funct7(w) = f7 /\ Field(w, 25, 6) = fl
  <2>1. (n \div 33554432 + fh * 64) % 128 = f7 /\ (n \div 33554432 + fh * 64) % 64 = fl
    BY <1>0, <1>1, <1>7
  <2> QED BY <1>2, <2>1 DEF funct7, Field, n
<1>14. /\ Signed(w, 12) = f + 8 * s1 + 256 * s2 + 8192 * fl - 524288 * fh
       /\ Signed(w, 20) = s2 + 32 * fl - 2048 * fh
       /\ Signed(w, 25) = fl - 64 * fh
  <2>1. /\ Signed(w, 12) = n \div 4096 - fh * 524288
        /\ Signed(w, 20) = n \div 1048576 - fh * 2048
        /\ Signed(w, 25) = n \div 33554432 - fh * 64
    BY <1>2 DEF Signed, n
  <2> QED BY <1>0, <1>1, <1>4, <1>6, <1>7, <2>1
<1> QED BY <1>2, <1>8, <1>9, <1>10, <1>11, <1>13, <1>14 DEF fl, fh

-----------------------------------------------------------------------------
(* The pieces of an immediate, put together again. *)
LEMMA ImmediatesI ==
  ASSUME NEW n \in -2048 .. 2047
  PROVE  LET s2 == n % 32
             f7 == (n \div 32) % 128
         IN /\ s2 \in 0 .. 31 /\ f7 \in 0 .. 127
            /\ s2 + 32 * (f7 % 64) - 2048 * (f7 \div 64) = n
            /\ 32 * ((f7 % 64) - 64 * (f7 \div 64)) + s2 = n
            /\ (n >= 0 => s2 + 32 * f7 = n)
            /\ (n \in 0 .. 31 => s2 = n /\ f7 = 0)
<1> DEFINE s2 == n % 32
           q  == n \div 32
           f7 == q % 128
<1>1. s2 \in 0 .. 31 /\ n = 32 * q + s2 /\ q \in -64 .. 63
  OBVIOUS
<1> HIDE DEF s2, q
<1>2. f7 = IF q < 0 THEN q + 128 ELSE q
  BY <1>1
<1>3. (f7 % 64) - 64 * (f7 \div 64) = q /\ f7 \in 0 .. 127
  BY <1>1, <1>2
<1> HIDE DEF f7
<1>4. s2 + 32 * (f7 % 64) - 2048 * (f7 \div 64) = n
  BY <1>1, <1>3
<1>5. n >= 0 => s2 + 32 * f7 = n
  BY <1>1, <1>2
<1>6. n \in 0 .. 31 => s2 = n /\ f7 = 0
  BY <1>1, <1>2
<1> QED BY <1>1, <1>3, <1>4, <1>5, <1>6 DEF s2, f7, q

CsrNumber == 0 .. 4095

LEMMA ImmediatesCsr ==
  ASSUME NEW n \in CsrNumber
  PROVE  LET s2 == n % 32
             f7 == (n \div 32) % 128
         IN s2 \in 0 .. 31 /\ f7 \in 0 .. 127 /\ s2 + 32 * f7 = n
BY DEF CsrNumber

LEMMA ImmediatesB ==
  ASSUME NEW h \in -2048 .. 2047
  PROVE  LET n  == 2 * h
             d  == 2 * ((n \div 2) % 16) + ((n \div 2048) % 2)
             f7 == ((n \div 32) % 64) + 64 * ((n \div 4096) % 2)
         IN /\ d \in 0 .. 31 /\ f7 \in 0 .. 127
            /\ 2 * ((-(f7 \div 64)) * 2048 + (d % 2) * 1024 + (f7 % 64) * 16 + d \div 2) = n
<1> DEFINE q == h \div 16
           r == h \div 1024
           t == h \div 2048
           a == h % 16
           b == q % 64
           c == r % 2
           e == t % 2
           n == 2 * h
<1>1. n \div 2 = h /\ n \div 32 = q /\ n \div 2048 = r /\ n \div 4096 = t
  OBVIOUS
<1>2. /\ h = 16 * q + a /\ a \in 0 .. 15 /\ q \in -128 .. 127
      /\ r \in -2 .. 1 /\ t \in -1 .. 0 /\ q \div 64 = r /\ r \div 2 = t
  OBVIOUS
<1> HIDE DEF q, r, t, a
<1>3. q = 64 * r + b /\ b \in 0 .. 63 /\ r = 2 * t + c /\ c \in 0 .. 1 /\ e = -t
  BY <1>2
<1> HIDE DEF b, c, e
<1> DEFINE d == 2 * a + c
           f7 == b + 64 * e
<1>4. d \in 0 .. 31 /\ f7 \in 0 .. 127 /\ d % 2 = c /\ d \div 2 = a /\ f7 % 64 = b /\ f7 \div 64 = e
  BY <1>2, <1>3
<1>5. d = 2 * ((n \div 2) % 16) + ((n \div 2048) % 2) /\ f7 = ((n \div 32) % 64) + 64 * ((n \div 4096) % 2)
  BY <1>1 DEF a, b, c, e
<1> HIDE DEF d, f7
<1>6. 2 * ((-(f7 \div 64)) * 2048 + (d % 2) * 1024 + (f7 % 64) * 16 + d \div 2) = n
  BY <1>2, <1>3, <1>4
<1> QED BY <1>4, <1>5, <1>6

LEMMA ImmediatesU ==
  ASSUME NEW u \in Int, -524288 <= u, u < 524288
  PROVE  LET q == (4096 * u) \div 4096
             f == q % 8
             s1 == (q \div 8) % 32
             s2 == (q \div 256) % 32
             f7 == (q \div 8192) % 128
         IN /\ f \in 0 .. 7 /\ s1 \in 0 .. 31 /\ s2 \in 0 .. 31 /\ f7 \in 0 .. 127
            /\ (f + 8 * s1 + 256 * s2 + 8192 * (f7 % 64) - 524288 * (f7 \div 64)) * 4096 = 4096 * u
<1> DEFINE q1 == u \div 8
           q2 == u \div 256
           t  == u \div 8192
           f == u % 8
           s1 == q1 % 32
           s2 == q2 % 32
           f7 == t % 128
<1>1. (4096 * u) \div 4096 = u
  OBVIOUS
<1>2. /\ q1 \in Int /\ q2 \in Int /\ t \in Int /\ -64 <= t /\ t < 64
      /\ u = 8 * q1 + f /\ f \in 0 .. 7 /\ q1 \div 32 = q2 /\ q2 \div 32 = t
  OBVIOUS
<1> HIDE DEF q1, q2, t, f
<1>3. /\ q1 = 32 * q2 + s1 /\ s1 \in 0 .. 31 /\ q2 = 32 * t + s2 /\ s2 \in 0 .. 31
      /\ f7 = IF t < 0 THEN t + 128 ELSE t
  BY <1>2
<1> HIDE DEF s1, s2, f7
<1>4. (f7 % 64) - 64 * (f7 \div 64) = t /\ f7 \in 0 .. 127
  BY <1>2, <1>3
<1>5. f + 8 * s1 + 256 * s2 + 8192 * (f7 % 64) - 524288 * (f7 \div 64) = u
  BY <1>2, <1>3, <1>4
<1> QED BY <1>1, <1>2, <1>3, <1>4, <1>5 DEF f, s1, s2, f7, q1, q2, t

(* Half of an offset that an i16 holds. *)
Half16(h) == h \in Int /\ -16384 <= h /\ h < 16384

LEMMA ImmediatesJ ==
  ASSUME NEW h, Half16(h)
  PROVE  LET n  == 2 * h
             q  == ((n \div 4096) % 256) + 256 * ((n \div 2048) % 2)
                   + 512 * ((n \div 2) % 1024) + 524288 * ((n \div 1048576) % 2)
             f  == q % 8
             s1 == (q \div 8) % 32
             s2 == (q \div 256) % 32
             f7 == (q \div 8192) % 128
         IN /\ f \in 0 .. 7 /\ s1 \in 0 .. 31 /\ s2 \in 0 .. 31 /\ f7 \in 0 .. 127
            /\ I16(2 * ((-(f7 \div 64)) * 524288 + (f + 8 * s1) * 2048 + (s2 % 2) * 1024
                        + (s2 \div 2 + 16 * (f7 % 64)))) = n
<1> DEFINE n == 2 * h
           r == h \div 1024
           t == h \div 2048
           a == t % 256
           b == r % 2
           c == h % 1024
           e == IF h < 0 THEN 1 ELSE 0
           c0 == c % 16
           c1 == c \div 16
           q == a + 256 * b + 512 * c + 524288 * e
           f  == q % 8
           s1 == (q \div 8) % 32
           s2 == (q \div 256) % 32
           f7 == (q \div 8192) % 128
<1>0. h \in Int /\ -16384 <= h /\ h < 16384
  BY DEF Half16
<1>1. n \div 2 = h /\ n \div 2048 = r /\ n \div 4096 = t /\ (n \div 1048576) % 2 = e
  BY <1>0
<1>2. /\ h = 1024 * r + c /\ c \in Int /\ 0 <= c /\ c < 1024 /\ r \in Int /\ t \in Int
      /\ r \div 2 = t /\ -8 <= t /\ t < 8 /\ (t < 0 <=> h < 0) /\ e \in 0 .. 1
  BY <1>0
<1>3. q = ((n \div 4096) % 256) + 256 * ((n \div 2048) % 2)
                   + 512 * ((n \div 2) % 1024) + 524288 * ((n \div 1048576) % 2)
  BY <1>1
<1> HIDE DEF r, t, c, n
<1>4. /\ r = 2 * t + b /\ b \in 0 .. 1 /\ a = IF h < 0 THEN t + 256 ELSE t
      /\ a \in 0 .. 255 /\ c0 \in 0 .. 15 /\ c1 \in 0 .. 63 /\ c = c0 + 16 * c1
  BY <1>0, <1>2
<1>41. a - 256 * e = t
  BY <1>0, <1>2, <1>4
<1> HIDE DEF a, b, c0, c1, e
<1>5. q = a + 256 * b + 512 * c0 + 8192 * c1 + 524288 * e
  BY <1>0, <1>2, <1>4
<1> HIDE DEF q
<1>6. q % 8 = a % 8 /\ q \div 8 = a \div 8 + 32 * (b + 2 * c0 + 32 * c1 + 2048 * e)
  BY <1>0, <1>2, <1>4, <1>5
<1>7. f = a % 8 /\ s1 = a \div 8
  <2>1. a \div 8 \in 0 .. 31 /\ b + 2 * c0 + 32 * c1 + 2048 * e \in Int
    BY <1>0, <1>2, <1>4
  <2> QED BY <1>6, <2>1
<1>8. s2 = b + 2 * c0
  <2>1. q \div 256 = b + 2 * c0 + 32 * (c1 + 64 * e)
    BY <1>0, <1>2, <1>4, <1>5
  <2> QED BY <1>0, <1>2, <1>4, <2>1
<1>9. f7 = c1 + 64 * e
  <2>1. q \div 8192 = c1 + 64 * e
    BY <1>0, <1>2, <1>4, <1>5
  <2> QED BY <1>0, <1>2, <1>4, <2>1
<1>10. f \in 0 .. 7 /\ s1 \in 0 .. 31 /\ f + 8 * s1 = a
  BY <1>4, <1>7
<1> HIDE DEF f, s1, s2, f7
<1>11. /\ s2 \in 0 .. 31 /\ f7 \in 0 .. 127 /\ s2 % 2 = b /\ s2 \div 2 = c0
       /\ f7 \div 64 = e /\ f7 % 64 = c1
  BY <1>0, <1>2, <1>4, <1>8, <1>9
<1> DEFINE v == 2 * ((-(f7 \div 64)) * 524288 + (f + 8 * s1) * 2048 + (s2 % 2) * 1024
                     + (s2 \div 2 + 16 * (f7 % 64)))
<1>12. v = 2 * (1024 * (2 * (a - 256 * e) + b) + c)
  BY <1>0, <1>2, <1>4, <1>10, <1>11
<1>13. v = 2 * h
  BY <1>0, <1>2, <1>4, <1>41, <1>12
<1> HIDE DEF v
<1>14. I16(v) = 2 * h
  BY <1>0, <1>13 DEF I16
<1> QED BY <1>3, <1>10, <1>11, <1>14 DEF f, s1, s2, f7, v, n

-----------------------------------------------------------------------------
(* The tables of the assembler and the switches of parseInst. *)
Reg == 0 .. 31

Imm12 == -2048 .. 2047

(* The names that an assembler has a rule for, and the rule. *)
LEMMA EncodeIs ==
  ASSUME NEW i
  PROVE  /\ i.op \in Asm!LOADS    => Asm!Encode(i) = Asm!IType(3, Asm!Funct3(i.op), i)
         /\ i.op \in Asm!STORES   => Asm!Encode(i) = Asm!SType(35, Asm!Funct3(i.op), i)
         /\ i.op \in Asm!BRANCHES => Asm!Encode(i) = Asm!BType(99, Asm!Funct3(i.op), i)
         /\ i.op \in Asm!OPIMM    => Asm!Encode(i) = Asm!IType(19, Asm!Funct3(i.op), i)
         /\ i.op \in Asm!OP =>
              Asm!Encode(i) = Asm!RType(51, i.rd, Asm!Funct3(i.op), i.rs1, i.rs2, 0)
         /\ i.op = "sub" =>
              Asm!Encode(i) = Asm!RType(51, i.rd, Asm!Funct3(i.op), i.rs1, i.rs2, 32)
         /\ i.op \in Asm!OPM =>
              Asm!Encode(i) = Asm!RType(51, i.rd, Asm!Funct3(i.op), i.rs1, i.rs2, 1)
         /\ i.op \in Asm!MISCMEM  => Asm!Encode(i) = Asm!IType(15, Asm!Funct3(i.op), i)
         /\ i.op \in Asm!ZICSR    => Asm!Encode(i) = Asm!IType(115, Asm!Funct3(i.op), i)
BY DEF Asm!Encode, Asm!LOADS, Asm!STORES, Asm!BRANCHES, Asm!OPIMM, Asm!OP, Asm!OPM, Asm!MISCMEM,
   Asm!ZICSR

LEMMA EncodeOtherIs ==
  ASSUME NEW i
  PROVE  /\ i.op = "lui"    => Asm!Encode(i) = Asm!UType(55, i)
         /\ i.op = "auipc"  => Asm!Encode(i) = Asm!UType(23, i)
         /\ i.op = "jal"    => Asm!Encode(i) = Asm!JType(111, i)
         /\ i.op = "jalr"   => Asm!Encode(i) = Asm!IType(103, 0, i)
         /\ i.op = "ecall"  => Asm!Encode(i) = Asm!RType(115, 0, 0, 0, 0, 0)
         /\ i.op = "ebreak" => Asm!Encode(i) = Asm!RType(115, 0, 0, 0, 1, 0)
         /\ i.op = "mret"   => Asm!Encode(i) = Asm!RType(115, 0, 0, 0, 2, 24)
BY DEF Asm!Encode, Asm!LOADS, Asm!STORES, Asm!BRANCHES, Asm!OPIMM, Asm!OP, Asm!OPM, Asm!MISCMEM,
   Asm!ZICSR

LEMMA Funct3Is ==
  ASSUME NEW op
  PROVE  Asm!Funct3(op) \in 0 .. 7
BY DEF Asm!Funct3

(* funct3 is the place of the name in the switch. *)
Entry(ops, op) ==
  LET k == Asm!Funct3(op) + 1 IN k \in 1 .. 8 /\ k \in DOMAIN ops /\ ops[k] = op /\ op # "-"

LEMMA EntriesAre ==
  ASSUME NEW op
  PROVE  /\ op \in Asm!LOADS    => Entry(LoadOps, op)
         /\ op \in Asm!STORES   => Entry(StoreOps, op)
         /\ op \in Asm!BRANCHES => Entry(BranchOps, op)
         /\ op \in Asm!MISCMEM  => Entry(FenceOps, op)
         /\ op \in Asm!ZICSR    => Entry(CsrOps, op) /\ Asm!Funct3(op) # 0
<1>1. op \in Asm!LOADS => Entry(LoadOps, op)
  BY DEF Asm!LOADS, Entry, LoadOps, Asm!Funct3
<1>2. op \in Asm!STORES => Entry(StoreOps, op)
  BY DEF Asm!STORES, Entry, StoreOps, Asm!Funct3
<1>3. op \in Asm!BRANCHES => Entry(BranchOps, op)
  BY DEF Asm!BRANCHES, Entry, BranchOps, Asm!Funct3
<1>4. op \in Asm!MISCMEM => Entry(FenceOps, op)
  BY DEF Asm!MISCMEM, Entry, FenceOps, Asm!Funct3
<1>5. op \in Asm!ZICSR => Entry(CsrOps, op) /\ Asm!Funct3(op) # 0
  BY DEF Asm!ZICSR, Entry, CsrOps, Asm!Funct3
<1> QED BY <1>1, <1>2, <1>3, <1>4, <1>5

LEMMA ImmEntries ==
  ASSUME NEW op \in Asm!OPIMM, NEW w, op \in {"slli", "srli"} => Sign(w) = 0
  PROVE  /\ Asm!Funct3(op) \in {1, 5} <=> op \in {"slli", "srli"}
         /\ Entry(ImmOps(w), op)
BY DEF Asm!OPIMM, Entry, ImmOps, Asm!Funct3

LEMMA RegEntries ==
  ASSUME NEW op, NEW w, Sign(w) = 0,
         \/ op \in Asm!OP /\ funct7(w) = 0
         \/ op = "sub" /\ funct7(w) = 32
         \/ op \in Asm!OPM /\ funct7(w) = 1
  PROVE  Entry(RegOps(w), op)
<1>1. CASE op \in Asm!OP /\ funct7(w) = 0
  BY <1>1 DEF Asm!OP, Entry, RegOps, Asm!Funct3
<1>2. CASE op = "sub" /\ funct7(w) = 32
  BY <1>2 DEF Entry, RegOps, Asm!Funct3
<1>3. CASE op \in Asm!OPM /\ funct7(w) = 1
  BY <1>3 DEF Asm!OPM, Entry, RegOps, Asm!Funct3
<1> QED BY <1>1, <1>2, <1>3

-----------------------------------------------------------------------------
(* Each kind of instruction is read as it was written. *)
(* What the emulator reads of an instruction's word is the instruction. *)
Understood(i) == parseInst(Asm!Encode(i)) = i

(* The case that funct3 selects. *)
LEMMA SwitchIs ==
  ASSUME NEW w, NEW ops, NEW op, Entry(ops, op), funct3(w) = Asm!Funct3(op),
         NEW d, NEW s1, NEW s2, NEW n
  PROVE  Switch(w, ops, d, s1, s2, n) = Make(op, d, s1, s2, n)
BY DEF Switch, Entry

LEMMA MakeHas ==
  ASSUME NEW op, NEW d, NEW s1, NEW s2, NEW n
  PROVE  LET i == Make(op, d, s1, s2, n) IN
         i.op = op /\ i.rd = d /\ i.rs1 = s1 /\ i.rs2 = s2 /\ i.imm = n
BY DEF Make

(* A register and an immediate. *)
IsIWord(w, o, f, i) ==
  /\ o \in 0 .. 127 /\ f \in 0 .. 7 /\ w = Asm!IType(o, f, i)
  /\ i.rd \in Reg /\ i.rs1 \in Reg /\ i.imm \in Imm12

LEMMA IFields ==
  ASSUME NEW o, NEW f, NEW i, NEW w, IsIWord(w, o, f, i)
  PROVE  /\ opcode(w) = o /\ funct3(w) = f /\ rd(w) = i.rd /\ rs1(w) = i.rs1
         /\ ImmI(w) = i.imm
         /\ i.imm >= 0 => Field(w, 20, 12) = i.imm
         /\ i.imm \in 0 .. 31 => rs2(w) = i.imm /\ Sign(w) = 0
<1> DEFINE n  == i.imm
           s2 == n % 32
           f7 == (n \div 32) % 128
<1>0. o \in 0 .. 127 /\ f \in 0 .. 7 /\ i.rd \in Reg /\ i.rs1 \in Reg /\ n \in Imm12
  BY DEF IsIWord
<1>1. w = Asm!RType(o, i.rd, f, i.rs1, s2, f7)
  BY DEF Asm!IType, IsIWord
<1>2. /\ s2 \in 0 .. 31 /\ f7 \in 0 .. 127
      /\ s2 + 32 * (f7 % 64) - 2048 * (f7 \div 64) = n
      /\ n >= 0 => s2 + 32 * f7 = n
      /\ n \in 0 .. 31 => s2 = n /\ f7 = 0
  BY <1>0, ImmediatesI DEF Imm12
<1> HIDE DEF s2, f7, n
<1>3. IsWord(w, o, i.rd, f, i.rs1, s2, f7)
  BY <1>0, <1>1, <1>2 DEF IsWord, Reg
<1>4. /\ opcode(w) = o /\ funct3(w) = f /\ rd(w) = i.rd /\ rs1(w) = i.rs1 /\ rs2(w) = s2
      /\ Signed(w, 20) = s2 + 32 * (f7 % 64) - 2048 * (f7 \div 64) /\ Sign(w) = f7 \div 64
      /\ Field(w, 20, 12) = s2 + 32 * f7
  BY <1>3, FieldsAre
<1> QED BY <1>2, <1>4 DEF ImmI, n

LEMMA LoadsParse ==
  ASSUME NEW op \in Asm!LOADS, NEW d \in Reg, NEW s1 \in Reg, NEW n \in Imm12
  PROVE  Understood(Make(op, d, s1, 0, n))
<1> DEFINE i == Make(op, d, s1, 0, n)
           w == Asm!Encode(i)
<1>1. i.op = op /\ i.rd = d /\ i.rs1 = s1 /\ i.imm = n
  BY MakeHas
<1>2. Entry(LoadOps, op) /\ Asm!Funct3(op) \in 0 .. 7
  BY EntriesAre, Funct3Is
<1> HIDE DEF i
<1>3. w = Asm!IType(3, Asm!Funct3(op), i)
  BY <1>1, EncodeIs
<1> HIDE DEF w
<1>4a. IsIWord(w, 3, Asm!Funct3(op), i)
  BY <1>1, <1>2, <1>3 DEF IsIWord
<1>4. opcode(w) = 3 /\ funct3(w) = Asm!Funct3(op) /\ rd(w) = d /\ rs1(w) = s1 /\ ImmI(w) = n
  BY <1>1, <1>4a, IFields
<1>5. parseInst(w) = Switch(w, LoadOps, d, s1, 0, n)
  BY <1>4 DEF parseInst
<1>6. parseInst(w) = Make(op, d, s1, 0, n)
  BY <1>2, <1>4, <1>5, SwitchIs
<1> QED BY <1>6 DEF w, i, Understood

LEMMA ImmediatesParse ==
  ASSUME NEW op \in Asm!OPIMM, NEW d \in Reg, NEW s1 \in Reg,
         NEW n \in Imm12, op \in {"slli", "srli"} => n \in 0 .. 31
  PROVE  Understood(Make(op, d, s1, 0, n))
<1> DEFINE i == Make(op, d, s1, 0, n)
           w == Asm!Encode(i)
<1>1. i.op = op /\ i.rd = d /\ i.rs1 = s1 /\ i.imm = n
  BY MakeHas
<1>2. Asm!Funct3(op) \in 0 .. 7
  BY DEF Asm!OPIMM, Asm!Funct3
<1> HIDE DEF i
<1>3. w = Asm!IType(19, Asm!Funct3(op), i)
  BY <1>1, EncodeIs
<1> HIDE DEF w
<1>4a. IsIWord(w, 19, Asm!Funct3(op), i)
  BY <1>1, <1>2, <1>3 DEF IsIWord
<1>4. /\ opcode(w) = 19 /\ funct3(w) = Asm!Funct3(op) /\ rd(w) = d /\ rs1(w) = s1 /\ ImmI(w) = n
      /\ n \in 0 .. 31 => rs2(w) = n /\ Sign(w) = 0
  BY <1>1, <1>4a, IFields
<1>5. Entry(ImmOps(w), op) /\ (Asm!Funct3(op) \in {1, 5} <=> op \in {"slli", "srli"})
  BY <1>4, ImmEntries
<1>6. parseInst(w) = Switch(w, ImmOps(w), d, s1, 0, n)
  <2>1. (IF funct3(w) \in {1, 5} THEN rs2(w) ELSE ImmI(w)) = n
    BY <1>4, <1>5
  <2> QED BY <1>4, <2>1 DEF parseInst
<1>7. parseInst(w) = Make(op, d, s1, 0, n)
  BY <1>4, <1>5, <1>6, SwitchIs
<1> QED BY <1>7 DEF w, i, Understood

LEMMA JalrParses ==
  ASSUME NEW d \in Reg, NEW s1 \in Reg
  PROVE  Understood(Make("jalr", d, s1, 0, 0))
<1> DEFINE i == Make("jalr", d, s1, 0, 0)
           w == Asm!Encode(i)
<1>1. i.op = "jalr" /\ i.rd = d /\ i.rs1 = s1 /\ i.imm = 0 /\ 0 \in Imm12
  BY MakeHas DEF Imm12
<1> HIDE DEF i
<1>2. w = Asm!IType(103, 0, i)
  BY <1>1, EncodeOtherIs
<1> HIDE DEF w
<1>3a. IsIWord(w, 103, 0, i)
  BY <1>1, <1>2 DEF IsIWord
<1>3. opcode(w) = 103 /\ rd(w) = d /\ rs1(w) = s1 /\ ImmI(w) = 0
  BY <1>1, <1>3a, IFields
<1>4. ImmJalr(w) = 0
  BY <1>3 DEF ImmJalr, I16
<1>5. parseInst(w) = Make("jalr", d, s1, 0, 0)
  BY <1>3, <1>4 DEF parseInst
<1> QED BY <1>5 DEF w, i, Understood

LEMMA FencesParse ==
  ASSUME NEW op \in Asm!MISCMEM
  PROVE  Understood(Make(op, 0, 0, 0, 0))
<1> DEFINE i == Make(op, 0, 0, 0, 0)
           w == Asm!Encode(i)
<1>1. i.op = op /\ i.rd \in Reg /\ i.rs1 \in Reg /\ i.imm \in Imm12
  BY MakeHas DEF Reg, Imm12
<1>2. Entry(FenceOps, op) /\ Asm!Funct3(op) \in 0 .. 7
  BY EntriesAre, Funct3Is
<1> HIDE DEF i
<1>3. w = Asm!IType(15, Asm!Funct3(op), i)
  BY <1>1, EncodeIs
<1> HIDE DEF w
<1>4a. IsIWord(w, 15, Asm!Funct3(op), i)
  BY <1>1, <1>2, <1>3 DEF IsIWord
<1>4. opcode(w) = 15 /\ funct3(w) = Asm!Funct3(op)
  BY <1>1, <1>4a, IFields
<1>5. parseInst(w) = Switch(w, FenceOps, 0, 0, 0, 0)
  BY <1>4 DEF parseInst
<1>6. parseInst(w) = Make(op, 0, 0, 0, 0)
  BY <1>2, <1>4, <1>5, SwitchIs
<1> QED BY <1>6 DEF w, i, Understood

(* Two registers and an immediate whose pieces lie around them. *)
LEMMA StoresParse ==
  ASSUME NEW op \in Asm!STORES, NEW s1 \in Reg, NEW s2 \in Reg, NEW n \in Imm12
  PROVE  Understood(Make(op, 0, s1, s2, n))
<1> DEFINE i == Make(op, 0, s1, s2, n)
           w == Asm!Encode(i)
           d == n % 32
           f7 == (n \div 32) % 128
           f == Asm!Funct3(op)
<1>1. i.op = op /\ i.rs1 = s1 /\ i.rs2 = s2 /\ i.imm = n
  BY MakeHas
<1>2. Entry(StoreOps, op) /\ f \in 0 .. 7
  BY EntriesAre, Funct3Is
<1> HIDE DEF i
<1>3. w = Asm!RType(35, d, f, s1, s2, f7)
  BY <1>1, EncodeIs DEF Asm!SType
<1>4. d \in 0 .. 31 /\ f7 \in 0 .. 127 /\ 32 * ((f7 % 64) - 64 * (f7 \div 64)) + d = n
  BY ImmediatesI DEF Imm12
<1> HIDE DEF d, f7, w, f
<1>5. IsWord(w, 35, d, f, s1, s2, f7)
  BY <1>2, <1>3, <1>4 DEF IsWord, Reg
<1>6. /\ opcode(w) = 35 /\ funct3(w) = f /\ rs1(w) = s1 /\ rs2(w) = s2
      /\ Signed(w, 25) = (f7 % 64) - 64 * (f7 \div 64) /\ Field(w, 7, 5) = d
  BY <1>5, FieldsAre
<1>7. ImmS(w) = n
  BY <1>4, <1>6 DEF ImmS
<1>8. parseInst(w) = Switch(w, StoreOps, 0, s1, s2, n)
  BY <1>6, <1>7 DEF parseInst
<1>9. parseInst(w) = Make(op, 0, s1, s2, n)
  BY <1>2, <1>6, <1>8, SwitchIs DEF f
<1> QED BY <1>9 DEF w, i, Understood

LEMMA BranchesParse ==
  ASSUME NEW op \in Asm!BRANCHES, NEW s1 \in Reg, NEW s2 \in Reg, NEW h \in Imm12
  PROVE  Understood(Make(op, 0, s1, s2, 2 * h))
<1> DEFINE n == 2 * h
           i == Make(op, 0, s1, s2, n)
           w == Asm!Encode(i)
           d == 2 * ((n \div 2) % 16) + ((n \div 2048) % 2)
           f7 == ((n \div 32) % 64) + 64 * ((n \div 4096) % 2)
           f == Asm!Funct3(op)
<1>1. i.op = op /\ i.rs1 = s1 /\ i.rs2 = s2 /\ i.imm = n
  BY MakeHas
<1>2. Entry(BranchOps, op) /\ f \in 0 .. 7
  BY EntriesAre, Funct3Is
<1>4. /\ d \in 0 .. 31 /\ f7 \in 0 .. 127
      /\ 2 * ((-(f7 \div 64)) * 2048 + (d % 2) * 1024 + (f7 % 64) * 16 + d \div 2) = n
  BY ImmediatesB DEF Imm12
<1> HIDE DEF i, n
<1>3. w = Asm!RType(99, d, f, s1, s2, f7)
  BY <1>1, EncodeIs DEF Asm!BType
<1> HIDE DEF d, f7, w, f
<1>5. IsWord(w, 99, d, f, s1, s2, f7)
  BY <1>2, <1>3, <1>4 DEF IsWord, Reg
<1>6. /\ opcode(w) = 99 /\ funct3(w) = f /\ rs1(w) = s1 /\ rs2(w) = s2
      /\ Sign(w) = f7 \div 64 /\ Bit(w, 7) = d % 2 /\ Field(w, 25, 6) = f7 % 64
      /\ Field(w, 8, 4) = d \div 2
  BY <1>5, FieldsAre
<1>7. ImmB(w) = n
  BY <1>4, <1>6 DEF ImmB
<1>8. parseInst(w) = Switch(w, BranchOps, 0, s1, s2, n)
  BY <1>6, <1>7 DEF parseInst
<1>9. parseInst(w) = Make(op, 0, s1, s2, n)
  BY <1>2, <1>6, <1>8, SwitchIs DEF f
<1> QED BY <1>9 DEF w, i, n, Understood

(* Three registers. *)
LEMMA RegistersParse ==
  ASSUME NEW op \in Asm!OP \cup {"sub"} \cup Asm!OPM,
         NEW d \in Reg, NEW s1 \in Reg, NEW s2 \in Reg
  PROVE  Understood(Make(op, d, s1, s2, 0))
<1> DEFINE i == Make(op, d, s1, s2, 0)
           w == Asm!Encode(i)
           f == Asm!Funct3(op)
           f7 == IF op \in Asm!OP THEN 0 ELSE IF op = "sub" THEN 32 ELSE 1
<1>1. i.op = op /\ i.rd = d /\ i.rs1 = s1 /\ i.rs2 = s2
  BY MakeHas
<1>2. f \in 0 .. 7
  BY DEF Asm!OP, Asm!OPM, Asm!Funct3
<1> HIDE DEF i
<1>3. w = Asm!RType(51, d, f, s1, s2, f7)
  BY <1>1, EncodeIs
<1>4. f7 \in 0 .. 127 /\ f7 \div 64 = 0
  OBVIOUS
<1> HIDE DEF w, f
<1>5. IsWord(w, 51, d, f, s1, s2, f7)
  <2> HIDE DEF f7
  <2> QED BY <1>2, <1>3, <1>4 DEF IsWord, Reg
<1>6. /\ opcode(w) = 51 /\ rd(w) = d /\ funct3(w) = f /\ rs1(w) = s1 /\ rs2(w) = s2
      /\ funct7(w) = f7 /\ Sign(w) = 0
  <2> HIDE DEF f7
  <2> QED BY <1>4, <1>5, FieldsAre
<1>7. Entry(RegOps(w), op)
  BY <1>6, RegEntries
<1>8. parseInst(w) = Switch(w, RegOps(w), d, s1, s2, 0)
  BY <1>6 DEF parseInst
<1>9. parseInst(w) = Make(op, d, s1, s2, 0)
  BY <1>6, <1>7, <1>8, SwitchIs DEF f
<1> QED BY <1>9 DEF w, i, Understood

(* A register and the upper twenty bits. *)
LEMMA UpperParses ==
  ASSUME NEW op \in {"lui", "auipc"}, NEW d \in Reg, NEW u \in Int, -524288 <= u, u < 524288
  PROVE  Understood(Make(op, d, 0, 0, 4096 * u))
<1> DEFINE n  == 4096 * u
           i  == Make(op, d, 0, 0, n)
           w  == Asm!Encode(i)
           o  == IF op = "lui" THEN 55 ELSE 23
           q  == n \div 4096
           f  == q % 8
           s1 == (q \div 8) % 32
           s2 == (q \div 256) % 32
           f7 == (q \div 8192) % 128
<1>1. i.op = op /\ i.rd = d /\ i.imm = n
  BY MakeHas
<1>2. /\ f \in 0 .. 7 /\ s1 \in 0 .. 31 /\ s2 \in 0 .. 31 /\ f7 \in 0 .. 127
      /\ (f + 8 * s1 + 256 * s2 + 8192 * (f7 % 64) - 524288 * (f7 \div 64)) * 4096 = n
  BY ImmediatesU
<1> HIDE DEF n, i
<1>3. w = Asm!RType(o, d, f, s1, s2, f7)
  BY <1>1, EncodeOtherIs DEF Asm!UType, Asm!Upper
<1> HIDE DEF w, q, f, s1, s2, f7
<1>4. IsWord(w, o, d, f, s1, s2, f7)
  BY <1>2, <1>3 DEF IsWord, Reg
<1> HIDE DEF o
<1>5. /\ opcode(w) = o /\ rd(w) = d
      /\ Signed(w, 12) = f + 8 * s1 + 256 * s2 + 8192 * (f7 % 64) - 524288 * (f7 \div 64)
  BY <1>4, FieldsAre
<1>6. ImmU(w) = n
  BY <1>2, <1>5 DEF ImmU
<1>7. parseInst(w) = Make(op, d, 0, 0, n)
  BY <1>5, <1>6 DEF parseInst, o
<1> QED BY <1>7 DEF w, i, n, Understood

LEMMA JalParses ==
  ASSUME NEW d \in Reg, NEW h, Half16(h)
  PROVE  Understood(Make("jal", d, 0, 0, 2 * h))
<1> DEFINE n  == 2 * h
           i  == Make("jal", d, 0, 0, n)
           w  == Asm!Encode(i)
           q  == ((n \div 4096) % 256) + 256 * ((n \div 2048) % 2)
                 + 512 * ((n \div 2) % 1024) + 524288 * ((n \div 1048576) % 2)
           f  == q % 8
           s1 == (q \div 8) % 32
           s2 == (q \div 256) % 32
           f7 == (q \div 8192) % 128
<1>1. i.op = "jal" /\ i.rd = d /\ i.imm = n
  BY MakeHas
<1>2. /\ f \in 0 .. 7 /\ s1 \in 0 .. 31 /\ s2 \in 0 .. 31 /\ f7 \in 0 .. 127
      /\ I16(2 * ((-(f7 \div 64)) * 524288 + (f + 8 * s1) * 2048 + (s2 % 2) * 1024
                  + (s2 \div 2 + 16 * (f7 % 64)))) = n
  BY ImmediatesJ
<1> HIDE DEF n, i
<1>3. w = Asm!RType(111, d, f, s1, s2, f7)
  BY <1>1, EncodeOtherIs DEF Asm!JType, Asm!Upper
<1> HIDE DEF w, q, f, s1, s2, f7
<1>4. IsWord(w, 111, d, f, s1, s2, f7)
  BY <1>2, <1>3 DEF IsWord, Reg
<1>5. /\ opcode(w) = 111 /\ rd(w) = d /\ Sign(w) = f7 \div 64
      /\ Field(w, 12, 8) = f + 8 * s1 /\ Bit(w, 20) = s2 % 2
      /\ Field(w, 21, 10) = s2 \div 2 + 16 * (f7 % 64)
  BY <1>4, FieldsAre
<1>6. ImmJ(w) = n
  BY <1>2, <1>5 DEF ImmJ
<1>7. parseInst(w) = Make("jal", d, 0, 0, n)
  BY <1>5, <1>6 DEF parseInst
<1> QED BY <1>7 DEF w, i, n, Understood

LEMMA CsrsParse ==
  ASSUME NEW op \in Asm!ZICSR, NEW d \in Reg, NEW s1 \in Reg, NEW n \in CsrNumber
  PROVE  Understood(Make(op, d, s1, 0, n))
<1> DEFINE i == Make(op, d, s1, 0, n)
           w == Asm!Encode(i)
           s2 == n % 32
           f7 == (n \div 32) % 128
           f == Asm!Funct3(op)
<1>1. i.op = op /\ i.rd = d /\ i.rs1 = s1 /\ i.imm = n
  BY MakeHas
<1>2. Entry(CsrOps, op) /\ f \in 0 .. 7 /\ f # 0
  BY EntriesAre, Funct3Is
<1> HIDE DEF i
<1>3. w = Asm!RType(115, d, f, s1, s2, f7)
  BY <1>1, EncodeIs DEF Asm!IType
<1>4. s2 \in 0 .. 31 /\ f7 \in 0 .. 127 /\ s2 + 32 * f7 = n
  BY ImmediatesCsr, ZenonT(30)
<1> HIDE DEF s2, f7, w, f
<1>5. IsWord(w, 115, d, f, s1, s2, f7)
  BY <1>2, <1>3, <1>4 DEF IsWord, Reg
<1>6. /\ opcode(w) = 115 /\ rd(w) = d /\ funct3(w) = f /\ rs1(w) = s1
      /\ Field(w, 20, 12) = s2 + 32 * f7
  BY <1>5, FieldsAre
<1>7. parseInst(w) = Switch(w, CsrOps, d, s1, 0, n)
  BY <1>2, <1>4, <1>6 DEF parseInst
<1>8. parseInst(w) = Make(op, d, s1, 0, n)
  BY <1>2, <1>6, <1>7, SwitchIs DEF f
<1> QED BY <1>8 DEF w, i, Understood

LEMMA SystemParses ==
  ASSUME NEW op \in {"ecall", "ebreak", "mret"}
  PROVE  Understood(Make(op, 0, 0, 0, 0))
<1> DEFINE i == Make(op, 0, 0, 0, 0)
           w == Asm!Encode(i)
           s2 == IF op = "ecall" THEN 0 ELSE IF op = "ebreak" THEN 1 ELSE 2
           f7 == IF op = "mret" THEN 24 ELSE 0
<1>1. i.op = op
  BY MakeHas
<1> HIDE DEF i
<1>2. w = Asm!RType(115, 0, 0, 0, s2, f7)
  BY <1>1, EncodeOtherIs
<1>3. s2 \in 0 .. 31 /\ f7 \in 0 .. 127
  OBVIOUS
<1>4. w = MRET <=> op = "mret"
  BY <1>2 DEF Asm!RType, MRET
<1>5. IsWord(w, 115, 0, 0, 0, s2, f7)
  <2> HIDE DEF w, s2, f7
  <2> QED BY <1>2, <1>3 DEF IsWord
<1>6. /\ opcode(w) = 115 /\ funct3(w) = 0 /\ Field(w, 20, 12) = s2 + 32 * f7
  <2> HIDE DEF w, s2, f7
  <2> QED BY <1>5, FieldsAre
<1> HIDE DEF w
<1>7. System(w) = op
  <2>1. s2 + 32 * f7 = 0 <=> op = "ecall"
    OBVIOUS
  <2>2. Field(w, 20, 12) = 0 <=> op = "ecall"
    <3> HIDE DEF s2, f7
    <3> QED BY <1>6, <2>1
  <2>3. CASE op = "ecall"
    BY <1>4, <2>2, <2>3 DEF System
  <2>4. CASE op = "ebreak"
    BY <1>4, <2>2, <2>4 DEF System
  <2>5. CASE op = "mret"
    BY <1>4, <2>5 DEF System
  <2> QED BY <2>3, <2>4, <2>5
<1>8. parseInst(w) = Make(op, 0, 0, 0, 0)
  BY <1>6, <1>7 DEF parseInst
<1> QED BY <1>8 DEF w, i, Understood

-----------------------------------------------------------------------------
(* What is in memory is what was assembled. *)
Even12 == {2 * h : h \in Imm12}

(* The instructions that the emulator supports as the manual has them: each of their
   registers and of their immediates.  jalr's offset is 0, and srai and sra are not
   among them; jal's offset is what an i16 holds. *)
Supported(i) ==
  \/ \E op \in Asm!LOADS, d \in Reg, s \in Reg, n \in Imm12 : i = Make(op, d, s, 0, n)
  \/ \E op \in Asm!OPIMM, d \in Reg, s \in Reg, n \in Imm12 :
       (op \in {"slli", "srli"} => n \in 0 .. 31) /\ i = Make(op, d, s, 0, n)
  \/ \E op \in Asm!STORES, s \in Reg, t \in Reg, n \in Imm12 : i = Make(op, 0, s, t, n)
  \/ \E op \in Asm!BRANCHES, s \in Reg, t \in Reg, h \in Imm12 : i = Make(op, 0, s, t, 2 * h)
  \/ \E op \in Asm!OP \cup {"sub"} \cup Asm!OPM, d \in Reg, s \in Reg, t \in Reg :
       i = Make(op, d, s, t, 0)
  \/ \E op \in {"lui", "auipc"}, d \in Reg, u \in Int :
       -524288 <= u /\ u < 524288 /\ i = Make(op, d, 0, 0, 4096 * u)
  \/ \E d \in Reg, h \in Int : Half16(h) /\ i = Make("jal", d, 0, 0, 2 * h)
  \/ \E d \in Reg, s \in Reg : i = Make("jalr", d, s, 0, 0)
  \/ \E op \in Asm!ZICSR, d \in Reg, s \in Reg, n \in CsrNumber : i = Make(op, d, s, 0, n)
  \/ \E op \in Asm!MISCMEM \cup {"ecall", "ebreak", "mret"} : i = Make(op, 0, 0, 0, 0)

IsTuple(w) == w = [n \in 1 .. 4 |-> w[n]]

(* A word that stops preParseInst. *)
IsData(i) ==
  \E w : /\ i = Raw(w) /\ IsTuple(w)
         /\ w = MAGIC \/ parseInst(w) = Refused

IsProgram(s) == /\ Len(s) \in Nat /\ DOMAIN s = 1 .. Len(s)
                /\ \A k \in DOMAIN s : Supported(s[k]) \/ IsData(s[k])

LEMMA SupportedIsUnderstood ==
  ASSUME NEW i, Supported(i)
  PROVE  /\ Understood(i)
         /\ \E op, d, s, t, n : i = Make(op, d, s, t, n) /\ op # "raw" /\ op # "refused"
<1>1. CASE \E op \in Asm!LOADS, d \in Reg, s \in Reg, n \in Imm12 : i = Make(op, d, s, 0, n)
  <2>1. PICK op \in Asm!LOADS, d \in Reg, s \in Reg, n \in Imm12 : i = Make(op, d, s, 0, n)
    BY <1>1
  <2>2. op # "raw" /\ op # "refused"
    BY DEF Asm!LOADS
  <2> QED BY <2>1, <2>2, LoadsParse
<1>2. CASE \E op \in Asm!OPIMM, d \in Reg, s \in Reg, n \in Imm12 :
             (op \in {"slli", "srli"} => n \in 0 .. 31) /\ i = Make(op, d, s, 0, n)
  <2>1. PICK op \in Asm!OPIMM, d \in Reg, s \in Reg, n \in Imm12 :
               (op \in {"slli", "srli"} => n \in 0 .. 31) /\ i = Make(op, d, s, 0, n)
    BY <1>2
  <2>2. op # "raw" /\ op # "refused"
    BY DEF Asm!OPIMM
  <2> QED BY <2>1, <2>2, ImmediatesParse
<1>3. CASE \E op \in Asm!STORES, s \in Reg, t \in Reg, n \in Imm12 : i = Make(op, 0, s, t, n)
  <2>1. PICK op \in Asm!STORES, s \in Reg, t \in Reg, n \in Imm12 : i = Make(op, 0, s, t, n)
    BY <1>3
  <2>2. op # "raw" /\ op # "refused"
    BY DEF Asm!STORES
  <2> QED BY <2>1, <2>2, StoresParse
<1>4. CASE \E op \in Asm!BRANCHES, s \in Reg, t \in Reg, h \in Imm12 : i = Make(op, 0, s, t, 2 * h)
  <2>1. PICK op \in Asm!BRANCHES, s \in Reg, t \in Reg, h \in Imm12 : i = Make(op, 0, s, t, 2 * h)
    BY <1>4
  <2>2. op # "raw" /\ op # "refused"
    BY DEF Asm!BRANCHES
  <2> QED BY <2>1, <2>2, BranchesParse
<1>5. CASE \E op \in Asm!OP \cup {"sub"} \cup Asm!OPM, d \in Reg, s \in Reg, t \in Reg :
             i = Make(op, d, s, t, 0)
  <2>1. PICK op \in Asm!OP \cup {"sub"} \cup Asm!OPM, d \in Reg, s \in Reg, t \in Reg :
               i = Make(op, d, s, t, 0)
    BY <1>5
  <2>2. op # "raw" /\ op # "refused"
    BY DEF Asm!OP, Asm!OPM
  <2> QED BY <2>1, <2>2, RegistersParse
<1>6. CASE \E op \in {"lui", "auipc"}, d \in Reg, u \in Int :
             -524288 <= u /\ u < 524288 /\ i = Make(op, d, 0, 0, 4096 * u)
  <2>1. PICK op \in {"lui", "auipc"}, d \in Reg, u \in Int :
               -524288 <= u /\ u < 524288 /\ i = Make(op, d, 0, 0, 4096 * u)
    BY <1>6
  <2>2. op # "raw" /\ op # "refused"
    OBVIOUS
  <2>3. Understood(Make(op, d, 0, 0, 4096 * u))
    BY <2>1, UpperParses
  <2> QED BY <2>1, <2>2, <2>3
<1>7. CASE \E d \in Reg, h \in Int : Half16(h) /\ i = Make("jal", d, 0, 0, 2 * h)
  <2>1. PICK d \in Reg, h \in Int : Half16(h) /\ i = Make("jal", d, 0, 0, 2 * h)
    BY <1>7
  <2> QED BY <2>1, JalParses
<1>8. CASE \E d \in Reg, s \in Reg : i = Make("jalr", d, s, 0, 0)
  BY <1>8, JalrParses
<1>9. CASE \E op \in Asm!ZICSR, d \in Reg, s \in Reg, n \in CsrNumber : i = Make(op, d, s, 0, n)
  <2>1. PICK op \in Asm!ZICSR, d \in Reg, s \in Reg, n \in CsrNumber : i = Make(op, d, s, 0, n)
    BY <1>9
  <2>2. op # "raw" /\ op # "refused"
    BY DEF Asm!ZICSR
  <2>3. Understood(Make(op, d, s, 0, n))
    BY CsrsParse
  <2> QED BY <2>1, <2>2, <2>3
<1>10. CASE \E op \in Asm!MISCMEM \cup {"ecall", "ebreak", "mret"} : i = Make(op, 0, 0, 0, 0)
  <2>1. PICK op \in Asm!MISCMEM \cup {"ecall", "ebreak", "mret"} : i = Make(op, 0, 0, 0, 0)
    BY <1>10
  <2>2. op # "raw" /\ op # "refused"
    BY DEF Asm!MISCMEM
  <2>3. CASE op \in Asm!MISCMEM
    BY <2>1, <2>2, <2>3, FencesParse
  <2>4. CASE op \in {"ecall", "ebreak", "mret"}
    BY <2>1, <2>2, <2>4, SystemParses
  <2> QED BY <2>3, <2>4
<1> QED BY <1>1, <1>2, <1>3, <1>4, <1>5, <1>6, <1>7, <1>8, <1>9, <1>10 DEF Supported

(* MAGIC's opcode is none. *)
LEMMA MagicIsRefused == parseInst(MAGIC) = Refused
<1>1. opcode(MAGIC) = 94
  BY DEF opcode, MAGIC
<1> QED BY <1>1 DEF parseInst

LEMMA RTypeIsTuple ==
  ASSUME NEW o, NEW d, NEW f, NEW s, NEW t, NEW f7
  PROVE  IsTuple(Asm!RType(o, d, f, s, t, f7))
BY DEF IsTuple, Asm!RType

LEMMA EncodeIsTuple ==
  ASSUME NEW i,
         i.op \in Asm!LOADS \cup Asm!OPIMM \cup Asm!STORES \cup Asm!BRANCHES \cup Asm!OP
                 \cup Asm!OPM \cup Asm!ZICSR \cup Asm!MISCMEM
                 \cup {"sub", "lui", "auipc", "jal", "jalr", "ecall", "ebreak", "mret"}
  PROVE  IsTuple(Asm!Encode(i))
<1>1. /\ \A o, f, j : IsTuple(Asm!IType(o, f, j))
      /\ \A o, f, j : IsTuple(Asm!SType(o, f, j))
      /\ \A o, f, j : IsTuple(Asm!BType(o, f, j))
  BY RTypeIsTuple DEF Asm!IType, Asm!SType, Asm!BType
<1>2. /\ \A o, j : IsTuple(Asm!UType(o, j))
      /\ \A o, j : IsTuple(Asm!JType(o, j))
  BY RTypeIsTuple DEF Asm!UType, Asm!JType, Asm!Upper
<1>3. CASE i.op \in Asm!LOADS \cup Asm!OPIMM \cup Asm!STORES \cup Asm!BRANCHES \cup Asm!OP
                 \cup Asm!OPM \cup Asm!ZICSR \cup Asm!MISCMEM \cup {"sub"}
  BY <1>1, <1>3, EncodeIs, RTypeIsTuple
<1>4. CASE i.op \in {"lui", "auipc", "jal", "jalr", "ecall", "ebreak", "mret"}
  BY <1>1, <1>2, <1>4, EncodeOtherIs, RTypeIsTuple
<1> QED BY <1>3, <1>4

LEMMA SupportedIsTuple ==
  ASSUME NEW i, Supported(i)
  PROVE  IsTuple(Asm!Encode(i))
<1>1. i.op \in Asm!LOADS \cup Asm!OPIMM \cup Asm!STORES \cup Asm!BRANCHES \cup Asm!OP
                 \cup Asm!OPM \cup Asm!ZICSR \cup Asm!MISCMEM
                 \cup {"sub", "lui", "auipc", "jal", "jalr", "ecall", "ebreak", "mret"}
  BY MakeHas DEF Supported
<1> QED BY <1>1, EncodeIsTuple

(* Where the file comes from, and that memory has whole words: the part of the
   inductive invariant that LoaderInv leaves out. *)
SourceInv ==
  /\ source \in Sources
  /\ \E cut \in Cuts : file = [b \in 1 .. 4 * Len(source) - cut |-> ByteOf(Words, b - 1)]
  /\ \A a \in CodeAddresses : IsTuple(memory[a])

LEMMA SourceInit ==
  ASSUME Init
  PROVE  SourceInv
<1>1. IsTuple(MAGIC)
  BY DEF IsTuple, MAGIC
<1>2. \A a \in CodeAddresses : memory[a] = MAGIC
  <2>1. memory = [a \in CodeAddresses \cup TrampolineAddresses |->
                    IF a \in TRAMPOLINE .. TRAMPOLINE + Len(trampoline_code) - 1
                    THEN trampoline_code[a - TRAMPOLINE + 1] ELSE MAGIC]
    BY DEF Init
  <2> QED BY <2>1, Places, Regions
<1> QED BY <1>1, <1>2 DEF Init, SourceInv

LEMMA SourceStep ==
  ASSUME LoaderInv, SourceInv, [Next]_vars
  PROVE  SourceInv'
<1>1. source' = source /\ file' = file /\ Words' = Words
  BY DEF Next, LoadWord, LoadEnds, ParseWord, ParseEnds, Ready, vars, Words
<1>2. ASSUME NEW a \in CodeAddresses
      PROVE  IsTuple(memory'[a])
  <2>1. IsTuple(memory[a])
    BY DEF SourceInv
  <2>2. CASE LoadWord
    <3> DEFINE w == SubSeq(Buffer, 4 * at + 1, 4 * at + 4)
    <3>1. /\ memory' = [memory EXCEPT ![at] = w] /\ at \in Nat
          /\ a \in DOMAIN memory
      BY <2>2 DEF LoadWord, LoaderInv
    <3>2. IsTuple(w)
      <4> DEFINE S == {Buffer[i] : i \in 4 * at + 1 .. 4 * at + 4}
      <4>1. /\ 4 * at + 1 \in Int /\ 4 * at + 4 \in Int /\ (4 * at + 4) - (4 * at + 1) + 1 = 4
            /\ \A i \in 4 * at + 1 .. 4 * at + 4 : Buffer[i] \in S
        BY <3>1
      <4> HIDE DEF S
      <4>2. w \in Seq(S) /\ Len(w) = 4
        BY <3>1, <4>1, SubSeqProperties
      <4> HIDE DEF w
      <4> QED BY <4>2 DEF IsTuple
    <3> HIDE DEF w
    <3>3. CASE a = at
      <4>1. memory'[a] = w
        BY <3>1, <3>3
      <4> QED BY <3>2, <4>1
    <3>4. CASE a # at
      <4>1. memory'[a] = memory[a]
        BY <3>1, <3>4
      <4> QED BY <2>1, <4>1
    <3> QED BY <3>3, <3>4
  <2>3. CASE UNCHANGED memory
    BY <2>1, <2>3 DEF IsTuple
  <2> QED BY <2>2, <2>3 DEF Next, LoadEnds, ParseWord, ParseEnds, Ready, vars
<1>3. CodeAddresses' = CodeAddresses
  BY DEF CodeAddresses
<1> QED BY <1>1, <1>2, <1>3 DEF SourceInv, IsTuple, ByteOf

(* A whole file's words in memory. *)
LEMMA WordsInMemory ==
  ASSUME LoaderInv, SourceInv, AtPrompt, IsProgram(source), 4 * Len(source) = Len(file)
  PROVE  /\ \A k \in 1 .. Len(source) : k - 1 \in CodeAddresses /\ memory[k - 1] = WordOf(source[k])
         /\ Len(source) \in CodeAddresses /\ memory[Len(source)] = MAGIC
         /\ Len(source) \in Nat /\ DOMAIN source = 1 .. Len(source)
<1> DEFINE L == Len(source)
<1>1. L \in Nat /\ DOMAIN source = 1 .. L
  BY DEF IsProgram
<1>2. L <= CODE_WORDS - 1 /\ CODE_WORDS \in Int
  BY Places, LoaderAssumption DEF SourceInv
<1>3. PICK cut \in Cuts : file = [b \in 1 .. 4 * L - cut |-> ByteOf(Words, b - 1)]
  BY DEF SourceInv
<1>4. cut \in 0 .. 3
  BY LoaderAssumption
<1>5. Len(file) = 4 * L - cut
  <2>1. L >= 1
    BY LoaderAssumption DEF SourceInv
  <2> DEFINE N == 4 * L - cut
  <2>2. N \in Nat
    BY <1>1, <1>4, <2>1
  <2>3. file = [b \in 1 .. N |-> file[b]]
    BY <1>3
  <2> HIDE DEF N
  <2>4. Len(file) = N
    BY <2>2, <2>3
  <2> QED BY <2>4 DEF N
<1>6. cut = 0 /\ \A b \in 1 .. 4 * L : file[b] = ByteOf(Words, b - 1)
  <2>1. cut = 0
    BY <1>1, <1>4, <1>5
  <2>2. 4 * L - cut = 4 * L
    BY <1>1, <2>1
  <2> QED BY <1>3, <2>1, <2>2
<1>7. \A a \in CodeAddresses : FileAt(a)
  BY DEF LoaderInv, AtPrompt
<1>8. ASSUME NEW k \in 1 .. L
      PROVE  k - 1 \in CodeAddresses /\ memory[k - 1] = WordOf(source[k])
  <2> DEFINE m == memory[k - 1]
             w == WordOf(source[k])
  <2>1. k - 1 \in CodeAddresses
    BY <1>1, <1>2, Regions
  <2>2. ASSUME NEW n \in 1 .. 4
        PROVE  m[n] = w[n]
    <3>1. m[n] = file[4 * (k - 1) + n]
      <4>1. ~(4 * (k - 1) >= Len(file)) /\ 4 * (k - 1) + n <= Len(file)
        BY <1>1
      <4> DEFINE a == k - 1
      <4>2. FileAt(a) /\ ~(4 * a >= Len(file)) /\ 4 * a + n <= Len(file)
        BY <1>7, <2>1, <4>1
      <4> HIDE DEF a, m
      <4>3. memory[a][n] = file[4 * a + n]
        BY <4>2 DEF FileAt
      <4> QED BY <4>3 DEF a, m
    <3>2. 4 * (k - 1) + n \in 1 .. 4 * L
      BY <1>1
    <3>3. file[4 * (k - 1) + n] = ByteOf(Words, 4 * (k - 1) + n - 1)
      BY <1>6, <3>2
    <3>4. /\ ((4 * (k - 1) + n - 1) \div 4) + 1 = k
          /\ ((4 * (k - 1) + n - 1) % 4) + 1 = n
      BY <1>1
    <3>5. Words[k] = w
      BY <1>1 DEF Words
    <3> HIDE DEF m, w
    <3> QED BY <3>1, <3>3, <3>4, <3>5 DEF ByteOf
  <2>3. IsTuple(m)
    BY <2>1 DEF SourceInv
  <2>4. IsTuple(w)
    <3>1. CASE Supported(source[k])
      <4>1. PICK op, d, s, t, n : source[k] = Make(op, d, s, t, n) /\ op # "raw"
        BY <3>1, SupportedIsUnderstood
      <4>2. w = Asm!Encode(source[k])
        BY <4>1, MakeHas DEF WordOf
      <4> HIDE DEF w
      <4> QED BY <3>1, <4>2, SupportedIsTuple
    <3>2. CASE IsData(source[k])
      <4>1. PICK v : source[k] = Raw(v) /\ IsTuple(v)
        BY <3>2 DEF IsData
      <4>2. w = v
        BY <4>1 DEF WordOf, Raw
      <4> QED BY <4>1, <4>2
    <3> QED BY <1>1, <3>1, <3>2 DEF IsProgram
  <2>5. m = w
    <3> HIDE DEF m, w
    <3> QED BY <2>2, <2>3, <2>4 DEF IsTuple
  <2> QED BY <2>1, <2>5
<1>9. L \in CodeAddresses /\ memory[L] = MAGIC
  <2>1. L \in CodeAddresses
    BY <1>1, <1>2, Regions
  <2> QED BY <1>1, <1>7, <2>1 DEF FileAt
<1> QED BY <1>1, <1>8, <1>9

LEMMA WhatParses ==
  ASSUME LoaderInv, SourceInv, AtPrompt, IsProgram(source), 4 * Len(source) = Len(file)
  PROVE  /\ \A k \in 1 .. Len(source) : Parses(k - 1) <=> source[k].op # "raw"
         /\ \A k \in 1 .. Len(source) :
              source[k].op # "raw" => parseInst(memory[k - 1]) = source[k]
         /\ ~Parses(Len(source))
<1>1. ASSUME NEW k \in 1 .. Len(source)
      PROVE  /\ Parses(k - 1) <=> source[k].op # "raw"
             /\ source[k].op # "raw" => parseInst(memory[k - 1]) = source[k]
  <2>0. memory[k - 1] = WordOf(source[k]) /\ k \in DOMAIN source
    BY WordsInMemory
  <2>1. CASE Supported(source[k])
    <3>1. PICK op, d, s, t, n : /\ source[k] = Make(op, d, s, t, n)
                                /\ op # "raw" /\ op # "refused"
      BY <2>1, SupportedIsUnderstood
    <3>2. source[k].op = op
      BY <3>1, MakeHas
    <3>3. memory[k - 1] = Asm!Encode(source[k])
      BY <2>0, <3>1, <3>2 DEF WordOf
    <3>4. parseInst(memory[k - 1]) = source[k]
      BY <2>1, <3>3, SupportedIsUnderstood DEF Understood
    <3>5. source[k] # Refused
      BY <3>1, <3>2 DEF Refused
    <3>6. memory[k - 1] # MAGIC
      BY <3>4, <3>5, MagicIsRefused
    <3> QED BY <3>1, <3>2, <3>4, <3>5, <3>6 DEF Parses
  <2>2. CASE IsData(source[k])
    <3>1. PICK v : source[k] = Raw(v) /\ (v = MAGIC \/ parseInst(v) = Refused)
      BY <2>2 DEF IsData
    <3>2. source[k].op = "raw" /\ memory[k - 1] = v
      BY <2>0, <3>1 DEF Raw, WordOf
    <3> QED BY <3>1, <3>2 DEF Parses
  <2> QED BY <2>0, <2>1, <2>2 DEF IsProgram
<1>2. ~Parses(Len(source))
  BY WordsInMemory DEF Parses
<1> QED BY <1>1, <1>2

LEMMA EnteredAsAssembled ==
  ASSUME LoaderInv, SourceInv, IsProgram(source)
  PROVE  ParsedAsAssembled
<1> SUFFICES ASSUME AtPrompt, 4 * Len(source) = Len(file)
             PROVE  /\ DOMAIN parsed \cap CodeAddresses = {k - 1 : k \in Prefix}
                    /\ \A k \in Prefix : parsed[k - 1] = source[k]
  BY DEF ParsedAsAssembled
<1> DEFINE L == Len(source)
<1>1. /\ L \in Nat /\ DOMAIN source = 1 .. L /\ L \in CodeAddresses
      /\ \A k \in 1 .. L : k - 1 \in CodeAddresses
  BY WordsInMemory
<1>2. /\ \A k \in 1 .. L : Parses(k - 1) <=> source[k].op # "raw"
      /\ \A k \in 1 .. L : source[k].op # "raw" => parseInst(memory[k - 1]) = source[k]
      /\ ~Parses(L)
  BY WhatParses
<1>3. DOMAIN parsed = Found(CodeAddresses) \cup Found(TrampolineAddresses)
  BY DEF LoaderInv, AtPrompt
<1>4. DOMAIN parsed \cap CodeAddresses = Found(CodeAddresses)
  BY <1>3, Regions DEF Found
<1> HIDE DEF L
<1>5. ASSUME NEW a \in Found(CodeAddresses)
      PROVE  a + 1 \in Prefix
  <2>1. a \in CodeAddresses /\ a \in Int /\ 0 <= a
    BY Regions DEF Found
  <2>2. a < L
    BY <1>1, <1>2, <2>1 DEF Found
  <2>3. ASSUME NEW j \in 1 .. a + 1
        PROVE  source[j].op # "raw"
    <3>1. j \in 1 .. L /\ j - 1 <= a
      BY <1>1, <2>1, <2>2
    <3>2. Parses(j - 1)
      BY <1>1, <3>1 DEF Found
    <3> QED BY <1>2, <3>1, <3>2
  <2>4. a + 1 \in DOMAIN source
    BY <1>1, <2>1, <2>2
  <2> QED BY <2>3, <2>4 DEF Prefix
<1>6. ASSUME NEW k \in Prefix
      PROVE  k - 1 \in Found(CodeAddresses) /\ k \in 1 .. L /\ source[k].op # "raw"
  <2>1. k \in 1 .. L /\ \A j \in 1 .. k : source[j].op # "raw"
    BY <1>1 DEF Prefix
  <2>2. ASSUME NEW b \in CodeAddresses, b <= k - 1
        PROVE  Parses(b)
    <3>1. b \in Int /\ b + 1 \in 1 .. k /\ b + 1 \in 1 .. L /\ (b + 1) - 1 = b
      BY <1>1, <2>1, <2>2, Regions
    <3> QED BY <1>2, <2>1, <3>1
  <2>3. k \in 1 .. k
    BY <1>1, <2>1
  <2> QED BY <1>1, <2>1, <2>2, <2>3 DEF Found
<1>7. Found(CodeAddresses) = {k - 1 : k \in Prefix}
  <2>1. ASSUME NEW a \in Found(CodeAddresses)
        PROVE  a \in {k - 1 : k \in Prefix}
    <3>1. a \in Int /\ a = (a + 1) - 1
      BY Regions DEF Found
    <3> QED BY <1>5, <3>1
  <2> QED BY <1>6, <2>1
<1>8. ASSUME NEW k \in Prefix
      PROVE  parsed[k - 1] = source[k]
  <2>1. k - 1 \in DOMAIN parsed
    BY <1>3, <1>6
  <2>2. parsed[k - 1] = parseInst(memory[k - 1])
    BY <2>1 DEF LoaderInv
  <2> QED BY <1>2, <1>6, <2>2
<1> QED BY <1>4, <1>7, <1>8

-----------------------------------------------------------------------------
(* initTrap's words. *)
(* What the handler's words are. *)
Handler == <<
  Make("csrrsi", 10, 0, 0, 834), Make("addi", 11, 0, 0, 1),
  Make("beq", 0, 10, 11, 28), Make("addi", 11, 0, 0, 2),
  Make("beq", 0, 10, 11, 40), Make("addi", 11, 0, 0, 3),
  Make("beq", 0, 10, 11, 56), Make("addi", 11, 0, 0, 4),
  Make("beq", 0, 10, 11, 68), Make("addi", 17, 0, 0, 1),
  Make("ecall", 0, 0, 0, 0), Make("add", 0, 0, 0, 0),
  Make("ecall", 0, 0, 0, 0), Make("jal", 0, 0, 0, 68),
  Make("addi", 17, 0, 0, 1), Make("ecall", 0, 0, 0, 0),
  Make("addi", 5, 5, 0, 1), Make("addi", 5, 5, 0, -1),
  Make("ecall", 0, 0, 0, 0), Make("jal", 0, 0, 0, 44),
  Make("addi", 17, 0, 0, 1), Make("ecall", 0, 0, 0, 0),
  Make("xori", 6, 6, 0, 0), Make("ecall", 0, 0, 0, 0),
  Make("jal", 0, 0, 0, 24), Make("addi", 17, 0, 0, 1),
  Make("ecall", 0, 0, 0, 0), Make("andi", 7, 7, 0, 1),
  Make("ecall", 0, 0, 0, 0), Make("jal", 0, 0, 0, 4),
  Make("mret", 0, 0, 0, 0) >>

LEMMA HandlerWords ==
  /\ parseInst(<<115, 101, 32, 52>>) = Make("csrrsi", 10, 0, 0, 834)
  /\ parseInst(<<147, 5, 16, 0>>) = Make("addi", 11, 0, 0, 1)
  /\ parseInst(<<147, 5, 32, 0>>) = Make("addi", 11, 0, 0, 2)
  /\ parseInst(<<147, 5, 48, 0>>) = Make("addi", 11, 0, 0, 3)
  /\ parseInst(<<147, 5, 64, 0>>) = Make("addi", 11, 0, 0, 4)
  /\ parseInst(<<147, 8, 16, 0>>) = Make("addi", 17, 0, 0, 1)
  /\ parseInst(<<147, 130, 18, 0>>) = Make("addi", 5, 5, 0, 1)
  /\ parseInst(<<147, 130, 242, 255>>) = Make("addi", 5, 5, 0, -1)
  /\ parseInst(<<19, 67, 3, 0>>) = Make("xori", 6, 6, 0, 0)
  /\ parseInst(<<147, 243, 19, 0>>) = Make("andi", 7, 7, 0, 1)
  /\ parseInst(<<99, 14, 181, 0>>) = Make("beq", 0, 10, 11, 28)
  /\ parseInst(<<99, 4, 181, 2>>) = Make("beq", 0, 10, 11, 40)
  /\ parseInst(<<99, 12, 181, 2>>) = Make("beq", 0, 10, 11, 56)
  /\ parseInst(<<99, 2, 181, 4>>) = Make("beq", 0, 10, 11, 68)
  /\ parseInst(<<115, 0, 0, 0>>) = Make("ecall", 0, 0, 0, 0)
  /\ parseInst(<<115, 0, 32, 48>>) = Make("mret", 0, 0, 0, 0)
  /\ parseInst(<<51, 0, 0, 0>>) = Make("add", 0, 0, 0, 0)
  /\ parseInst(<<111, 0, 64, 4>>) = Make("jal", 0, 0, 0, 68)
  /\ parseInst(<<111, 0, 192, 2>>) = Make("jal", 0, 0, 0, 44)
  /\ parseInst(<<111, 0, 128, 1>>) = Make("jal", 0, 0, 0, 24)
  /\ parseInst(<<111, 0, 64, 0>>) = Make("jal", 0, 0, 0, 4)
<1>1. /\ parseInst(<<115, 101, 32, 52>>) = Make("csrrsi", 10, 0, 0, 834)
  BY DEF parseInst, opcode, rd, rs1, rs2, funct3, Field, Low, Sign, Switch,
         CsrOps
<1>2. /\ parseInst(<<147, 5, 16, 0>>) = Make("addi", 11, 0, 0, 1)
      /\ parseInst(<<147, 5, 32, 0>>) = Make("addi", 11, 0, 0, 2)
      /\ parseInst(<<147, 5, 48, 0>>) = Make("addi", 11, 0, 0, 3)
      /\ parseInst(<<147, 5, 64, 0>>) = Make("addi", 11, 0, 0, 4)
      /\ parseInst(<<147, 8, 16, 0>>) = Make("addi", 17, 0, 0, 1)
      /\ parseInst(<<147, 130, 18, 0>>) = Make("addi", 5, 5, 0, 1)
      /\ parseInst(<<147, 130, 242, 255>>) = Make("addi", 5, 5, 0, -1)
      /\ parseInst(<<19, 67, 3, 0>>) = Make("xori", 6, 6, 0, 0)
      /\ parseInst(<<147, 243, 19, 0>>) = Make("andi", 7, 7, 0, 1)
  BY DEF parseInst, opcode, rd, rs1, rs2, funct3, Field, Low, Sign, Switch,
         Signed, ImmI, ImmOps
<1>3. /\ parseInst(<<99, 14, 181, 0>>) = Make("beq", 0, 10, 11, 28)
      /\ parseInst(<<99, 4, 181, 2>>) = Make("beq", 0, 10, 11, 40)
      /\ parseInst(<<99, 12, 181, 2>>) = Make("beq", 0, 10, 11, 56)
      /\ parseInst(<<99, 2, 181, 4>>) = Make("beq", 0, 10, 11, 68)
  BY DEF parseInst, opcode, rd, rs1, rs2, funct3, Field, Low, Sign, Switch,
         Bit, ImmB, BranchOps
<1>4. /\ parseInst(<<115, 0, 0, 0>>) = Make("ecall", 0, 0, 0, 0)
      /\ parseInst(<<115, 0, 32, 48>>) = Make("mret", 0, 0, 0, 0)
  BY DEF parseInst, opcode, rd, rs1, rs2, funct3, Field, Low, Sign, Switch,
         System, MRET
<1>5. /\ parseInst(<<51, 0, 0, 0>>) = Make("add", 0, 0, 0, 0)
  BY DEF parseInst, opcode, rd, rs1, rs2, funct3, Field, Low, Sign, Switch,
         RegOps, funct7
<1>6. /\ parseInst(<<111, 0, 64, 4>>) = Make("jal", 0, 0, 0, 68)
      /\ parseInst(<<111, 0, 192, 2>>) = Make("jal", 0, 0, 0, 44)
      /\ parseInst(<<111, 0, 128, 1>>) = Make("jal", 0, 0, 0, 24)
      /\ parseInst(<<111, 0, 64, 0>>) = Make("jal", 0, 0, 0, 4)
  BY DEF parseInst, opcode, rd, rs1, rs2, funct3, Field, Low, Sign, Switch,
         Bit, ImmJ, I16
<1> QED BY <1>1, <1>2, <1>3, <1>4, <1>5, <1>6

LEMMA HandlerIs ==
  ASSUME NEW k \in 1 .. 31
  PROVE  parseInst(trampoline_code[k]) = Handler[k]
<1>1. /\ trampoline_code[1] = <<115, 101, 32, 52>>
      /\ trampoline_code[2] = <<147, 5, 16, 0>> /\ trampoline_code[3] = <<99, 14, 181, 0>>
      /\ trampoline_code[4] = <<147, 5, 32, 0>> /\ trampoline_code[5] = <<99, 4, 181, 2>>
      /\ trampoline_code[6] = <<147, 5, 48, 0>> /\ trampoline_code[7] = <<99, 12, 181, 2>>
      /\ trampoline_code[8] = <<147, 5, 64, 0>> /\ trampoline_code[9] = <<99, 2, 181, 4>>
      /\ trampoline_code[10] = <<147, 8, 16, 0>> /\ trampoline_code[11] = <<115, 0, 0, 0>>
      /\ trampoline_code[12] = <<51, 0, 0, 0>> /\ trampoline_code[13] = <<115, 0, 0, 0>>
      /\ trampoline_code[14] = <<111, 0, 64, 4>>
      /\ trampoline_code[15] = <<147, 8, 16, 0>> /\ trampoline_code[16] = <<115, 0, 0, 0>>
      /\ trampoline_code[17] = <<147, 130, 18, 0>>
      /\ trampoline_code[18] = <<147, 130, 242, 255>>
      /\ trampoline_code[19] = <<115, 0, 0, 0>>
      /\ trampoline_code[20] = <<111, 0, 192, 2>>
      /\ trampoline_code[21] = <<147, 8, 16, 0>> /\ trampoline_code[22] = <<115, 0, 0, 0>>
      /\ trampoline_code[23] = <<19, 67, 3, 0>> /\ trampoline_code[24] = <<115, 0, 0, 0>>
      /\ trampoline_code[25] = <<111, 0, 128, 1>>
      /\ trampoline_code[26] = <<147, 8, 16, 0>> /\ trampoline_code[27] = <<115, 0, 0, 0>>
      /\ trampoline_code[28] = <<147, 243, 19, 0>>
      /\ trampoline_code[29] = <<115, 0, 0, 0>> /\ trampoline_code[30] = <<111, 0, 64, 0>>
      /\ trampoline_code[31] = <<115, 0, 32, 48>>
  BY DEF trampoline_code
<1>2. /\ Handler[1] = Make("csrrsi", 10, 0, 0, 834)
      /\ Handler[2] = Make("addi", 11, 0, 0, 1) /\ Handler[3] = Make("beq", 0, 10, 11, 28)
      /\ Handler[4] = Make("addi", 11, 0, 0, 2) /\ Handler[5] = Make("beq", 0, 10, 11, 40)
      /\ Handler[6] = Make("addi", 11, 0, 0, 3) /\ Handler[7] = Make("beq", 0, 10, 11, 56)
      /\ Handler[8] = Make("addi", 11, 0, 0, 4) /\ Handler[9] = Make("beq", 0, 10, 11, 68)
      /\ Handler[10] = Make("addi", 17, 0, 0, 1)
      /\ Handler[11] = Make("ecall", 0, 0, 0, 0) /\ Handler[12] = Make("add", 0, 0, 0, 0)
      /\ Handler[13] = Make("ecall", 0, 0, 0, 0) /\ Handler[14] = Make("jal", 0, 0, 0, 68)
      /\ Handler[15] = Make("addi", 17, 0, 0, 1)
      /\ Handler[16] = Make("ecall", 0, 0, 0, 0) /\ Handler[17] = Make("addi", 5, 5, 0, 1)
      /\ Handler[18] = Make("addi", 5, 5, 0, -1)
      /\ Handler[19] = Make("ecall", 0, 0, 0, 0) /\ Handler[20] = Make("jal", 0, 0, 0, 44)
      /\ Handler[21] = Make("addi", 17, 0, 0, 1)
      /\ Handler[22] = Make("ecall", 0, 0, 0, 0) /\ Handler[23] = Make("xori", 6, 6, 0, 0)
      /\ Handler[24] = Make("ecall", 0, 0, 0, 0) /\ Handler[25] = Make("jal", 0, 0, 0, 24)
      /\ Handler[26] = Make("addi", 17, 0, 0, 1)
      /\ Handler[27] = Make("ecall", 0, 0, 0, 0) /\ Handler[28] = Make("andi", 7, 7, 0, 1)
      /\ Handler[29] = Make("ecall", 0, 0, 0, 0) /\ Handler[30] = Make("jal", 0, 0, 0, 4)
      /\ Handler[31] = Make("mret", 0, 0, 0, 0)
  BY Zenon DEF Handler
<1>3. /\ parseInst(trampoline_code[1]) = Handler[1]
      /\ parseInst(trampoline_code[2]) = Handler[2]
      /\ parseInst(trampoline_code[3]) = Handler[3]
      /\ parseInst(trampoline_code[4]) = Handler[4]
      /\ parseInst(trampoline_code[5]) = Handler[5]
      /\ parseInst(trampoline_code[6]) = Handler[6]
      /\ parseInst(trampoline_code[7]) = Handler[7]
      /\ parseInst(trampoline_code[8]) = Handler[8]
  BY <1>1, <1>2, HandlerWords, ZenonT(60)
<1>4. /\ parseInst(trampoline_code[9]) = Handler[9]
      /\ parseInst(trampoline_code[10]) = Handler[10]
      /\ parseInst(trampoline_code[11]) = Handler[11]
      /\ parseInst(trampoline_code[12]) = Handler[12]
      /\ parseInst(trampoline_code[13]) = Handler[13]
      /\ parseInst(trampoline_code[14]) = Handler[14]
      /\ parseInst(trampoline_code[15]) = Handler[15]
      /\ parseInst(trampoline_code[16]) = Handler[16]
  BY <1>1, <1>2, HandlerWords, ZenonT(60)
<1>5. /\ parseInst(trampoline_code[17]) = Handler[17]
      /\ parseInst(trampoline_code[18]) = Handler[18]
      /\ parseInst(trampoline_code[19]) = Handler[19]
      /\ parseInst(trampoline_code[20]) = Handler[20]
      /\ parseInst(trampoline_code[21]) = Handler[21]
      /\ parseInst(trampoline_code[22]) = Handler[22]
      /\ parseInst(trampoline_code[23]) = Handler[23]
      /\ parseInst(trampoline_code[24]) = Handler[24]
  BY <1>1, <1>2, HandlerWords, ZenonT(60)
<1>6. /\ parseInst(trampoline_code[25]) = Handler[25]
      /\ parseInst(trampoline_code[26]) = Handler[26]
      /\ parseInst(trampoline_code[27]) = Handler[27]
      /\ parseInst(trampoline_code[28]) = Handler[28]
      /\ parseInst(trampoline_code[29]) = Handler[29]
      /\ parseInst(trampoline_code[30]) = Handler[30]
      /\ parseInst(trampoline_code[31]) = Handler[31]
  BY <1>1, <1>2, HandlerWords, ZenonT(60)
<1> QED BY <1>3, <1>4, <1>5, <1>6, SMT

(* The registers of a Core instruction by their numbers. *)
LEMMA CoreRegisters ==
  Machine!t0 = 3 /\ Machine!t1 = 4 /\ Machine!t2 = 5 /\ Machine!a0 = 6 /\ Machine!a1 = 7 /\ Machine!a7 = 8
BY DEF Machine!t0, Machine!t1, Machine!t2, Machine!a0, Machine!a1, Machine!a7

LEMMA HandlerMatches ==
  /\ AsInCore(Make("csrrsi", 10, 0, 0, 834)) = Renumbered(Machine!ReadCause(Machine!a0))
  /\ AsInCore(Make("addi", 11, 0, 0, 1)) = Renumbered(Machine!Addi(Machine!a1, 0, 1))
  /\ AsInCore(Make("beq", 0, 10, 11, 28)) = Renumbered(Machine!Beq(Machine!a0, Machine!a1, 7))
  /\ AsInCore(Make("addi", 11, 0, 0, 2)) = Renumbered(Machine!Addi(Machine!a1, 0, 2))
  /\ AsInCore(Make("beq", 0, 10, 11, 40)) = Renumbered(Machine!Beq(Machine!a0, Machine!a1, 10))
  /\ AsInCore(Make("addi", 11, 0, 0, 3)) = Renumbered(Machine!Addi(Machine!a1, 0, 3))
  /\ AsInCore(Make("beq", 0, 10, 11, 56)) = Renumbered(Machine!Beq(Machine!a0, Machine!a1, 14))
  /\ AsInCore(Make("addi", 11, 0, 0, 4)) = Renumbered(Machine!Addi(Machine!a1, 0, 4))
  /\ AsInCore(Make("beq", 0, 10, 11, 68)) = Renumbered(Machine!Beq(Machine!a0, Machine!a1, 17))
  /\ AsInCore(Make("addi", 17, 0, 0, 1)) = Renumbered(Machine!Addi(Machine!a7, 0, 1))
  /\ AsInCore(Make("ecall", 0, 0, 0, 0)) = Renumbered(Machine!Ecall)
  /\ AsInCore(Make("add", 0, 0, 0, 0)) = Renumbered(Machine!Nop)
  /\ AsInCore(Make("jal", 0, 0, 0, 68)) = Renumbered(Machine!Jal(17))
  /\ AsInCore(Make("addi", 5, 5, 0, 1)) = Renumbered(Machine!Addi(Machine!t0, Machine!t0, 1))
  /\ AsInCore(Make("addi", 5, 5, 0, -1)) = Renumbered(Machine!Addi(Machine!t0, Machine!t0, -1))
  /\ AsInCore(Make("jal", 0, 0, 0, 44)) = Renumbered(Machine!Jal(11))
  /\ AsInCore(Make("xori", 6, 6, 0, 0)) = Renumbered(Machine!Addi(Machine!t1, Machine!t1, 0))
  /\ AsInCore(Make("jal", 0, 0, 0, 24)) = Renumbered(Machine!Jal(6))
  /\ AsInCore(Make("andi", 7, 7, 0, 1)) = Renumbered(Machine!Bit0(Machine!t2, Machine!t2))
  /\ AsInCore(Make("jal", 0, 0, 0, 4)) = Renumbered(Machine!Jal(1))
  /\ AsInCore(Make("mret", 0, 0, 0, 0)) = Renumbered(Machine!Mret)
<1>1. AsInCore(Make("csrrsi", 10, 0, 0, 834)) = Renumbered(Machine!ReadCause(Machine!a0))
  BY CoreRegisters DEF AsInCore, Renumbered, Number, Make, Machine!ReadCause, Machine!Inst
<1>2. AsInCore(Make("addi", 11, 0, 0, 1)) = Renumbered(Machine!Addi(Machine!a1, 0, 1))
  BY CoreRegisters DEF AsInCore, Renumbered, Number, Make, Machine!Addi, Machine!Inst
<1>3. AsInCore(Make("beq", 0, 10, 11, 28)) = Renumbered(Machine!Beq(Machine!a0, Machine!a1, 7))
  BY CoreRegisters DEF AsInCore, Renumbered, Number, Make, Machine!Beq, Machine!Inst
<1>4. AsInCore(Make("addi", 11, 0, 0, 2)) = Renumbered(Machine!Addi(Machine!a1, 0, 2))
  BY CoreRegisters DEF AsInCore, Renumbered, Number, Make, Machine!Addi, Machine!Inst
<1>5. AsInCore(Make("beq", 0, 10, 11, 40)) = Renumbered(Machine!Beq(Machine!a0, Machine!a1, 10))
  BY CoreRegisters DEF AsInCore, Renumbered, Number, Make, Machine!Beq, Machine!Inst
<1>6. AsInCore(Make("addi", 11, 0, 0, 3)) = Renumbered(Machine!Addi(Machine!a1, 0, 3))
  BY CoreRegisters DEF AsInCore, Renumbered, Number, Make, Machine!Addi, Machine!Inst
<1>7. AsInCore(Make("beq", 0, 10, 11, 56)) = Renumbered(Machine!Beq(Machine!a0, Machine!a1, 14))
  BY CoreRegisters DEF AsInCore, Renumbered, Number, Make, Machine!Beq, Machine!Inst
<1>8. AsInCore(Make("addi", 11, 0, 0, 4)) = Renumbered(Machine!Addi(Machine!a1, 0, 4))
  BY CoreRegisters DEF AsInCore, Renumbered, Number, Make, Machine!Addi, Machine!Inst
<1>9. AsInCore(Make("beq", 0, 10, 11, 68)) = Renumbered(Machine!Beq(Machine!a0, Machine!a1, 17))
  BY CoreRegisters DEF AsInCore, Renumbered, Number, Make, Machine!Beq, Machine!Inst
<1>10. AsInCore(Make("addi", 17, 0, 0, 1)) = Renumbered(Machine!Addi(Machine!a7, 0, 1))
  BY CoreRegisters DEF AsInCore, Renumbered, Number, Make, Machine!Addi, Machine!Inst
<1>11. AsInCore(Make("ecall", 0, 0, 0, 0)) = Renumbered(Machine!Ecall)
  BY CoreRegisters DEF AsInCore, Renumbered, Number, Make, Machine!Ecall, Machine!Inst
<1>12. AsInCore(Make("add", 0, 0, 0, 0)) = Renumbered(Machine!Nop)
  BY CoreRegisters DEF AsInCore, Renumbered, Number, Make, Machine!Nop, Machine!Addi, Machine!Inst
<1>13. AsInCore(Make("jal", 0, 0, 0, 68)) = Renumbered(Machine!Jal(17))
  BY CoreRegisters DEF AsInCore, Renumbered, Number, Make, Machine!Jal, Machine!Inst
<1>14. AsInCore(Make("addi", 5, 5, 0, 1)) = Renumbered(Machine!Addi(Machine!t0, Machine!t0, 1))
  BY CoreRegisters DEF AsInCore, Renumbered, Number, Make, Machine!Addi, Machine!Inst
<1>15. AsInCore(Make("addi", 5, 5, 0, -1)) = Renumbered(Machine!Addi(Machine!t0, Machine!t0, -1))
  BY CoreRegisters DEF AsInCore, Renumbered, Number, Make, Machine!Addi, Machine!Inst
<1>16. AsInCore(Make("jal", 0, 0, 0, 44)) = Renumbered(Machine!Jal(11))
  BY CoreRegisters DEF AsInCore, Renumbered, Number, Make, Machine!Jal, Machine!Inst
<1>17. AsInCore(Make("xori", 6, 6, 0, 0)) = Renumbered(Machine!Addi(Machine!t1, Machine!t1, 0))
  BY CoreRegisters DEF AsInCore, Renumbered, Number, Make, Machine!Addi, Machine!Inst
<1>18. AsInCore(Make("jal", 0, 0, 0, 24)) = Renumbered(Machine!Jal(6))
  BY CoreRegisters DEF AsInCore, Renumbered, Number, Make, Machine!Jal, Machine!Inst
<1>19. AsInCore(Make("andi", 7, 7, 0, 1)) = Renumbered(Machine!Bit0(Machine!t2, Machine!t2))
  BY CoreRegisters DEF AsInCore, Renumbered, Number, Make, Machine!Bit0, Machine!Inst
<1>20. AsInCore(Make("jal", 0, 0, 0, 4)) = Renumbered(Machine!Jal(1))
  BY CoreRegisters DEF AsInCore, Renumbered, Number, Make, Machine!Jal, Machine!Inst
<1>21. AsInCore(Make("mret", 0, 0, 0, 0)) = Renumbered(Machine!Mret)
  BY CoreRegisters DEF AsInCore, Renumbered, Number, Make, Machine!Mret, Machine!Inst
<1> QED BY <1>1, <1>2, <1>3, <1>4, <1>5, <1>6, <1>7, <1>8, <1>9, <1>10, <1>11, <1>12, <1>13, <1>14, <1>15, <1>16, <1>17, <1>18, <1>19, <1>20, <1>21

LEMMA HandlerIsCores ==
  ASSUME NEW k \in 1 .. 31
  PROVE  AsInCore(Handler[k]) = Renumbered(Machine!trampoline_code[k])
BY HandlerMatches, SMTT(60) DEF Handler, Machine!trampoline_code, Machine!trampoline

LEMMA HandlerEntered ==
  ASSUME LoaderInv
  PROVE  TrampolineIsCores
<1> SUFFICES ASSUME AtPrompt, NEW k \in DOMAIN Machine!trampoline_code
             PROVE  AsInCore(parsed[TRAMPOLINE + k - 1]) = Renumbered(Machine!trampoline_code[k])
  BY DEF TrampolineIsCores
<1>1. k \in 1 .. 31
  BY DEF Machine!trampoline_code, Machine!trampoline
<1>2. ASSUME NEW j \in 1 .. 31
      PROVE  Parses(TRAMPOLINE + j - 1) /\ memory[TRAMPOLINE + j - 1] = trampoline_code[j]
  <2>1. memory[TRAMPOLINE + j - 1] = trampoline_code[j]
    <3> DEFINE i == j - 1
    <3>1. i \in 0 .. 31 /\ i < 31 /\ i + 1 = j /\ TRAMPOLINE + j - 1 = TRAMPOLINE + i
      BY Places
    <3>2. \A n \in 0 .. 31 : n < 31 => memory[TRAMPOLINE + n] = trampoline_code[n + 1]
      <4>1. \A n \in 0 .. Len(trampoline_code) :
               memory[TRAMPOLINE + n] = IF n < Len(trampoline_code) THEN trampoline_code[n + 1]
                                                                    ELSE MAGIC
        BY DEF LoaderInv
      <4> QED BY <4>1, Places
    <3> HIDE DEF i
    <3>3. memory[TRAMPOLINE + i] = trampoline_code[i + 1]
      BY <3>1, <3>2
    <3> QED BY <3>1, <3>3
  <2>2. parseInst(trampoline_code[j]) = Handler[j]
    BY HandlerIs
  <2>3. Handler[j] # Refused
    <3>1. \E op, d, s, t, n : Handler[j] = Make(op, d, s, t, n) /\ op # "refused"
      BY DEF Handler
    <3>2. PICK op, d, s, t, n : Handler[j] = Make(op, d, s, t, n) /\ op # "refused"
      BY <3>1
    <3> QED BY <3>2, MakeHas DEF Refused
  <2>4. trampoline_code[j] # MAGIC
    BY <2>2, <2>3, MagicIsRefused
  <2> QED BY <2>1, <2>2, <2>3, <2>4 DEF Parses
<1>3. TRAMPOLINE + k - 1 \in Found(TrampolineAddresses)
  <2>1. ASSUME NEW b \in TrampolineAddresses, b <= TRAMPOLINE + k - 1
        PROVE  Parses(b)
    <3>1. b - 999 \in 1 .. 31 /\ TRAMPOLINE + (b - 999) - 1 = b
      BY <1>1, <2>1, Places
    <3> QED BY <1>2, <3>1
  <2>2. TRAMPOLINE + k - 1 \in TrampolineAddresses
    BY <1>1, Places
  <2> QED BY <2>1, <2>2 DEF Found
<1>4. parsed[TRAMPOLINE + k - 1] = parseInst(memory[TRAMPOLINE + k - 1])
  BY <1>3 DEF LoaderInv, AtPrompt
<1>5. parsed[TRAMPOLINE + k - 1] = Handler[k]
  BY <1>1, <1>2, <1>4, HandlerIs
<1> QED BY <1>1, <1>5, HandlerIsCores

(* At the prompt getParsedInst has of the trampoline what initTrap's hexadecimal
   words are meant to be: the handler that Core has, register by register and offset
   by offset. *)
THEOREM TrampolineIsTheHandler == Spec => []TrampolineIsCores
<1>1. LoaderInv => TrampolineIsCores
  BY HandlerEntered
<1> QED BY <1>1, LoaderInvariance, PTL

(* Whatever program of supported instructions and data words an assembler makes, its
   instructions up to the first data word are entered as they were written: each
   register, each immediate and its sign. *)
THEOREM AssembledIsEntered ==
  ASSUME \A s \in Sources : IsProgram(s)
  PROVE  Spec => []ParsedAsAssembled
<1>1. Init => SourceInv
  BY SourceInit
<1>2. LoaderInv /\ SourceInv /\ [Next]_vars => SourceInv'
  BY SourceStep
<1>3. LoaderInv /\ SourceInv => ParsedAsAssembled
  BY EnteredAsAssembled DEF SourceInv
<1> QED BY <1>1, <1>2, <1>3, LoaderInvariance, PTL DEF Spec

=============================================================================
