------------------------------- MODULE Loader --------------------------------
(***************************************************************************)
(* How a program gets into the emulator: resetMachine of src/src/sdb.hpp,  *)
(* which fills Memory with MAGIC, has initTrap write the trampoline and    *)
(* ProgramLoader::loadProgram the file, and parses both with preParseInst. *)
(*                                                                         *)
(* Addresses count words; code starts at 0, the trampoline at TRAMPOLINE.  *)
(***************************************************************************)
EXTENDS Decode

CONSTANTS
  Sources,      \* what was assembled: sequences of instructions, and of raw words
  Cuts,         \* how many bytes of its last word the file may lack
  CODE_WORDS    \* the words of memory between code and trampoline's start

VARIABLES
  source,    \* the assembled program
  file,      \* its file, a sequence of bytes
  memory,    \* Memory::mem
  parsed,    \* getParsedInst
  at,        \* addr in loadProgram, pc in preParseInst
  phase      \* which of the three loops is executing

vars == <<source, file, memory, parsed, at, phase>>

MAGIC == <<222, 171, 0, 0>>    \* 0xabde

(* initTrap's words, the lowest byte first. *)
trampoline_code == <<
  <<115, 101, 32, 52>>, <<147, 5, 16, 0>>,  <<99, 14, 181, 0>>,  <<147, 5, 32, 0>>,
  <<99, 4, 181, 2>>,    <<147, 5, 48, 0>>,  <<99, 12, 181, 2>>,  <<147, 5, 64, 0>>,
  <<99, 2, 181, 4>>,    <<147, 8, 16, 0>>,  <<115, 0, 0, 0>>,    <<51, 0, 0, 0>>,
  <<115, 0, 0, 0>>,     <<111, 0, 64, 4>>,  <<147, 8, 16, 0>>,   <<115, 0, 0, 0>>,
  <<147, 130, 18, 0>>,  <<147, 130, 242, 255>>, <<115, 0, 0, 0>>, <<111, 0, 192, 2>>,
  <<147, 8, 16, 0>>,    <<115, 0, 0, 0>>,   <<19, 67, 3, 0>>,    <<115, 0, 0, 0>>,
  <<111, 0, 128, 1>>,   <<147, 8, 16, 0>>,  <<115, 0, 0, 0>>,    <<147, 243, 19, 0>>,
  <<115, 0, 0, 0>>,     <<111, 0, 64, 0>>,  <<115, 0, 32, 48>> >>

Machine == INSTANCE Core WITH STACK_BTM <- 0, MAGIC <- 0, Programs <- {}

TRAMPOLINE == Machine!TRAMPOLINE

CodeAddresses       == 0 .. CODE_WORDS - 1
TrampolineAddresses == TRAMPOLINE .. TRAMPOLINE + Len(trampoline_code)

Asm == INSTANCE Assembler

(* A raw word is data that lies between instructions. *)
Raw(word)  == [op |-> "raw", word |-> word]
WordOf(i)  == IF i.op = "raw" THEN i.word ELSE Asm!Encode(i)

ASSUME LoaderAssumption ==
  /\ CODE_WORDS \in 1 .. TRAMPOLINE
  /\ \A s \in Sources : Len(s) \in 1 .. CODE_WORDS - 1
  /\ Cuts \subseteq 0 .. 3

Words == [k \in DOMAIN source |-> WordOf(source[k])]

(* Byte b, from 0, of the words. *)
ByteOf(words, b) == words[(b \div 4) + 1][(b % 4) + 1]

Init ==
  /\ source \in Sources
  /\ \E cut \in Cuts :
       file = [b \in 1 .. 4 * Len(source) - cut |-> ByteOf(Words, b - 1)]
  /\ memory = [a \in CodeAddresses \cup TrampolineAddresses |->
                 IF a \in TRAMPOLINE .. TRAMPOLINE + Len(trampoline_code) - 1
                 THEN trampoline_code[a - TRAMPOLINE + 1] ELSE MAGIC]
  /\ parsed = << >>
  /\ at = 0
  /\ phase = "load"

-----------------------------------------------------------------------------
(* The file, filled up with zeros to a whole number of words. *)
PaddedBy(padding) == file \o [b \in 1 .. padding |-> 0]

(* Mutant: without the last `% 4'. *)
BufferLong == PaddedBy(4 - (Len(file) % 4))

Buffer == PaddedBy((4 - (Len(file) % 4)) % 4)

(* A round of loadProgram's loop. *)
LoadWord ==
  /\ phase = "load"
  /\ 4 * at < Len(Buffer)
  /\ memory' = [memory EXCEPT ![at] = SubSeq(Buffer, 4 * at + 1, 4 * at + 4)]
  /\ at' = at + 1
  /\ UNCHANGED <<source, file, parsed, phase>>

LoadEnds ==
  /\ phase = "load"
  /\ 4 * at >= Len(Buffer)
  /\ at' = 0
  /\ phase' = "code"
  /\ UNCHANGED <<source, file, memory, parsed>>

(* preParseInst's two loops end at a word that is MAGIC or no instruction. *)
Parses(a) == memory[a] # MAGIC /\ parseInst(memory[a]) # Refused

ParseWord ==
  /\ phase \in {"code", "trampoline"}
  /\ Parses(at)
  /\ parsed' = [a \in DOMAIN parsed \cup {at} |->
                  IF a = at THEN parseInst(memory[at]) ELSE parsed[a]]
  /\ at' = at + 1
  /\ UNCHANGED <<source, file, memory, phase>>

(* Mutant: the second loop goes on where the first ended. *)
ParseEndsThere ==
  /\ phase \in {"code", "trampoline"}
  /\ ~Parses(at)
  /\ phase' = IF phase = "code" THEN "trampoline" ELSE "prompt"
  /\ UNCHANGED <<source, file, memory, parsed, at>>

ParseEnds ==
  /\ phase \in {"code", "trampoline"}
  /\ ~Parses(at)
  /\ IF phase = "code" THEN phase' = "trampoline" /\ at' = TRAMPOLINE
                       ELSE phase' = "prompt" /\ at' = at
  /\ UNCHANGED <<source, file, memory, parsed>>

Ready == phase = "prompt" /\ UNCHANGED vars

Next == LoadWord \/ LoadEnds \/ ParseWord \/ ParseEnds \/ Ready

Spec == Init /\ [][Next]_vars

-----------------------------------------------------------------------------
AtPrompt == phase = "prompt"

(* The word at a is the file's, with zeros up to its end; behind it is MAGIC. *)
FileAt(a) ==
  IF 4 * a >= Len(file) THEN memory[a] = MAGIC
  ELSE \A n \in 1 .. 4 :
         memory[a][n] = IF 4 * a + n <= Len(file) THEN file[4 * a + n] ELSE 0

(* Memory holds the file, byte by byte, zeros up to the end of its last word, and
   behind it MAGIC, by which preParseInst and ls find the program's end. *)
LoadedExactly == AtPrompt => \A a \in CodeAddresses : FileAt(a)

(* What a loop of preParseInst finds: the addresses up to the first that is MAGIC
   or no instruction. *)
Found(addresses) == {a \in addresses : \A b \in addresses : b <= a => Parses(b)}

(* The inductive invariant: memory is the file as far as it has been loaded, and
   getParsedInst has what was found as far as it has been parsed. *)
LoaderInv ==
  /\ file = [b \in 1 .. Len(file) |-> file[b]] /\ Len(file) \in 1 .. 4 * (CODE_WORDS - 1)
  /\ DOMAIN memory = CodeAddresses \cup TrampolineAddresses
  /\ \A a \in CodeAddresses :
       IF phase = "load" /\ a >= at THEN memory[a] = MAGIC ELSE FileAt(a)
  /\ \A k \in 0 .. Len(trampoline_code) :
       memory[TRAMPOLINE + k] = IF k < Len(trampoline_code) THEN trampoline_code[k + 1]
                                                            ELSE MAGIC
  /\ phase \in {"load", "code", "trampoline", "prompt"}
  /\ phase = "load" => at \in Nat /\ parsed = << >>
  /\ phase = "code" => at \in CodeAddresses /\ DOMAIN parsed = 0 .. at - 1
  /\ phase = "trampoline" =>
       /\ at \in TrampolineAddresses
       /\ DOMAIN parsed = Found(CodeAddresses) \cup (TRAMPOLINE .. at - 1)
  /\ phase = "prompt" =>
       DOMAIN parsed = Found(CodeAddresses) \cup Found(TrampolineAddresses)
  /\ \A a \in DOMAIN parsed :
       memory[a] # MAGIC /\ parsed[a] # Refused /\ parsed[a] = parseInst(memory[a])

(* The words before the first one that is data: those preParseInst finds. *)
Prefix == {k \in DOMAIN source : \A j \in 1 .. k : source[j].op # "raw"}

(* What was assembled is what is entered, each operand and the sign of each
   immediate included: for the instructions that the emulator supports as the
   manual has them.  A word of data hides the instructions behind it. *)
ParsedAsAssembled ==
  AtPrompt /\ 4 * Len(source) = Len(file) =>
    /\ DOMAIN parsed \cap CodeAddresses = {k - 1 : k \in Prefix}
    /\ \A k \in Prefix : parsed[k - 1] = source[k]

(* Core's registers are nine of the thirty-two. *)
Number == <<0, 1, 2, 5, 6, 7, 10, 11, 17>>

(* An instruction of Core with the numbers of the real one; its branches count
   words. *)
Renumbered(i) ==
  Make(i.op, Number[i.rd + 1], Number[i.rs1 + 1], Number[i.rs2 + 1],
       IF i.op \in {"beq", "jal"} THEN 4 * i.imm ELSE i.imm)

(* What Core has for an instruction: it names what xori, add and andi amount to
   there, and its csr instruction reads mcause (0x342). *)
AsInCore(i) ==
  CASE i.op = "xori" /\ i.imm = 0           -> [i EXCEPT !.op = "addi"]
    [] i.op = "add" /\ i.rs1 = 0 /\ i.rs2 = 0 -> [i EXCEPT !.op = "addi"]
    [] i.op = "andi" /\ i.imm = 1           -> Make("bit0", i.rd, i.rs1, 0, 0)
    [] i.op = "csrrsi" /\ i.imm = 834       -> [i EXCEPT !.imm = 0]
    [] OTHER                                -> i

(* The hexadecimal words of initTrap are the handler that Core has: its branches
   reach the services, and the services its end. *)
TrampolineIsCores ==
  AtPrompt =>
    \A k \in DOMAIN Machine!trampoline_code :
      AsInCore(parsed[TRAMPOLINE + k - 1]) = Renumbered(Machine!trampoline_code[k])

==============================================================================
