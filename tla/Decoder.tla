------------------------------ MODULE Decoder -------------------------------
(***************************************************************************)
(* How processor_t finds the function of an instruction, a list it reorders*)
(* as it goes behind a cache of recent words, and how disassembler_t finds *)
(* its name, which the instruction counters of -t need of every            *)
(* instruction that is executed.                                           *)
(*                                                                         *)
(* Words have WordBits bits.  A descriptor is a match and a mask; the      *)
(* functions of RV32 and RV64 go with it.                                  *)
(*                                                                         *)
(* An operator X_Fault next to X is X with the bug it names; no            *)
(* specification uses it.                                                  *)
(***************************************************************************)
EXTENDS Integers, Sequences, FiniteSets

CONSTANTS
    WordBits,
    OPCODE_CACHE_SIZE, HASH_SIZE,
    BaseInstructions,       \* the instructions of riscv.mk.in, as encoding.h has them
    Disassembled,           \* those the disassembler names; it goes on with all
                            \* of encoding.h
    Extension               \* [instructions, disasms] of an extension, two sets

Words == 0 .. 2 ^ WordBits - 1
Descriptors == [match : Words, mask : Words]
illegal_instruction == [match |-> 0, mask |-> 0]

BitOf(w, k) == (w \div 2 ^ k) % 2
Matches(w, d) == \A k \in 0 .. WordBits - 1 :
                     BitOf(d.match, k) = (IF BitOf(d.mask, k) = 1 THEN BitOf(w, k) ELSE 0)

All == BaseInstructions \cup Extension.instructions \cup {illegal_instruction}

ASSUME SizesAssumption ==
    /\ {WordBits, OPCODE_CACHE_SIZE, HASH_SIZE} \subseteq Nat \ {0}
    /\ \E k \in 0 .. WordBits : HASH_SIZE = 2 ^ k
ASSUME DescriptorsAssumption ==
    /\ All \subseteq Descriptors
    /\ Disassembled \subseteq Descriptors /\ Extension.disasms \subseteq Descriptors

(* Installed instructions that match one word have the same match: no      *)
(* line of encoding.h breaks this but c.addi16sp, which riscv.mk.in does   *)
(* not list.                                                               *)
ASSUME OverlapAssumption ==
    \A d, e \in All \ {illegal_instruction} :
        (\E w \in Words : Matches(w, d) /\ Matches(w, e)) => d.match = e.match

VARIABLES
    instructions,   \* the list of descriptors
    opcode_cache,   \* [word, desc] at each index; the word stands for desc.match
    chain,          \* what is in the disassembler's lists, HASH_SIZE the general one
    ext,            \* whether an extension is registered
    running,        \* whether an instruction has been fetched
    alive           \* FALSE once a null pointer was read or a logic_error thrown
decodervars == <<instructions, opcode_cache, chain, ext, running, alive>>

-----------------------------------------------------------------------------
(* build_opcode_map: by match, then by mask, both descending.              *)
Before(d, e) == d.match > e.match \/ (d.match = e.match /\ d.mask > e.mask)
Sorted(descs) ==
    [i \in 1 .. Cardinality(descs) |->
        CHOOSE d \in descs : Cardinality({e \in descs : Before(e, d)}) = i - 1]

EmptyCache == [i \in 0 .. OPCODE_CACHE_SIZE - 1 |-> [word |-> 0, desc |-> illegal_instruction]]

First(list, w) == CHOOSE i \in DOMAIN list : /\ Matches(w, list[i])
                                             /\ \A j \in 1 .. i - 1 : ~Matches(w, list[j])

(* Moved whether or not a neighbour has the same match.                    *)
Movable_Always(list, i) == i > 1 /\ list[i].mask # 0

(* The catch-all, which has mask 0, is last: there always is an i + 1.     *)
Movable(list, i) ==
    /\ i > 1 /\ list[i].mask # 0
    /\ list[i].match # list[i - 1].match /\ list[i].match # list[i + 1].match

MoveToFront(list, i) == <<list[i]>> \o SubSeq(list, 1, i - 1) \o SubSeq(list, i + 1, Len(list))

Idx(w) == w % OPCODE_CACHE_SIZE
Hits(w) == opcode_cache[Idx(w)].word = w

decode_insn(w) == IF Hits(w) THEN opcode_cache[Idx(w)].desc
                  ELSE instructions[First(instructions, w)]

(* The disassembler's add_insn and lookup: whether a word has a name.  A   *)
(* list is the set of its elements, since its order only says which name.  *)
Chain_ByMatch(d) == d.match % HASH_SIZE

Chain(d) == IF d.mask % HASH_SIZE = HASH_SIZE - 1 THEN d.match % HASH_SIZE ELSE HASH_SIZE

add_insns(chains, descs) ==
    [c \in 0 .. HASH_SIZE |-> chains[c] \cup {d \in descs : Chain(d) = c}]

Named(chains, w) == \E c \in {w % HASH_SIZE, HASH_SIZE} :
                       \E d \in chains[c] : Matches(w, d)

disassembler_t == add_insns([c \in 0 .. HASH_SIZE |-> {}], Disassembled \cup BaseInstructions)

-----------------------------------------------------------------------------
(* The constructor of processor_t.  An extension of --isa is registered    *)
(* before there is a disassembler, so it may not name any instruction.     *)
DecoderInit ==
    /\ ext \in {FALSE} \cup (IF Extension.disasms = {} THEN {TRUE} ELSE {})
    /\ instructions = Sorted(IF ext THEN All ELSE BaseInstructions \cup {illegal_instruction})
    /\ opcode_cache = EmptyCache
    /\ chain = disassembler_t
    /\ running = FALSE /\ alive = TRUE

(* --extension, before the simulation starts; at most one can be.          *)
register_extension ==
    /\ alive /\ ~running
    /\ instructions' = Sorted(All)
    /\ opcode_cache' = EmptyCache
    /\ chain' = add_insns(chain, Extension.disasms)
    /\ ext' = TRUE /\ alive' = ~ext
    /\ UNCHANGED running

(* update_tracked_insn_count, with -t, after the function has returned; an *)
(* illegal instruction does not.                                           *)
Tracked(w) == alive' = (decode_insn(w) = illegal_instruction \/ Named(chain, w))

Execute(w) ==
    /\ alive
    /\ IF Hits(w) THEN UNCHANGED <<instructions, opcode_cache>>
       ELSE LET i == First(instructions, w)
            IN  /\ opcode_cache' =
                       [opcode_cache EXCEPT ![Idx(w)] = [word |-> w, desc |-> instructions[i]]]
                /\ instructions' = IF Movable(instructions, i) THEN MoveToFront(instructions, i)
                                   ELSE instructions
    /\ running' = TRUE
    /\ Tracked(w)
    /\ UNCHANGED <<chain, ext>>

DecoderNext == register_extension \/ \E w \in Words : Execute(w)

DecoderSpec == DecoderInit /\ [][DecoderNext]_decodervars

-----------------------------------------------------------------------------
(* Whatever was executed before, the function found for a word is the one  *)
(* of the most specific descriptor that matches, first in the order the    *)
(* list was sorted in: neither the moves to the front nor the cache, which *)
(* keeps entries over moves, change it.  Word 0, which the empty cache     *)
(* claims, is left out (processor.cc:720-747).                             *)
Reference(w) ==
    LET list == Sorted(IF ext THEN All ELSE BaseInstructions \cup {illegal_instruction})
    IN  list[First(list, w)]
DecodeIsSearch == alive => \A w \in Words \ {0} : decode_insn(w) = Reference(w)

(* What the disassembler has been given to name.                           *)
Names == BaseInstructions \cup Disassembled
             \cup (IF ext THEN Extension.disasms ELSE {})

(* The counters of -t survive an instruction exactly if anything that the  *)
(* disassembler was given matches it, in whichever of the lists it is: the *)
(* hash by which a word is looked up agrees with the one by which          *)
(* descriptors were entered (disasm.cc:620-641, processor.cc:340-346).  So *)
(* they survive the instructions of riscv.mk.in, but not all of the        *)
(* extension's: rocc.cc gives no names, and its opcodes cover words that   *)
(* encoding.h has none for.                                                *)
LookupIsSearch ==
    [][\A w \in Words : Execute(w) =>
           /\ alive' <=> \/ decode_insn(w) = illegal_instruction
                         \/ \E d \in Names : Matches(w, d)
           /\ decode_insn(w) \in BaseInstructions => alive']_decodervars
=============================================================================
