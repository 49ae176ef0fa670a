----------------------------- MODULE MCDecoder ------------------------------
(***************************************************************************)
(* Words of 4 bits.  The two descriptors with match 8 overlap as those of  *)
(* c.jr and c.mv do; the mask 14 does not cover the hash of the            *)
(* disassembler; match 0 stands for c.addi4spn.  The extension is as       *)
(* rocc.cc: its instruction covers words 12 to 15 and brings no names, and *)
(* the disassembler's own, of words 12 and 15, are the custom0 to custom3  *)
(* of encoding.h.                                                          *)
(***************************************************************************)
EXTENDS Decoder

D(match, mask) == [match |-> match, mask |-> mask]
MCBase == {D(8, 15), D(8, 13), D(1, 13), D(2, 15), D(4, 14), D(0, 15)}
MCDisassembled == {D(8, 15), D(1, 15), D(2, 15), D(12, 15), D(15, 15)}
MCExtension == [instructions |-> {D(12, 12)}, disasms |-> {}]
=============================================================================
