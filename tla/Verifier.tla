------------------------------ MODULE Verifier -------------------------------
(***************************************************************************)
(* The bytecode verifier of src/src/verifier.rs.  The compiler's own       *)
(* output is never passed through it (VerifiedChunk::from_trusted): that   *)
(* the verifier would accept it is a property of the compiler.             *)
(***************************************************************************)
EXTENDS Values

LocalOps   == {"GetLocal", "SetLocal", "LenLocal", "IndexLocal", "RegisterGlobal"}
UpvalueOps == {"GetUpvalue", "SetUpvalue"}
TargetOps  == {"SetIndex", "ListPushBinding"}
JumpOps    == {"Jump", "JumpIfFalse", "JumpIfFalseKeep", "JumpIfTrueKeep", "Loop",
               "JumpIfGlobalDefined", "SetupTry"}

(* (V3), (V4) a slot or a capture that an instruction names *)
GoodSlot(chunk, slot, upvalues, kind) ==
    CASE kind = "Local"   -> slot < chunk.maxLocals
      [] kind = "Upvalue" -> slot < upvalues
      [] OTHER            -> TRUE

GoodIns(chunk, op, upvalues) ==
    /\ op[1] \in {"LoadConst", "LoadConstRaw"} => op[2] < Len(chunk.constants)
    /\ op[1] \in LocalOps    => GoodSlot(chunk, op[2], upvalues, "Local")
    /\ op[1] \in UpvalueOps  => GoodSlot(chunk, op[2], upvalues, "Upvalue")
    /\ op[1] \in TargetOps   => GoodSlot(chunk, op[2][2], upvalues, op[2][1])
    /\ op[1] \in JumpOps     => op[2] <= Len(chunk.code)
    /\ op[1] = "CallBuiltin" => op[2] \in Builtins
    /\ op[1] = "MakeClosure" => op[2] < Len(chunk.prototypes)

(* verify_chunk: the instructions, then the captures of the prototypes      *)
(* against this chunk (V5), then the prototypes with their own captures.    *)
RECURSIVE Verified(_, _)
Verified(chunk, upvalues) ==
    /\ \A i \in DOMAIN chunk.code : GoodIns(chunk, chunk.code[i], upvalues)
    /\ \A p \in DOMAIN chunk.prototypes :
          LET proto == chunk.prototypes[p]
          IN  /\ \A c \in DOMAIN proto.captures :
                    GoodSlot(chunk, proto.captures[c][2], upvalues, proto.captures[c][1])
              /\ Verified(proto.chunk, Len(proto.captures))

Verify(chunk) == Verified(chunk, 0)
=============================================================================
