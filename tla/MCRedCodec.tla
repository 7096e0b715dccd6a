----------------------------- MODULE MCRedCodec -----------------------------
(***************************************************************************)
(* The packer alone and the receiver alone, each on its own state space in *)
(* one run: a behaviour tests the one or the other.  Depths 0 to 2 and 24  *)
(* frames take the packer over three wraps of the number (modulo 8) and    *)
(* one of the timestamp (modulo 20000, like 2^32 no multiple of 960).      *)
(* Four packets, any at all, fill the receiver's buffer of 2, straddle a   *)
(* wrap and reach past half the sequence space.                            *)
(***************************************************************************)
EXTENDS RedPacker, RedReceiver

VARIABLE tested    \* "packer" or "receiver"

CodecInit ==
    /\ PackerInit
    /\ ReceiverInit
    /\ \/ tested = "packer"
       \/ tested = "receiver" /\ depth = 0

CodecNext ==
    /\ UNCHANGED tested
    /\ \/ tested = "packer" /\ PackerNext /\ UNCHANGED receiverVars
       \/ tested = "receiver" /\ ReceiverNext /\ UNCHANGED packerVars

CodecSpec == CodecInit /\ [][CodecNext]_<<packerVars, receiverVars, tested>>
=============================================================================
