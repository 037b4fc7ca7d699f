---------------------------- MODULE MCBindings ----------------------------
(***************************************************************************)
(* Bindings for TLC: which bindings and stream kinds a run starts from.    *)
(***************************************************************************)
EXTENDS Bindings

AllLayers == {"ffi", "jni", "node", "python"} \X BOOLEAN

JavaLayer == {<<"jni", FALSE>>}

FfiLayer == {<<"ffi", FALSE>>}
=============================================================================
