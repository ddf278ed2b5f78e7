----------------------------- MODULE MCKeyboard -----------------------------
(***************************************************************************)
(* One letter, plain and shifted, a shift key, Ctrl, and extended keys of  *)
(* which one has Ctrl's code; two slots in the ring.                       *)
(***************************************************************************)
EXTENDS Keyboard
=============================================================================
