------------------------------ MODULE MCToolchain ------------------------------
(***************************************************************************)
(* Two builders, with a cache each or one for both, and good downloads or  *)
(* any.                                                                    *)
(***************************************************************************)
EXTENDS Toolchain

MCSettings == [shared : BOOLEAN, bad : BOOLEAN]
===============================================================================
