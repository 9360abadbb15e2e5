-------------------------- MODULE MCPkcs11Adapter --------------------------
(* Model checking of Pkcs11Adapter: callers and handles are interchangeable. *)
EXTENDS Pkcs11Adapter, TLC

Symmetry == Permutations(Users) \cup Permutations(Handles)
=============================================================================
