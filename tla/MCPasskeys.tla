----------------------------- MODULE MCPasskeys -----------------------------
(* Passkeys with one counting and one counterless authenticator, both under *)
(* one label and one id prefix, for TLC.                                    *)
EXTENDS Passkeys, TLC

CONSTANTS yubikey, phone

Both      == {yubikey, phone}
OneLabel  == [c \in Both |-> "keys"]
OnePrefix == [c \in Both |-> {"k"}]

PasskeySymmetry ==
  Permutations(Nonces) \cup Permutations(Posts) \cup Permutations(Admins)
=============================================================================
