------------------------ MODULE MCStartRateLimiter ------------------------
(* Instances of StartRateLimiter for TLC. *)
EXTENDS StartRateLimiter

Setting(w, m) == [window |-> w, max |-> m]

\* Window and maximum move together, the limiter can be switched off.
SettingsMove == {Setting(3, 3), Setting(4, 2), Setting(0, 0)}

=============================================================================
