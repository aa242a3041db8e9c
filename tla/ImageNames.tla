----------------------------- MODULE ImageNames -----------------------------
(***************************************************************************)
(* The names of images.  Several daemons, one for each device, may share   *)
(* one image directory; each stores the images of its clients under its    *)
(* instance name, two dashes, and the client's name (internal/tftp         *)
(* imagestore.go; the instance names are checked in internal/config).  A   *)
(* daemon without a name stores them as they are.                          *)
(*                                                                         *)
(* A name is the sequence of its characters.                               *)
(***************************************************************************)
EXTENDS Naturals, Sequences

Dash == "-"

HasTwoDashes(s) == \E k \in 1 .. Len(s) - 1 : s[k] = Dash /\ s[k + 1] = Dash

\* Config.Validate: it starts with a letter or a digit, and has no two dashes.
ValidInstance(s) ==
    s # <<>> => s[1] \notin {".", "_", Dash} /\ ~HasTwoDashes(s)

\* sanitize: a plain file name.
ValidName(s) ==
    /\ s \notin {<<>>, <<".">>, <<".", ".">>}
    /\ \A k \in 1 .. Len(s) : s[k] \notin {"/", "\\"}

\* Variant: one dash is enough.
NamespacedOnce(inst) == inst \o <<Dash>>

\* Store.Namespaced
Namespaced(inst) == IF inst = <<>> THEN <<>> ELSE inst \o <<Dash, Dash>>

\* Store.OnDiskName
OnDiskName(image) == Namespaced(image.inst) \o image.name

\* What Validate admits although the prefix cannot keep the two apart: a daemon
\* without a name beside any other, and a name beside the same with one more
\* dash.
Clashing(s, t) ==
    /\ s # t
    /\ s = <<>> \/ t = <<>> \/ s = Append(t, Dash) \/ t = Append(s, Dash)
=============================================================================
