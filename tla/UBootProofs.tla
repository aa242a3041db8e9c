---------------------------- MODULE UBootProofs ----------------------------
(***************************************************************************)
(* Host and boot loader are in step from a power-cycled interrupt on,      *)
(* proved for any number of interrupt keys and of calls.                   *)
(*                                                                         *)
(* Nothing but its prompt ties an answer to a command, so the invariant is *)
(* about prompts: of all that the host heard in a wait and that is still   *)
(* under way to it, a prompt can only be the last (Told), from the power   *)
(* cycle on.  The rest says what the target may be doing in each wait, and *)
(* that a boot command to be verified stands in front of everything that   *)
(* could load another image.                                               *)
(***************************************************************************)
EXTENDS UBoot, SequenceTheorems, TLAPS

Whats == {"none", "key", "any", "ethact", "dhcp", "env", "tftp", "crc", "boot"}
Images == {"none", "intact", "corrupt"}
Commands == [what : Whats, verify : BOOLEAN, synced : BOOLEAN]
Tokens == [kind : {"invite", "prompt", "banner", "bad", "ok"}, of : Whats]

Typed ==
    /\ TypeOK
    /\ synced \in BOOLEAN
    /\ heard \in Seq(Tokens)
    /\ scroll \in Seq(Tokens)
    /\ line \in Seq(Tokens)
    /\ cur \in Commands
    /\ typed \in Seq(Commands)
    /\ ran \in [cmd : Commands, image : Images]
    /\ mode # "busy" => cur = NoCommand

\* Before its commands a call is at the first, an interrupt sends none, and
\* only verify_crc32 leads to crc32.
Flow ==
    /\ pc \in {"cycle", "off", "subscribeInvite", "awaitInvite", "awaitPrompt"} => step = 1
    /\ pc \in {"subscribe", "write", "expect"} => req.rpc # "interrupt"
    /\ step = 6 => req.verify
    /\ pc \in {"cycle", "off"} => req.cycle

Lacks(tok, s) == \A i \in DOMAIN s : s[i] # tok
OnlyKeys(s) == \A i \in DOMAIN s : s[i] = Key

\* Of what was heard (s) and is under way (l), a prompt is only the last, and
\* the target (in mode m) is at it.
Told(s, l, m) ==
    /\ ~Lacks(Prompt, s) => l = <<>>
    /\ \A i \in DOMAIN l : l[i] = Prompt => i = Len(l)
    /\ m # "prompt" => (Lacks(Prompt, s) /\ Lacks(Prompt, l))

\* Between two commands of a host in step.
Quiet == mode = "prompt" /\ OnlyKeys(typed) /\ line = <<>>

\* From the power cycle to the interrupted boot: a prompt is one of this boot.
\* The scrollback may hold an older one until the target has spoken.
Restarting == req.cycle /\ pc \in {"subscribeInvite", "awaitInvite", "awaitPrompt"}
Booting ==
    /\ pc = "off" => (~synced /\ mode = "off" /\ typed = <<>>)
    /\ Restarting =>
         /\ ~synced
         /\ mode \in {"starting", "autoboot", "flash", "prompt"}
         /\ OnlyKeys(typed)
         /\ Told(<<>>, line, mode)
         /\ pc # "subscribeInvite" => Told(heard, line, mode)
         /\ (pc = "awaitPrompt" \/ (pc = "awaitInvite" /\ heard # <<>>)) =>
              Told(scroll, line, mode)

\* The three stages of a command that was written.
Unread ==
    /\ mode = "prompt"
    /\ typed # <<>>
    /\ typed[Len(typed)] = Command
    /\ \A i \in 1 .. Len(typed) - 1 : typed[i] = Key
    /\ line = <<>>
    /\ heard = <<>>

Executed ==
    /\ mode = "busy"
    /\ OnlyKeys(typed)
    /\ cur = Command
    /\ line = <<>>
    /\ heard = <<>>

Over ==
    /\ mode \notin {"off", "busy"}
    /\ OnlyKeys(typed)
    /\ Told(heard, line, mode)
    /\ Doing # "any" => mode \in {"prompt", "kernel"}
    /\ mode = "kernel" => (Doing = "boot" /\ ran.cmd.synced)
    /\ (Doing = "boot" /\ mode # "kernel") => (Lacks(Banner, heard) /\ Lacks(Banner, line))
    /\ (Doing = "crc" /\ loaded # "intact") =>
         (~Lacks(Complaint("crc"), heard) \/ ~Lacks(Complaint("crc"), line))

\* Where a call that is in step is, there is the target.
InTouch ==
    synced =>
      /\ pc \in {"idle", "cycle", "subscribeInvite", "awaitInvite", "subscribe",
                 "write", "failed"} => Quiet
      /\ pc # "awaitPrompt"
      /\ pc \in {"awaitInvite", "write"} => heard = <<>>
      /\ pc = "expect" => (Unread \/ Executed \/ Over)
      /\ (pc = "done" /\ ~Booted) => Quiet
      /\ BootedIsNetbooted

\* The boot command of a netboot that verifies and is in step.
VerifiedBoot(c) == c.what = "boot" /\ c.verify /\ c.synced

\* The last step with verify_crc32 is reached with an intact image.
Checked ==
    (synced /\ pc \in {"subscribe", "write"} /\ req.rpc = "netboot" /\ req.verify /\ step = 7)
      => loaded = "intact"

\* A command typed in step is the next that the target reads.
FirstInLine ==
    \A i \in DOMAIN typed : typed[i].synced =>
      /\ mode = "prompt"
      /\ \A j \in 1 .. i - 1 : typed[j] = Key
      /\ VerifiedBoot(typed[i]) => loaded = "intact"

Verified ==
    /\ Checked
    /\ FirstInLine
    /\ VerifiedBoot(cur) => loaded = "intact"
    /\ SyncedBootIsVerified

IInv == Typed /\ Flow /\ Booting /\ InTouch /\ Verified

-----------------------------------------------------------------------------
(* What is said.                                                           *)

\* The tokens and inputs that the host tells apart differ.
LEMMA Differ ==
  /\ Invite \in Tokens /\ Prompt \in Tokens /\ Banner \in Tokens
  /\ Invite # Prompt /\ Banner # Prompt /\ Invite # Banner
  /\ \A c \in Whats :
       /\ Answer(c) \in Tokens /\ Complaint(c) \in Tokens
       /\ Answer(c) # Prompt /\ Complaint(c) # Prompt
       /\ Answer(c) # Banner /\ Complaint(c) # Banner
  /\ Key \in Commands /\ NoCommand \in Commands
  /\ Key.what = "key" /\ ~Key.synced /\ ~NoCommand.synced
BY DEF Tokens, Whats, Invite, Prompt, Banner, Answer, Complaint, Token, Key, NoCommand, Commands

\* What a chunk is, and what it leaves.
LEMMA Cut ==
  ASSUME NEW s \in Seq(Tokens), NEW l \in Seq(Tokens), NEW n \in 1 .. Len(l)
  PROVE  /\ /\ SubSeq(l, 1, n) \in Seq(Tokens)
            /\ DOMAIN SubSeq(l, 1, n) = 1 .. n
            /\ \A i \in 1 .. n : SubSeq(l, 1, n)[i] = l[i]
         /\ /\ SubSeq(l, n + 1, Len(l)) \in Seq(Tokens)
            /\ Len(SubSeq(l, n + 1, Len(l))) = Len(l) - n
            /\ DOMAIN SubSeq(l, n + 1, Len(l)) = 1 .. Len(l) - n
            /\ \A i \in 1 .. Len(l) - n : SubSeq(l, n + 1, Len(l))[i] = l[n + i]
         /\ /\ s \o SubSeq(l, 1, n) \in Seq(Tokens)
            /\ DOMAIN (s \o SubSeq(l, 1, n)) = 1 .. Len(s) + n
            /\ \A i \in 1 .. Len(s) + n :
                 (s \o SubSeq(l, 1, n))[i] = IF i <= Len(s) THEN s[i] ELSE l[i - Len(s)]
         /\ Len(s) \in Nat /\ DOMAIN s = 1 .. Len(s)
<1> DEFINE front == SubSeq(l, 1, n)
           rest == SubSeq(l, n + 1, Len(l))
<1>1. PICK k \in Nat : k = Len(l)
  OBVIOUS
<1>2. n \in Nat /\ n >= 1 /\ n <= k
  BY <1>1
<1>3. DOMAIN l = 1 .. k /\ \A i \in 1 .. k : l[i] \in Tokens
  BY <1>1
<1>4. /\ front \in Seq(Tokens) /\ Len(front) = n /\ DOMAIN front = 1 .. n
      /\ \A i \in 1 .. n : front[i] = l[i]
  BY <1>2, <1>3, SubSeqProperties
<1>5. /\ rest \in Seq(Tokens)
      /\ Len(rest) = k - n
      /\ \A i \in 1 .. k - n : rest[i] = l[n + i]
  <2>1. /\ rest \in Seq(Tokens)
        /\ Len(rest) = IF n + 1 <= k THEN k - (n + 1) + 1 ELSE 0
        /\ \A i \in 1 .. k - (n + 1) + 1 : rest[i] = l[(n + 1) + i - 1]
    <3>1. n + 1 \in Int /\ k \in Int /\ \A i \in n + 1 .. k : l[i] \in Tokens
      BY <1>2, <1>3
    <3> HIDE DEF rest
    <3>2. rest = SubSeq(l, n + 1, k)
      BY <1>1 DEF rest
    <3> QED
      BY <3>1, <3>2, SubSeqProperties
  <2> HIDE DEF rest
  <2>2. k - (n + 1) + 1 = k - n
    BY <1>2
  <2>3. Len(rest) = k - n
    BY <1>2, <2>1
  <2>4. ASSUME NEW i \in 1 .. k - n
        PROVE  rest[i] = l[n + i]
    <3>1. (n + 1) + i - 1 = n + i
      BY <1>2
    <3> QED
      BY <2>1, <2>2, <3>1
  <2> QED
    BY <2>1, <2>3, <2>4
<1> HIDE DEF rest, front
<1>6. DOMAIN rest = 1 .. k - n
  BY <1>5
<1>7. /\ s \o front \in Seq(Tokens) /\ DOMAIN (s \o front) = 1 .. Len(s) + n
      /\ \A i \in 1 .. Len(s) + n :
           (s \o front)[i] = IF i <= Len(s) THEN s[i] ELSE front[i - Len(s)]
      /\ Len(s) \in Nat /\ DOMAIN s = 1 .. Len(s)
  <2>1. front \in Seq(Tokens) /\ s \in Seq(Tokens) /\ Len(s) \in Nat /\ DOMAIN s = 1 .. Len(s)
    BY <1>4
  <2>2. /\ s \o front \in Seq(Tokens)
        /\ Len(s \o front) = Len(s) + Len(front)
        /\ \A i \in 1 .. Len(s) + Len(front) :
             (s \o front)[i] = IF i <= Len(s) THEN s[i] ELSE front[i - Len(s)]
    BY <2>1, ConcatProperties
  <2>3. Len(s \o front) = Len(s) + n
    BY <1>4, <2>2
  <2>4. DOMAIN (s \o front) = 1 .. Len(s) + n
    BY <2>2, <2>3
  <2> QED
    BY <1>4, <2>1, <2>2, <2>4
<1>8. \A i \in 1 .. Len(s) + n :
        (s \o front)[i] = IF i <= Len(s) THEN s[i] ELSE l[i - Len(s)]
  <2> SUFFICES ASSUME NEW i \in 1 .. Len(s) + n, ~(i <= Len(s))
               PROVE  front[i - Len(s)] = l[i - Len(s)]
    BY <1>7
  <2>1. i - Len(s) \in 1 .. n
    BY <1>2, <1>7
  <2> QED
    BY <1>4, <2>1
<1>9. /\ Len(rest) = Len(l) - n
      /\ DOMAIN rest = 1 .. Len(l) - n
      /\ \A i \in 1 .. Len(l) - n : rest[i] = l[n + i]
  BY <1>1, <1>5, <1>6
<1>10. front \in Seq(Tokens) /\ DOMAIN front = 1 .. n /\ \A i \in 1 .. n : front[i] = l[i]
  BY <1>4
<1>11. rest \in Seq(Tokens)
  BY <1>5
<1> QED
  BY <1>7, <1>8, <1>9, <1>10, <1>11 DEF front, rest

\* What is lacking is lacking before and after.
LEMMA Lacking ==
  ASSUME NEW s \in Seq(Tokens), NEW l \in Seq(Tokens), NEW n \in 1 .. Len(l), NEW t
  PROVE  (Lacks(t, s) /\ Lacks(t, l))
           <=> (Lacks(t, s \o SubSeq(l, 1, n)) /\ Lacks(t, SubSeq(l, n + 1, Len(l))))
<1>1. PICK k \in Nat : k = Len(l)
  OBVIOUS
<1>2. n \in Nat /\ n >= 1 /\ n <= k /\ DOMAIN l = 1 .. k
  BY <1>1
<1>3. PICK joined : joined = s \o SubSeq(l, 1, n)
  OBVIOUS
<1>4. PICK rest : rest = SubSeq(l, n + 1, Len(l))
  OBVIOUS
<1>5. PICK h \in Nat : h = Len(s)
  OBVIOUS
<1>6. /\ DOMAIN joined = 1 .. h + n /\ DOMAIN s = 1 .. h
      /\ \A i \in 1 .. h + n : joined[i] = IF i <= h THEN s[i] ELSE l[i - h]
  BY <1>3, <1>5, Cut
<1>7. /\ DOMAIN rest = 1 .. k - n
      /\ \A i \in 1 .. k - n : rest[i] = l[n + i]
  BY <1>1, <1>4, Cut
<1>8. ASSUME Lacks(t, s), Lacks(t, l)
      PROVE  Lacks(t, joined) /\ Lacks(t, rest)
  <2>1. \A i \in 1 .. h : s[i] # t
    BY <1>6, <1>8 DEF Lacks
  <2>2. \A i \in 1 .. k : l[i] # t
    BY <1>2, <1>8 DEF Lacks
  <2>3. \A i \in 1 .. h + n : joined[i] # t
    BY <1>2, <1>6, <2>1, <2>2
  <2>4. \A i \in 1 .. k - n : rest[i] # t
    BY <1>2, <1>7, <2>2
  <2> QED
    BY <1>6, <1>7, <2>3, <2>4 DEF Lacks
<1>9. ASSUME Lacks(t, joined), Lacks(t, rest)
      PROVE  Lacks(t, s) /\ Lacks(t, l)
  <2>1. \A i \in 1 .. h + n : joined[i] # t
    BY <1>6, <1>9 DEF Lacks
  <2>2. \A i \in 1 .. k - n : rest[i] # t
    BY <1>7, <1>9 DEF Lacks
  <2>3. ASSUME NEW i \in 1 .. h
        PROVE  s[i] # t
    <3>1. i \in 1 .. h + n /\ i <= h
      BY <1>2
    <3> QED
      BY <1>6, <2>1, <3>1
  <2>4. ASSUME NEW i \in 1 .. k
        PROVE  l[i] # t
    <3>1. CASE i <= n
      <4>1. h + i \in 1 .. h + n /\ ~(h + i <= h) /\ (h + i) - h = i
        BY <1>2, <3>1
      <4> QED
        BY <1>6, <2>1, <4>1
    <3>2. CASE ~(i <= n)
      <4>1. i - n \in 1 .. k - n /\ n + (i - n) = i
        BY <1>2, <3>2
      <4> QED
        BY <1>7, <2>2, <4>1
    <3> QED
      BY <3>1, <3>2
  <2> QED
    BY <1>2, <1>6, <2>3, <2>4 DEF Lacks
<1> QED
  BY <1>3, <1>4, <1>8, <1>9

\* A chunk is delivered, to a listener or only to the scrollback.
LEMMA Delivered ==
  ASSUME NEW s \in Seq(Tokens), NEW l \in Seq(Tokens), NEW m, Told(s, l, m),
         NEW n \in 1 .. Len(l)
  PROVE  /\ SubSeq(l, 1, n) \in Seq(Tokens)
         /\ SubSeq(l, n + 1, Len(l)) \in Seq(Tokens)
         /\ Told(s, SubSeq(l, n + 1, Len(l)), m)
         /\ Told(s \o SubSeq(l, 1, n), SubSeq(l, n + 1, Len(l)), m)
         /\ Told(<<l[n]>>, SubSeq(l, n + 1, Len(l)), m)
<1>1. PICK k \in Nat : k = Len(l)
  OBVIOUS
<1>2. n \in Nat /\ n >= 1 /\ n <= k
  BY <1>1
<1>3. DOMAIN l = 1 .. k
  BY <1>1
<1>4. PICK joined : joined = s \o SubSeq(l, 1, n)
  OBVIOUS
<1>5. PICK rest : rest = SubSeq(l, n + 1, Len(l))
  OBVIOUS
<1>6. /\ rest \in Seq(Tokens) /\ Len(rest) = k - n /\ DOMAIN rest = 1 .. k - n
      /\ \A i \in 1 .. k - n : rest[i] = l[n + i]
  BY <1>1, <1>5, Cut
<1>7. /\ joined \in Seq(Tokens) /\ DOMAIN joined = 1 .. Len(s) + n
      /\ \A i \in 1 .. Len(s) + n : joined[i] = IF i <= Len(s) THEN s[i] ELSE l[i - Len(s)]
      /\ Len(s) \in Nat /\ DOMAIN s = 1 .. Len(s)
  BY <1>4, Cut
<1>8. l # <<>>
  BY <1>1, <1>2
<1>9. \A i \in 1 .. Len(s) : s[i] # Prompt
  BY <1>7, <1>8 DEF Told, Lacks
<1>10. \A i \in 1 .. k : l[i] = Prompt => i = k
  BY <1>1, <1>3 DEF Told
<1>11. \A i \in 1 .. k - n : rest[i] = Prompt => i = k - n
  <2> SUFFICES ASSUME NEW i \in 1 .. k - n, rest[i] = Prompt
               PROVE  i = k - n
    OBVIOUS
  <2>1. n + i \in 1 .. k /\ l[n + i] = Prompt
    BY <1>2, <1>6
  <2>2. n + i = k
    BY <1>10, <2>1
  <2> QED
    BY <1>2, <2>2
<1>12. ASSUME \A i \in 1 .. n : l[i] # Prompt
       PROVE  Lacks(Prompt, joined) /\ Lacks(Prompt, <<l[n]>>)
  <2>1. \A i \in 1 .. Len(s) + n : joined[i] # Prompt
    <3> SUFFICES ASSUME NEW i \in 1 .. Len(s) + n
                 PROVE  joined[i] # Prompt
      OBVIOUS
    <3>1. CASE i <= Len(s)
      BY <1>7, <1>9, <3>1
    <3>2. CASE ~(i <= Len(s))
      <4>1. i - Len(s) \in 1 .. n
        BY <1>2, <1>7, <3>2
      <4> QED
        BY <1>2, <1>7, <1>12, <3>2, <4>1
    <3> QED
      BY <3>1, <3>2
  <2>2. l[n] # Prompt
    BY <1>2, <1>12
  <2> QED
    BY <1>7, <2>1, <2>2 DEF Lacks
<1>13. n # k => \A i \in 1 .. n : l[i] # Prompt
  BY <1>2, <1>10
<1>14. n = k => rest = <<>>
  BY <1>6
<1>15. ASSUME m # "prompt"
       PROVE  (\A i \in 1 .. n : l[i] # Prompt) /\ Lacks(Prompt, rest)
  <2>1. \A i \in 1 .. k : l[i] # Prompt
    BY <1>3, <1>15 DEF Told, Lacks
  <2>2. \A i \in 1 .. k - n : rest[i] # Prompt
    BY <1>2, <1>6, <2>1
  <2> QED
    BY <1>2, <1>6, <2>1, <2>2 DEF Lacks
<1>16. ASSUME NEW x, Lacks(Prompt, x) \/ n = k, m # "prompt" => Lacks(Prompt, x)
       PROVE  Told(x, rest, m)
  <2>1. ~Lacks(Prompt, x) => rest = <<>>
    BY <1>14, <1>16
  <2>2. \A i \in DOMAIN rest : rest[i] = Prompt => i = Len(rest)
    BY <1>6, <1>11
  <2>3. m # "prompt" => (Lacks(Prompt, x) /\ Lacks(Prompt, rest))
    BY <1>15, <1>16
  <2> QED
    BY <2>1, <2>2, <2>3 DEF Told
<1>17. Told(s, rest, m)
  <2>1. Lacks(Prompt, s)
    BY <1>7, <1>9 DEF Lacks
  <2> QED
    BY <1>16, <2>1
<1>18. Told(joined, rest, m) /\ Told(<<l[n]>>, rest, m)
  <2>1. \/ Lacks(Prompt, joined) /\ Lacks(Prompt, <<l[n]>>)
        \/ n = k /\ m = "prompt"
    <3>1. CASE n # k \/ m # "prompt"
      <4>1. \A i \in 1 .. n : l[i] # Prompt
        BY <3>1, <1>13, <1>15
      <4> QED
        BY <4>1, <1>12
    <3> QED
      BY <3>1
  <2> QED
    BY <1>16, <2>1
<1> QED
  BY <1>4, <1>5, <1>6, <1>17, <1>18, Cut

\* The target says something that is not its prompt, or returns to it.
LEMMA Printed ==
  ASSUME NEW s \in Seq(Tokens), NEW l \in Seq(Tokens), NEW m, NEW t \in Tokens,
         Told(s, l, m), m # "prompt", t # Prompt
  PROVE  /\ \A m2 : Told(s, l \o <<t>>, m2)
         /\ Told(s, l \o <<Prompt>>, "prompt")
         /\ Told(s, l \o <<t, Prompt>>, "prompt")
<1>1. Len(l) \in Nat /\ DOMAIN l = 1 .. Len(l)
  OBVIOUS
<1>2. Lacks(Prompt, s) /\ \A i \in 1 .. Len(l) : l[i] # Prompt
  BY <1>1 DEF Told, Lacks
<1>3. Prompt \in Tokens
  BY Differ
<1>4. ASSUME NEW x \in Tokens
      PROVE  /\ l \o <<x>> \in Seq(Tokens) /\ Len(l \o <<x>>) = Len(l) + 1
             /\ \A i \in 1 .. Len(l) + 1 : (l \o <<x>>)[i] = IF i <= Len(l) THEN l[i] ELSE x
  BY <1>1
<1>5. /\ l \o <<t, Prompt>> \in Seq(Tokens) /\ Len(l \o <<t, Prompt>>) = Len(l) + 2
      /\ \A i \in 1 .. Len(l) + 2 :
           (l \o <<t, Prompt>>)[i] = IF i <= Len(l) THEN l[i] ELSE IF i = Len(l) + 1 THEN t ELSE Prompt
  BY <1>1, <1>3
<1>6. \A i \in 1 .. Len(l) + 1 : (l \o <<t>>)[i] # Prompt
  BY <1>1, <1>2, <1>4
<1>7. \A i \in 1 .. Len(l) + 1 : (l \o <<Prompt>>)[i] = Prompt => i = Len(l) + 1
  BY <1>1, <1>2, <1>3, <1>4
<1>8. \A i \in 1 .. Len(l) + 2 : (l \o <<t, Prompt>>)[i] = Prompt => i = Len(l) + 2
  BY <1>1, <1>2, <1>5
<1>9. DOMAIN (l \o <<t>>) = 1 .. Len(l) + 1
  BY <1>4
<1>10. DOMAIN (l \o <<Prompt>>) = 1 .. Len(l) + 1 /\ Len(l \o <<Prompt>>) = Len(l) + 1
  BY <1>3, <1>4
<1>11. DOMAIN (l \o <<t, Prompt>>) = 1 .. Len(l) + 2
  BY <1>5
<1>12. \A m2 : Told(s, l \o <<t>>, m2)
  BY <1>2, <1>6, <1>9 DEF Told, Lacks
<1>13. Told(s, l \o <<Prompt>>, "prompt")
  BY <1>2, <1>7, <1>10 DEF Told
<1>14. Told(s, l \o <<t, Prompt>>, "prompt")
  BY <1>2, <1>5, <1>8, <1>11 DEF Told
<1> QED
  BY <1>12, <1>13, <1>14

\* Reading from the queue of keys.
LEMMA Behead ==
  ASSUME NEW q \in Seq(Commands), q # <<>>
  PROVE  /\ Tail(q) \in Seq(Commands) /\ Len(Tail(q)) = Len(q) - 1
         /\ Len(q) \in Nat /\ Len(q) > 0 /\ Head(q) = q[1]
         /\ \A i \in 1 .. Len(q) - 1 : Tail(q)[i] = q[i + 1]
         /\ OnlyKeys(q) => (OnlyKeys(Tail(q)) /\ Head(q) = Key)
<1>1. /\ Tail(q) \in Seq(Commands) /\ Len(Tail(q)) = Len(q) - 1
      /\ Len(q) \in Nat /\ Len(q) > 0 /\ Head(q) = q[1]
      /\ \A i \in 1 .. Len(q) - 1 : Tail(q)[i] = q[i + 1]
  OBVIOUS
<1>2. OnlyKeys(q) => (OnlyKeys(Tail(q)) /\ Head(q) = Key)
  BY <1>1 DEF OnlyKeys
<1> QED
  BY <1>1, <1>2

-----------------------------------------------------------------------------
(* The steps of the host.                                                  *)

\* What Doing and Command are.
LEMMA CommandFacts ==
  ASSUME Typed
  PROVE  /\ Doing \in Whats /\ Command \in Commands
         /\ Command # Key /\ Command.synced = synced
         /\ Command.what = Doing /\ Command.verify = req.verify
         /\ Doing = "any" <=> req.rpc = "command"
         /\ Doing # "any" => Doing = Script[step]
         /\ Doing \in {"any", "ethact", "dhcp", "env", "tftp", "crc", "boot"}
<1>1. step \in 1 .. 7 /\ req \in Requests /\ synced \in BOOLEAN
  BY DEF Typed, TypeOK, Script
<1>2. Script[step] \in {"ethact", "dhcp", "env", "tftp", "crc", "boot"}
  BY <1>1 DEF Script
<1>3. req.verify \in BOOLEAN
  BY <1>1 DEF Requests
<1> QED
  BY <1>1, <1>2, <1>3 DEF Doing, Command, Commands, Whats, Key

\* An RPC begins with nothing subscribed.
LEMMA CallStartsKeeps ==
  ASSUME IInv, CallStarts
  PROVE  IInv'
<1> USE DEF IInv
<1>1. Typed'
  <2>1. pc' \in {"cycle", "subscribeInvite", "subscribe"} /\ step' = 1 /\ step' \in 1 .. Len(Script)
    BY DEF CallStarts, Script
  <2>2. attempts' \in 0 .. MaxAttempts
    BY BoundsAssumption DEF CallStarts
  <2>3. heard' \in Seq(Tokens) /\ req' \in Requests
    BY DEF CallStarts
  <2> QED
    BY <2>1, <2>2, <2>3 DEF Typed, TypeOK, CallStarts, target
<1>2. Flow'
  BY <1>1 DEF Flow, CallStarts, Typed, TypeOK, Requests
<1>3. Booting'
  BY DEF Booting, Restarting, CallStarts, target, Told, Lacks
<1>4. InTouch'
  BY DEF InTouch, CallStarts, target, Quiet, BootedIsNetbooted, Booted
<1>5. Verified'
  BY DEF Verified, Checked, FirstInLine, VerifiedBoot, SyncedBootIsVerified, CallStarts, target
<1> QED
  BY <1>1, <1>2, <1>3, <1>4, <1>5

\* Off ends whatever the target was doing (CycleDevice).
LEMMA PowerOffKeeps ==
  ASSUME IInv, PowerOff
  PROVE  IInv'
<1> USE DEF IInv
<1>1. Typed'
  <2>1. scroll' \in Seq(Tokens) /\ Len(scroll') <= 1 /\ typed' \in Seq(Commands)
    BY DEF PowerOff
  <2> QED
    BY <2>1, Differ DEF Typed, TypeOK, PowerOff
<1>2. Flow'
  BY DEF Flow, PowerOff
<1>3. Booting'
  BY DEF Booting, Restarting, PowerOff
<1>4. InTouch'
  BY DEF InTouch, PowerOff, BootedIsNetbooted
<1>5. Verified'
  BY Differ DEF Verified, Checked, FirstInLine, VerifiedBoot, SyncedBootIsVerified, PowerOff
<1> QED
  BY <1>1, <1>2, <1>3, <1>4, <1>5

\* On starts the boot loader from the beginning.
LEMMA PowerOnKeeps ==
  ASSUME IInv, PowerOn
  PROVE  IInv'
<1> USE DEF IInv
<1>1. Typed'
  BY DEF Typed, TypeOK, PowerOn, Booting
<1>2. Flow'
  BY DEF Flow, PowerOn
<1>3. Booting'
  BY DEF Booting, Restarting, PowerOn, Told, Lacks, OnlyKeys
<1>4. InTouch'
  BY DEF InTouch, PowerOn, BootedIsNetbooted, Booting, Booted
<1>5. Verified'
  BY DEF Verified, Checked, FirstInLine, VerifiedBoot, SyncedBootIsVerified, PowerOn, Booting
<1> QED
  BY <1>1, <1>2, <1>3, <1>4, <1>5

\* InterruptBoot reads on until it sees the invitation.
LEMMA AwaitInviteKeeps ==
  ASSUME IInv, AwaitInvite
  PROVE  IInv'
<1> USE DEF IInv
<1>1. Typed'
  BY DEF Typed, TypeOK, AwaitInvite, target
<1>2. Flow'
  BY DEF Flow, AwaitInvite, target
<1>3. Booting'
  BY DEF Booting, Restarting, AwaitInvite, target
<1>4. InTouch'
  BY DEF InTouch, AwaitInvite, target, Quiet, BootedIsNetbooted, Booted
<1>5. Verified'
  BY DEF Verified, Checked, FirstInLine, VerifiedBoot, SyncedBootIsVerified, AwaitInvite, target
<1> QED
  BY <1>1, <1>2, <1>3, <1>4, <1>5

\* Each attempt sends the key and looks for the prompt.
LEMMA SendKeyKeeps ==
  ASSUME IInv, SendKey
  PROVE  IInv'
<1> USE DEF IInv
<1>1. /\ typed' \in Seq(Commands) /\ Len(typed') = Len(typed) + 1
      /\ \A i \in 1 .. Len(typed) : typed'[i] = typed[i]
      /\ typed'[Len(typed) + 1] = Key
      /\ Len(typed) \in Nat
  BY Differ, AppendProperties DEF SendKey, Typed
<1>2. OnlyKeys(typed) => OnlyKeys(typed')
  BY <1>1 DEF OnlyKeys
<1>3. Typed'
  BY <1>1, BoundsAssumption DEF Typed, TypeOK, SendKey
<1>4. Flow'
  BY DEF Flow, SendKey
<1>5. (Restarting /\ pc # "subscribeInvite" /\ (pc = "awaitInvite" => heard # <<>>))
        => Told(scroll, line, mode)
  BY DEF Restarting, Booting
<1>6. Booting'
  BY <1>2, <1>5 DEF Booting, Restarting, SendKey, Heard
<1>7. ~synced
  BY DEF InTouch, SendKey, Heard
<1>8. InTouch'
  BY <1>7 DEF InTouch, SendKey, BootedIsNetbooted
<1>9. FirstInLine'
  BY <1>1, Differ DEF Verified, FirstInLine, VerifiedBoot, SendKey
<1>10. Verified'
  BY <1>9 DEF Verified, Checked, VerifiedBoot, SyncedBootIsVerified, SendKey
<1> QED
  BY <1>3, <1>4, <1>6, <1>8, <1>10

\* The prompt after the key: the boot loader listens.
LEMMA InterruptedKeeps ==
  ASSUME IInv, Interrupted
  PROVE  IInv'
<1> USE DEF IInv
<1>1. Typed'
  <2>1. pc' \in {"done", "subscribe"} /\ heard' \in Seq(Tokens)
    BY DEF Interrupted, AfterInterrupt
  <2>2. synced' \in BOOLEAN
    BY DEF Interrupted, Typed, TypeOK, Requests
  <2> QED
    BY <2>1, <2>2 DEF Typed, TypeOK, Interrupted, target
<1>2. Flow'
  BY DEF Flow, Interrupted, AfterInterrupt, target
<1>3. Booting'
  BY DEF Booting, Restarting, Interrupted, AfterInterrupt, target
<1>4. ~synced /\ ~Lacks(Prompt, heard)
  BY DEF InTouch, Interrupted, EndsInPrompt, Lacks, Typed
<1>5. req.cycle => Quiet
  BY <1>4 DEF Booting, Restarting, Interrupted, Quiet, Told
<1>6. InTouch'
  BY <1>4, <1>5 DEF InTouch, Interrupted, AfterInterrupt, target, Quiet, BootedIsNetbooted, Booted, Typed
<1>7. Checked'
  BY DEF Checked, Interrupted, Flow
<1>8. Verified'
  BY <1>7 DEF Verified, FirstInLine, VerifiedBoot, SyncedBootIsVerified, Interrupted, target
<1> QED
  BY <1>1, <1>2, <1>3, <1>6, <1>8

\* sendAndExpect subscribes before it writes.
LEMMA SendSubscribeKeeps ==
  ASSUME IInv, SendSubscribe
  PROVE  IInv'
<1> USE DEF IInv
<1>1. Typed'
  BY DEF Typed, TypeOK, SendSubscribe, target
<1>2. Flow'
  BY DEF Flow, SendSubscribe, target
<1>3. Booting'
  BY DEF Booting, Restarting, SendSubscribe, target
<1>4. InTouch'
  BY DEF InTouch, SendSubscribe, target, Quiet, BootedIsNetbooted, Booted
<1>5. Verified'
  BY DEF Verified, Checked, FirstInLine, VerifiedBoot, SyncedBootIsVerified, SendSubscribe, target
<1> QED
  BY <1>1, <1>2, <1>3, <1>4, <1>5

\* The command is written.
LEMMA SendWriteKeeps ==
  ASSUME IInv, SendWrite
  PROVE  IInv'
<1> USE DEF IInv
<1>1. Command \in Commands /\ Command.synced = synced
      /\ Command.verify = req.verify /\ Command.what = Doing
  BY CommandFacts
<1>2. /\ typed' \in Seq(Commands) /\ Len(typed') = Len(typed) + 1
      /\ \A i \in 1 .. Len(typed) : typed'[i] = typed[i]
      /\ typed'[Len(typed) + 1] = Command
      /\ Len(typed) \in Nat
  BY <1>1, AppendProperties DEF SendWrite, Typed
<1>3. Typed'
  BY <1>2 DEF Typed, TypeOK, SendWrite
<1>4. Flow'
  BY DEF Flow, SendWrite
<1>5. Booting'
  BY DEF Booting, Restarting, SendWrite
<1>6. Command' = Command
  BY DEF Command, Doing, SendWrite
<1>7. synced => Unread'
  <2> SUFFICES ASSUME synced PROVE Unread'
    OBVIOUS
  <2>1. Quiet /\ heard = <<>>
    BY DEF InTouch, SendWrite
  <2>2. \A i \in 1 .. Len(typed) : typed[i] = Key
    BY <1>2, <2>1 DEF Quiet, OnlyKeys, Typed
  <2> QED
    BY <1>2, <1>6, <2>1, <2>2 DEF Unread, SendWrite, Quiet
<1>8. InTouch'
  BY <1>7 DEF InTouch, SendWrite, BootedIsNetbooted, Booted
<1>9. FirstInLine'
  <2> SUFFICES ASSUME NEW i \in 1 .. Len(typed) + 1, typed'[i].synced
               PROVE  /\ mode = "prompt"
                      /\ \A j \in 1 .. i - 1 : typed'[j] = Key
                      /\ VerifiedBoot(typed'[i]) => loaded = "intact"
    BY <1>2 DEF FirstInLine, SendWrite, VerifiedBoot
  <2>1. CASE i <= Len(typed)
    <3>1. i \in DOMAIN typed /\ typed[i].synced /\ typed'[i] = typed[i]
      BY <1>2, <2>1 DEF Typed
    <3>2. /\ mode = "prompt"
          /\ \A j \in 1 .. i - 1 : typed[j] = Key
          /\ VerifiedBoot(typed[i]) => loaded = "intact"
      BY <3>1 DEF Verified, FirstInLine
    <3>3. \A j \in 1 .. i - 1 : typed'[j] = typed[j]
      BY <1>2, <2>1
    <3> QED
      BY <3>1, <3>2, <3>3
  <2>2. CASE i = Len(typed) + 1
    <3>1. synced /\ Quiet
      BY <1>1, <1>2, <2>2 DEF InTouch, SendWrite
    <3>2. \A j \in 1 .. i - 1 : typed'[j] = Key
      BY <1>2, <2>2, <3>1 DEF Quiet, OnlyKeys, Typed
    <3>3. VerifiedBoot(Command) => (req.rpc = "netboot" /\ req.verify /\ step = 7)
      <4>1. Doing = "boot" => (req.rpc # "command" /\ Script[step] = "boot" /\ step \in 1 .. 7)
        BY DEF Doing, Typed, TypeOK, Script
      <4>2. Script[step] = "boot" /\ step \in 1 .. 7 => step = 7
        BY DEF Script
      <4>3. req.rpc \in {"netboot", "interrupt", "command"} /\ req.rpc # "interrupt"
        BY DEF Typed, TypeOK, Requests, Flow, SendWrite
      <4> QED
        BY <1>1, <4>1, <4>2, <4>3 DEF VerifiedBoot
    <3>4. VerifiedBoot(Command) => loaded = "intact"
      BY <3>1, <3>3 DEF Verified, Checked, SendWrite
    <3> QED
      BY <1>2, <2>2, <3>1, <3>2, <3>4 DEF Quiet
  <2> QED
    BY <1>2, <2>1, <2>2
<1>10. Verified'
  BY <1>9 DEF Verified, Checked, VerifiedBoot, SyncedBootIsVerified, SendWrite
<1> QED
  BY <1>3, <1>4, <1>5, <1>8, <1>10

\* runChecked sees the prompt that ends the command's output.
LEMMA CommandDoneKeeps ==
  ASSUME IInv, CommandDone
  PROVE  IInv'
<1> USE DEF IInv
<1>1. /\ Doing = "any" => (pc' = "done" /\ step' = step)
      /\ (Doing # "any" /\ Complains(Doing)) => (pc' = "failed" /\ step' = step)
      /\ (Doing # "any" /\ ~Complains(Doing)) => (pc' = "subscribe" /\ step' = NextStep)
  BY DEF CommandDone
<1>2. step \in 1 .. 7 /\ req \in Requests
  BY DEF Typed, TypeOK, Script
<1>3. Doing # "any" => (Doing = Script[step] /\ req.rpc = "netboot" /\ step \in 1 .. 6)
  <2> SUFFICES ASSUME Doing # "any" PROVE Doing = Script[step] /\ req.rpc = "netboot" /\ step \in 1 .. 6
    OBVIOUS
  <2>1. Doing = Script[step] /\ req.rpc = "netboot"
    BY <1>2 DEF Doing, Requests, Flow, CommandDone
  <2>2. Script[step] # "boot"
    BY <2>1 DEF CommandDone
  <2>3. step # 7
    BY <2>2 DEF Script
  <2> QED
    BY <1>2, <2>1, <2>3
<1>4. Doing # "any" => (NextStep \in 2 .. 7 /\ (NextStep = 6 => req.verify))
  BY <1>2, <1>3 DEF NextStep, Script
<1>5. Typed'
  <2>1. step' \in 1 .. Len(Script)
    BY <1>1, <1>2, <1>4 DEF Script
  <2>2. pc' \in {"done", "failed", "subscribe"}
    BY <1>1
  <2> QED
    BY <2>1, <2>2 DEF Typed, TypeOK, CommandDone, target
<1>6. Flow'
  BY <1>1, <1>3, <1>4 DEF Flow, CommandDone
<1>7. Booting'
  BY <1>1 DEF Booting, Restarting, CommandDone, target
<1>8. ~Lacks(Prompt, heard)
  BY DEF CommandDone, EndsInPrompt, Lacks, Typed
<1>9. synced => (Over /\ Quiet)
  <2>1. synced => Over
    BY <1>8 DEF InTouch, CommandDone, Unread, Executed, Lacks
  <2>2. Over => Quiet
    BY <1>8 DEF Over, Quiet, Told
  <2> QED
    BY <2>1, <2>2
<1>10. Doing = "any" => (req.rpc # "netboot" /\ req'.rpc # "netboot")
  BY <1>2 DEF Doing, Script, CommandDone
<1>11. InTouch'
  BY <1>1, <1>9, <1>10 DEF InTouch, CommandDone, target, Quiet, BootedIsNetbooted, Booted
<1>12. Checked'
  <2> SUFFICES ASSUME synced, pc' = "subscribe", req.rpc = "netboot", req.verify, step' = 7
               PROVE  loaded = "intact"
    BY <1>1 DEF Checked, CommandDone, target
  <2>1. Doing # "any" /\ ~Complains(Doing) /\ NextStep = 7
    BY <1>1
  <2>2. Doing = "crc"
    BY <1>2, <1>3, <2>1 DEF NextStep, Script
  <2>3. Lacks(Complaint("crc"), heard) /\ line = <<>>
    BY <1>9, <2>1, <2>2 DEF Complains, Heard, Lacks, Quiet
  <2>4. Lacks(Complaint("crc"), line)
    BY <2>3 DEF Lacks
  <2> QED
    BY <1>9, <2>2, <2>3, <2>4 DEF Over
<1>13. Verified'
  BY <1>12 DEF Verified, FirstInLine, VerifiedBoot, SyncedBootIsVerified, CommandDone, target
<1> QED
  BY <1>5, <1>6, <1>7, <1>11, <1>13

\* The boot command has left the boot loader.
LEMMA BootDoneKeeps ==
  ASSUME IInv, BootDone
  PROVE  IInv'
<1> USE DEF IInv
<1>1. Typed'
  BY DEF Typed, TypeOK, BootDone, target
<1>2. Flow'
  BY DEF Flow, BootDone
<1>3. Booting'
  BY DEF Booting, Restarting, BootDone
<1>4. ~Lacks(Banner, heard) /\ heard # <<>>
  BY DEF BootDone, Heard, Lacks
<1>5. synced => (Over /\ mode = "kernel" /\ ran.cmd.synced)
  BY <1>4 DEF InTouch, BootDone, Unread, Executed, Over
<1>6. req.rpc = "netboot" /\ req' = req
  BY DEF BootDone, Doing, Typed, TypeOK, Requests, Flow
<1>7. InTouch'
  BY <1>5, <1>6 DEF InTouch, BootDone, target, BootedIsNetbooted, Booted
<1>8. Verified'
  BY DEF Verified, Checked, FirstInLine, VerifiedBoot, SyncedBootIsVerified, BootDone, target
<1> QED
  BY <1>1, <1>2, <1>3, <1>7, <1>8

\* A step of the orchestrator fails.
LEMMA HostFailsKeeps ==
  ASSUME IInv, HostFails
  PROVE  IInv'
<1> USE DEF IInv
<1>1. Typed'
  BY DEF Typed, TypeOK, HostFails, target
<1>2. Flow'
  BY DEF Flow, HostFails
<1>3. Booting'
  BY DEF Booting, Restarting, HostFails
<1>4. InTouch'
  BY DEF InTouch, HostFails, BootedIsNetbooted
<1>5. Verified'
  BY DEF Verified, Checked, FirstInLine, VerifiedBoot, SyncedBootIsVerified, HostFails, target
<1> QED
  BY <1>1, <1>2, <1>3, <1>4, <1>5

\* The RPC returns and closes its subscription.
LEMMA CallReturnsKeeps ==
  ASSUME IInv, CallReturns
  PROVE  IInv'
<1> USE DEF IInv
<1>1. Typed'
  BY DEF Typed, TypeOK, CallReturns, target, Booted
<1>2. Flow'
  BY DEF Flow, CallReturns
<1>3. Booting'
  BY DEF Booting, Restarting, CallReturns
<1>4. InTouch'
  BY DEF InTouch, CallReturns, target, Quiet, BootedIsNetbooted, Booted
<1>5. Verified'
  BY DEF Verified, Checked, FirstInLine, VerifiedBoot, SyncedBootIsVerified, CallReturns, target
<1> QED
  BY <1>1, <1>2, <1>3, <1>4, <1>5

-----------------------------------------------------------------------------
(* The console and the target.                                             *)

\* A chunk of output reaches the subscription.
LEMMA DeliverKeeps ==
  ASSUME IInv, Deliver
  PROVE  IInv'
<1> USE DEF IInv
<1>1. /\ heard \in Seq(Tokens) /\ line \in Seq(Tokens) /\ scroll \in Seq(Tokens)
      /\ Len(line) \in Nat
  BY DEF Typed
<1>2. PICK n \in 1 .. Len(line) :
        /\ line' = SubSeq(line, n + 1, Len(line))
        /\ scroll' = <<line[n]>>
        /\ heard' = IF Listening /\ ~Matched THEN heard \o SubSeq(line, 1, n) ELSE heard
  BY DEF Deliver
<1>3. PICK joined : joined = heard \o SubSeq(line, 1, n)
  OBVIOUS
<1>4. /\ UNCHANGED <<pc, step, req, attempts, calls, synced, mode, cur, typed, loaded, ran>>
      /\ heard' = heard \/ heard' = joined
      /\ (Listening /\ ~Matched) => heard' = joined
  BY <1>2, <1>3 DEF Deliver, target
<1>5. line # <<>> /\ line[n] \in Tokens /\ line' \in Seq(Tokens) /\ joined \in Seq(Tokens)
  BY <1>1, <1>2, <1>3, Cut
<1>6. scroll' \in Seq(Tokens) /\ Len(scroll') = 1
  BY <1>2, <1>5
<1>7. Typed'
  <2>1. heard' \in Seq(Tokens)
    BY <1>1, <1>4, <1>5
  <2> QED
    BY <1>4, <1>5, <1>6, <2>1 DEF Typed, TypeOK
<1>8. Flow'
  BY <1>4 DEF Flow
<1>9. ASSUME NEW s \in Seq(Tokens), Told(s, line, mode)
      PROVE  /\ Told(s, line', mode)
             /\ Told(s \o SubSeq(line, 1, n), line', mode)
             /\ Told(scroll', line', mode)
  BY <1>1, <1>2, <1>9, Delivered
<1>10. Told(heard, line, mode) => (Told(heard', line', mode') /\ Told(scroll', line', mode'))
  BY <1>1, <1>3, <1>4, <1>9
<1>11. Told(<<>>, line, mode) => (Told(<<>>, line', mode') /\ Told(scroll', line', mode'))
  <2>1. <<>> \in Seq(Tokens)
    OBVIOUS
  <2> QED
    BY <1>4, <1>9, <2>1
<1>12. Booting'
  BY <1>4, <1>10, <1>11 DEF Booting, Restarting
<1>13. ~Quiet /\ ~Unread /\ ~Executed
  BY <1>5 DEF Quiet, Unread, Executed
<1>14. \A t : (Lacks(t, heard) /\ Lacks(t, line)) <=> (Lacks(t, joined) /\ Lacks(t, line'))
  BY <1>1, <1>2, <1>3, Lacking
<1>15. ASSUME synced, pc = "expect"
       PROVE  Over'
  <2>1. Over
    BY <1>13, <1>15 DEF InTouch
  <2>2. Lacks(Prompt, heard)
    BY <1>5, <2>1 DEF Over, Told
  <2>3. ~EndsInPrompt
    BY <1>1, <2>2 DEF EndsInPrompt, Lacks
  <2>4. Heard(Banner) <=> ~Lacks(Banner, heard)
    BY DEF Heard, Lacks
  <2>5. (Doing # "boot" \/ mode # "kernel") => heard' = joined
    <3>1. Listening
      BY <1>15 DEF Listening
    <3>2. (Doing # "boot" \/ mode # "kernel") => ~Matched
      BY <1>15, <2>1, <2>3, <2>4 DEF Matched, Over
    <3> QED
      BY <1>4, <3>1, <3>2
  <2>6. Doing' = Doing
    BY <1>4 DEF Doing
  <2>7. Told(heard', line', mode')
    BY <1>10, <2>1 DEF Over
  <2>8. (Doing = "boot" /\ mode # "kernel") => (Lacks(Banner, heard') /\ Lacks(Banner, line'))
    BY <1>14, <2>1, <2>5 DEF Over
  <2>9. (Doing = "crc" /\ loaded # "intact") =>
          (~Lacks(Complaint("crc"), heard') \/ ~Lacks(Complaint("crc"), line'))
    BY <1>14, <2>1, <2>5 DEF Over
  <2>10. Complaint("crc")' = Complaint("crc")
    BY DEF Complaint, Token
  <2> QED
    BY <1>4, <2>1, <2>6, <2>7, <2>8, <2>9, <2>10 DEF Over
<1>16. InTouch'
  BY <1>4, <1>13, <1>15 DEF InTouch, BootedIsNetbooted, Booted
<1>17. Verified'
  BY <1>4 DEF Verified, Checked, FirstInLine, VerifiedBoot, SyncedBootIsVerified
<1> QED
  BY <1>7, <1>8, <1>12, <1>16, <1>17

\* Where the host stays, it stays in the flow.
LEMMA HostStays ==
  ASSUME IInv, UNCHANGED host
  PROVE  Flow' /\ Doing' = Doing /\ Command' = Command
BY DEF IInv, Flow, host, Doing, Command

\* It says something on its way to the prompt, with nothing typed but keys.
LEMMA SaysKeeps ==
  ASSUME IInv, TargetInvites \/ TargetAutoboots
  PROVE  IInv'
<1> USE DEF IInv
<1>1. PICK t \in {Invite, Banner} : line' = line \o <<t>>
  BY DEF TargetInvites, TargetAutoboots, Prints
<1>2. /\ UNCHANGED <<host, scroll, cur, typed, loaded, ran>>
      /\ mode \in {"starting", "autoboot"} /\ mode' \in {"autoboot", "flash"}
  BY DEF TargetInvites, TargetAutoboots
<1>3. t \in Tokens /\ t # Prompt
  BY Differ
<1>4. heard \in Seq(Tokens) /\ scroll \in Seq(Tokens) /\ line \in Seq(Tokens) /\ line' \in Seq(Tokens)
  BY <1>1, <1>3, ConcatProperties DEF Typed
<1>5. Typed'
  BY <1>2, <1>4 DEF Typed, TypeOK, host
<1>6. Flow' /\ Doing' = Doing
  BY <1>2, HostStays
<1>7. \A s \in Seq(Tokens) : Told(s, line, mode) => Told(s, line', mode')
  BY <1>1, <1>2, <1>3, <1>4, Printed
<1>8. Booting'
  <2>1. <<>> \in Seq(Tokens)
    OBVIOUS
  <2> QED
    BY <1>2, <1>4, <1>7, <2>1 DEF Booting, Restarting, host
<1>9. InTouch'
  <2>1. ~Quiet /\ ~Unread /\ ~Executed
    BY <1>2 DEF Quiet, Unread, Executed
  <2>2. Over => Over'
    BY <1>2, <1>4, <1>6, <1>7 DEF Over, host
  <2> QED
    BY <1>2, <2>1, <2>2 DEF InTouch, BootedIsNetbooted, Booted, host
<1>10. FirstInLine'
  BY <1>2 DEF Verified, FirstInLine
<1>11. Verified'
  BY <1>2, <1>10 DEF Verified, Checked, VerifiedBoot, SyncedBootIsVerified, host
<1> QED
  BY <1>5, <1>6, <1>8, <1>9, <1>11

\* The boot loader reads the key.
LEMMA TargetReadsKeyKeeps ==
  ASSUME IInv, TargetReadsKey
  PROVE  IInv'
<1> USE DEF IInv
<1>1. /\ typed \in Seq(Commands) /\ typed # <<>> /\ typed' = Tail(typed) /\ Head(typed) = Key
      /\ UNCHANGED <<host, scroll, cur, loaded, ran>>
      /\ heard \in Seq(Tokens) /\ scroll \in Seq(Tokens) /\ line \in Seq(Tokens)
  BY DEF TargetReadsKey, Typed
<1>2. PICK k \in Nat : k = Len(typed)
  BY <1>1
<1>3. /\ typed' \in Seq(Commands) /\ Len(typed') = k - 1 /\ k > 0 /\ typed[1] = Key
      /\ \A i \in 1 .. k - 1 : typed'[i] = typed[i + 1]
      /\ OnlyKeys(typed) => OnlyKeys(typed')
      /\ DOMAIN typed = 1 .. k /\ DOMAIN typed' = 1 .. k - 1
  BY <1>1, <1>2, Behead
<1>4. \/ mode = "autoboot" /\ mode' = "prompt" /\ line' = line \o <<Prompt>>
      \/ mode # "autoboot" /\ mode' = mode /\ line' = line
  BY DEF TargetReadsKey, Prints
<1>5. line' \in Seq(Tokens)
  <2>1. <<Prompt>> \in Seq(Tokens)
    BY Differ
  <2> QED
    BY <1>1, <1>4, <2>1, ConcatProperties
<1>6. Typed'
  BY <1>1, <1>3, <1>4, <1>5 DEF Typed, TypeOK, host
<1>7. Flow' /\ Doing' = Doing /\ Command' = Command
  BY <1>1, HostStays
<1>8. \A s \in Seq(Tokens) : Told(s, line, mode) => Told(s, line', mode')
  BY <1>1, <1>4, Differ, Printed
<1>9. Booting'
  <2>1. <<>> \in Seq(Tokens) /\ typed # <<>>
    BY <1>1
  <2> QED
    BY <1>1, <1>3, <1>4, <1>8, <2>1 DEF Booting, Restarting, host
<1>10. Quiet => Quiet'
  BY <1>3, <1>4 DEF Quiet
<1>11. Unread => Unread'
  <2> SUFFICES ASSUME Unread PROVE Unread'
    OBVIOUS
  <2>1. typed[k] = Command /\ \A i \in 1 .. k - 1 : typed[i] = Key
    BY <1>2 DEF Unread
  <2>2. Command # Key
    BY CommandFacts
  <2>3. k # 1
    BY <1>3, <2>1, <2>2
  <2>4. typed' # <<>> /\ typed'[k - 1] = Command
    BY <1>3, <2>1, <2>3
  <2>5. \A i \in 1 .. (k - 1) - 1 : typed'[i] = Key
    BY <1>3, <2>1
  <2> QED
    BY <1>1, <1>3, <1>4, <1>7, <2>4, <2>5 DEF Unread, host
<1>12. Executed => Executed'
  BY <1>1, <1>3, <1>4, <1>7 DEF Executed, host
<1>13. Over => Over'
  BY <1>1, <1>3, <1>4, <1>7, <1>8 DEF Over, host
<1>14. InTouch'
  BY <1>1, <1>4, <1>10, <1>11, <1>12, <1>13 DEF InTouch, BootedIsNetbooted, Booted, host
<1>15. FirstInLine'
  <2> SUFFICES ASSUME NEW i \in 1 .. k - 1, typed'[i].synced
               PROVE  /\ mode' = "prompt"
                      /\ \A j \in 1 .. i - 1 : typed'[j] = Key
                      /\ VerifiedBoot(typed'[i]) => loaded = "intact"
    BY <1>1, <1>3 DEF FirstInLine, VerifiedBoot
  <2>1. i + 1 \in 1 .. k /\ typed'[i] = typed[i + 1]
    BY <1>3
  <2>2. /\ mode = "prompt"
        /\ \A j \in 1 .. (i + 1) - 1 : typed[j] = Key
        /\ VerifiedBoot(typed[i + 1]) => loaded = "intact"
    BY <1>3, <2>1 DEF Verified, FirstInLine
  <2>3. ASSUME NEW j \in 1 .. i - 1
        PROVE  typed'[j] = Key
    <3>1. j \in 1 .. k - 1 /\ j + 1 \in 1 .. (i + 1) - 1
      BY <1>3
    <3> QED
      BY <1>3, <2>2, <3>1
  <2> QED
    BY <1>4, <2>1, <2>2, <2>3
<1>16. Verified'
  BY <1>1, <1>15 DEF Verified, Checked, VerifiedBoot, SyncedBootIsVerified, host
<1> QED
  BY <1>6, <1>7, <1>9, <1>14, <1>16

\* The boot loader reads a command.
LEMMA TargetReadsCommandKeeps ==
  ASSUME IInv, TargetReadsCommand
  PROVE  IInv'
<1> USE DEF IInv
<1>1. /\ typed \in Seq(Commands) /\ typed # <<>> /\ typed' = Tail(typed) /\ Head(typed) # Key
      /\ mode = "prompt" /\ mode' = "busy" /\ cur' = Head(typed)
      /\ UNCHANGED <<host, scroll, line, loaded, ran>>
  BY DEF TargetReadsCommand, Typed
<1>2. PICK k \in Nat : k = Len(typed)
  BY <1>1
<1>3. /\ typed' \in Seq(Commands) /\ Len(typed') = k - 1 /\ k > 0 /\ Head(typed) = typed[1]
      /\ \A i \in 1 .. k - 1 : typed'[i] = typed[i + 1]
      /\ DOMAIN typed = 1 .. k /\ DOMAIN typed' = 1 .. k - 1
      /\ typed[1] \in Commands
  BY <1>1, <1>2, Behead
<1>4. ~OnlyKeys(typed)
  BY <1>1, <1>3 DEF OnlyKeys
<1>5. Typed'
  BY <1>1, <1>3 DEF Typed, TypeOK, host
<1>6. Flow' /\ Doing' = Doing /\ Command' = Command
  BY <1>1, HostStays
<1>7. Booting'
  BY <1>1, <1>4 DEF Booting, Restarting, host
<1>8. Unread => Executed'
  <2> SUFFICES ASSUME Unread PROVE Executed'
    OBVIOUS
  <2>1. k = 1 /\ typed[1] = Command
    BY <1>1, <1>2, <1>3 DEF Unread
  <2>2. OnlyKeys(typed')
    BY <1>3, <2>1 DEF OnlyKeys
  <2> QED
    BY <1>1, <1>3, <1>6, <2>1, <2>2 DEF Unread, Executed, host
<1>9. InTouch'
  BY <1>1, <1>4, <1>8 DEF InTouch, Quiet, Executed, Over, BootedIsNetbooted, Booted, host
<1>10. ASSUME NEW i \in 1 .. k - 1
       PROVE  ~typed'[i].synced
  <2>1. i + 1 \in 1 .. k /\ typed'[i] = typed[i + 1] /\ 1 \in 1 .. (i + 1) - 1
    BY <1>3
  <2> QED
    BY <1>1, <1>3, <2>1 DEF Verified, FirstInLine
<1>11. FirstInLine'
  BY <1>3, <1>10 DEF FirstInLine
<1>12. VerifiedBoot(typed[1]) => loaded = "intact"
  <2>1. 1 \in 1 .. k
    BY <1>3
  <2> QED
    BY <1>3, <2>1 DEF Verified, FirstInLine, VerifiedBoot
<1>13. Verified'
  BY <1>1, <1>3, <1>11, <1>12 DEF Verified, Checked, VerifiedBoot, SyncedBootIsVerified, host
<1> QED
  BY <1>5, <1>6, <1>7, <1>9, <1>13

\* Input nobody reads is lost.
LEMMA TargetLosesInputKeeps ==
  ASSUME IInv, TargetLosesInput
  PROVE  IInv'
<1> USE DEF IInv
<1>1. /\ typed \in Seq(Commands) /\ typed # <<>> /\ typed' = Tail(typed) /\ Head(typed) # Key
      /\ mode # "prompt"
      /\ UNCHANGED <<host, scroll, line, mode, cur, loaded, ran>>
  BY DEF TargetLosesInput, Typed
<1>2. PICK k \in Nat : k = Len(typed)
  BY <1>1
<1>3. /\ typed' \in Seq(Commands) /\ Len(typed') = k - 1 /\ k > 0 /\ Head(typed) = typed[1]
      /\ \A i \in 1 .. k - 1 : typed'[i] = typed[i + 1]
      /\ DOMAIN typed = 1 .. k /\ DOMAIN typed' = 1 .. k - 1
  BY <1>1, <1>2, Behead
<1>4. ~OnlyKeys(typed)
  BY <1>1, <1>3 DEF OnlyKeys
<1>5. Typed'
  BY <1>1, <1>3 DEF Typed, TypeOK, host
<1>6. Flow'
  BY <1>1, HostStays
<1>7. Booting'
  BY <1>1, <1>4 DEF Booting, Restarting, host
<1>8. InTouch'
  BY <1>1, <1>4 DEF InTouch, Quiet, Unread, Executed, Over, BootedIsNetbooted, Booted, host
<1>9. ASSUME NEW i \in 1 .. k - 1
      PROVE  ~typed'[i].synced
  <2>1. i + 1 \in 1 .. k /\ typed'[i] = typed[i + 1]
    BY <1>3
  <2> QED
    BY <1>1, <1>3, <2>1 DEF Verified, FirstInLine
<1>10. FirstInLine'
  BY <1>3, <1>9 DEF FirstInLine
<1>11. Verified'
  BY <1>1, <1>10 DEF Verified, Checked, VerifiedBoot, SyncedBootIsVerified, host
<1> QED
  BY <1>5, <1>6, <1>7, <1>8, <1>11

\* A target at work is not at rest, nor is anything typed in step.
LEMMA AtWork ==
  ASSUME IInv, mode = "busy"
  PROVE  /\ ~Restarting /\ pc # "off"
         /\ ~Quiet /\ ~Unread /\ ~Over
         /\ \A i \in DOMAIN typed : ~typed[i].synced
         /\ synced => pc \in {"expect", "done"}
         /\ (synced /\ pc = "expect") => Executed
         /\ (synced /\ pc = "done") => FALSE
BY DEF IInv, Booting, Restarting, Quiet, Unread, Over, Verified, FirstInLine, InTouch, Typed,
       TypeOK, Executed, BootedIsNetbooted

\* A command ends in an answer: crc32 complains of an image that is not intact.
LEMMA AnswerKeeps ==
  ASSUME IInv, NEW good \in BOOLEAN, TargetAnswers(good),
         loaded' \in Images,
         cur.what \notin {"tftp", "any"} => loaded' = loaded,
         cur.what = "crc" => (good <=> loaded = "intact")
  PROVE  IInv'
<1> USE DEF IInv
<1>1. PICK t : t = IF good THEN Answer(cur.what) ELSE Complaint(cur.what)
  OBVIOUS
<1>2. /\ mode = "busy" /\ mode' = "prompt" /\ line' = line \o <<t, Prompt>> /\ cur' = NoCommand
      /\ UNCHANGED <<host, scroll, typed, ran>>
      /\ heard \in Seq(Tokens) /\ line \in Seq(Tokens) /\ typed \in Seq(Commands)
      /\ cur.what \in Whats
  BY <1>1 DEF TargetAnswers, Prints, Typed, Commands
<1>3. t \in Tokens /\ t # Prompt /\ t # Banner /\ Prompt \in Tokens /\ Prompt # Banner
  BY <1>1, <1>2, Differ
<1>4. line' \in Seq(Tokens)
  <2>1. <<t, Prompt>> \in Seq(Tokens)
    BY <1>3
  <2> QED
    BY <1>2, <2>1, ConcatProperties
<1>5. Typed'
  BY <1>2, <1>4, Differ DEF Typed, TypeOK, host, Images
<1>6. Flow' /\ Doing' = Doing
  BY <1>2, HostStays
<1>7. Booting'
  BY <1>2, AtWork DEF Booting, Restarting, host
<1>8. ASSUME synced, pc = "expect"
      PROVE  Over'
  <2>1. Executed
    BY <1>2, <1>8, AtWork
  <2>2. /\ line = <<>> /\ heard = <<>> /\ OnlyKeys(typed)
        /\ cur.what = Doing
    BY <2>1, CommandFacts DEF Executed
  <2>3. line' = <<t, Prompt>>
    BY <1>2, <1>3, <2>2
  <2>4. Told(<<>>, <<>>, mode)
    BY DEF Told, Lacks
  <2>5. Told(heard', line', mode')
    <3>1. Told(heard, line', "prompt")
      BY <1>2, <1>3, <2>2, <2>4, Printed
    <3> QED
      BY <1>2, <3>1 DEF host
  <2>6. DOMAIN line' = {1, 2} /\ line'[1] = t /\ line'[2] = Prompt
    BY <2>3
  <2>7. Lacks(Banner, heard') /\ Lacks(Banner, line')
    BY <1>2, <1>3, <2>2, <2>6 DEF Lacks, host
  <2>8. (Doing = "crc" /\ loaded' # "intact") => ~Lacks(Complaint("crc"), line')
    BY <1>1, <2>2, <2>6 DEF Lacks
  <2>9. Complaint("crc")' = Complaint("crc")
    BY DEF Complaint, Token
  <2> QED
    BY <1>2, <1>6, <2>2, <2>5, <2>7, <2>8, <2>9 DEF Over
<1>9. InTouch'
  BY <1>2, <1>8, AtWork DEF InTouch, BootedIsNetbooted, Booted, host, Typed
<1>10. FirstInLine'
  BY <1>2, AtWork DEF FirstInLine
<1>11. Checked'
  BY <1>2, AtWork DEF Checked, host
<1>12. Verified'
  BY <1>2, <1>10, <1>11, Differ DEF Verified, VerifiedBoot, SyncedBootIsVerified
<1> QED
  BY <1>5, <1>6, <1>7, <1>9, <1>12

\* setenv and dhcp, and their output.
LEMMA TargetSetsKeeps ==
  ASSUME IInv, TargetSets
  PROVE  IInv'
BY AnswerKeeps DEF TargetSets, IInv, Typed, TypeOK, Images

\* tftpboot, and its output.
LEMMA TargetTftpKeeps ==
  ASSUME IInv, TargetTftp
  PROVE  IInv'
BY AnswerKeeps DEF TargetTftp, IInv, Typed, TypeOK, Images

\* crc32, and its output.
LEMMA TargetCrcKeeps ==
  ASSUME IInv, TargetCrc
  PROVE  IInv'
BY AnswerKeeps DEF TargetCrc, IInv, Typed, TypeOK, Images

\* A command of the caller: it may do anything.
LEMMA TargetObeysKeeps ==
  ASSUME IInv, TargetObeys
  PROVE  IInv'
<1> USE DEF IInv
<1>1. cur.what = "any"
  BY DEF TargetObeys
<1>2. CASE \E good \in BOOLEAN :
              TargetAnswers(good) /\ loaded' \in {loaded, "intact", "corrupt"}
  BY <1>1, <1>2, AnswerKeeps DEF Typed, TypeOK, Images
<1>3. CASE /\ mode = "busy" /\ mode' = "starting"
           /\ cur' = NoCommand /\ loaded' = "none"
           /\ UNCHANGED <<host, scroll, typed, ran, line>>
  <2>1. Typed'
    BY <1>3, Differ DEF Typed, TypeOK, host
  <2>2. Flow' /\ Doing' = Doing
    BY <1>3, HostStays
  <2>3. Booting'
    BY <1>3, AtWork DEF Booting, Restarting, host
  <2>4. ASSUME synced, pc = "expect"
        PROVE  Over'
    <3>1. Executed
      BY <1>3, <2>4, AtWork
    <3>2. line = <<>> /\ heard = <<>> /\ OnlyKeys(typed) /\ Doing = "any"
      BY <1>1, <3>1, CommandFacts DEF Executed
    <3> QED
      BY <1>3, <2>2, <3>2 DEF Over, Told, Lacks, host
  <2>5. InTouch'
    BY <1>3, <2>4, AtWork DEF InTouch, BootedIsNetbooted, Booted, host, Typed
  <2>6. Verified'
    BY <1>3, AtWork, Differ DEF Verified, Checked, FirstInLine, VerifiedBoot, SyncedBootIsVerified, host
  <2> QED
    BY <2>1, <2>2, <2>3, <2>5, <2>6
<1> QED
  BY <1>2, <1>3 DEF TargetObeys

\* The boot loader leaves for what it was told to run, or for the flash.
LEMMA TargetBootsKeeps ==
  ASSUME IInv, TargetBoots
  PROVE  IInv'
<1> USE DEF IInv
<1>1. cur.what = "boot"
  BY DEF TargetBoots
<1>2. CASE TargetAnswers(FALSE) /\ UNCHANGED loaded
  BY <1>1, <1>2, AnswerKeeps DEF Typed, TypeOK, Images
<1>3. CASE /\ loaded # "none" /\ mode = "busy"
           /\ mode' = "kernel"
           /\ Prints(<<Banner>>)
           /\ ran' = [cmd |-> cur, image |-> loaded]
           /\ cur' = NoCommand
           /\ UNCHANGED <<host, scroll, typed, loaded>>
  <2>1. /\ line' = line \o <<Banner>> /\ line \in Seq(Tokens) /\ Banner \in Tokens
        /\ Banner # Prompt /\ cur \in Commands
    BY <1>3, Differ DEF Prints, Typed
  <2>2. line' \in Seq(Tokens)
    BY <2>1, ConcatProperties
  <2>3. Typed'
    BY <1>3, <2>1, <2>2, Differ DEF Typed, TypeOK, host, Images
  <2>4. Flow' /\ Doing' = Doing
    BY <1>3, HostStays
  <2>5. Booting'
    BY <1>3, AtWork DEF Booting, Restarting, host
  <2>6. ASSUME synced, pc = "expect"
        PROVE  Over'
    <3>1. Executed
      BY <1>3, <2>6, AtWork
    <3>2. /\ line = <<>> /\ heard = <<>> /\ OnlyKeys(typed)
          /\ Doing = "boot" /\ cur.synced
      BY <1>1, <2>6, <3>1, CommandFacts DEF Executed
    <3>3. Told(<<>>, <<>>, mode)
      BY DEF Told, Lacks
    <3>4. Told(heard, line', mode')
      BY <1>3, <2>1, <3>2, <3>3, Printed
    <3>5. Told(heard', line', mode')
      BY <1>3, <3>4 DEF host
    <3> QED
      BY <1>3, <2>4, <3>2, <3>5 DEF Over
  <2>7. InTouch'
    BY <1>3, <2>6, AtWork DEF InTouch, BootedIsNetbooted, Booted, host, Typed
  <2>8. SyncedBootIsVerified'
    BY <1>1, <1>3 DEF Verified, VerifiedBoot, SyncedBootIsVerified
  <2>9. Verified'
    BY <1>3, <2>8, AtWork, Differ DEF Verified, Checked, FirstInLine, VerifiedBoot, host
  <2> QED
    BY <2>3, <2>4, <2>5, <2>7, <2>9
<1> QED
  BY <1>2, <1>3 DEF TargetBoots

-----------------------------------------------------------------------------
(* The theorems.                                                           *)

\* A powered target, and no call.
LEMMA InitIInv == Init => IInv
<1> SUFFICES ASSUME Init PROVE IInv
  OBVIOUS
<1>1. Typed
  <2>1. <<>> \in Seq(Tokens) /\ <<>> \in Seq(Commands) /\ Len(scroll) <= 1
    BY DEF Init
  <2>2. step \in 1 .. Len(Script) /\ req \in Requests /\ attempts \in 0 .. MaxAttempts
    BY BoundsAssumption DEF Init, Script, Requests
  <2> QED
    BY <2>1, <2>2, Differ DEF Init, Typed, TypeOK, Images
<1>2. Flow /\ Booting /\ InTouch
  BY DEF Init, Flow, Booting, Restarting, InTouch, BootedIsNetbooted
<1>3. Verified
  BY Differ DEF Init, Verified, Checked, FirstInLine, VerifiedBoot, SyncedBootIsVerified, NoCommand
<1> QED
  BY <1>1, <1>2, <1>3 DEF IInv

\* Every step keeps the invariant.
LEMMA NextIInv == IInv /\ [Next]_vars => IInv'
<1> SUFFICES ASSUME IInv, [Next]_vars PROVE IInv'
  OBVIOUS
<1>1. CASE UNCHANGED vars
  <2>1. Typed' /\ Flow' /\ Verified'
    BY <1>1 DEF IInv, Typed, TypeOK, Flow, Verified, Checked, FirstInLine, VerifiedBoot,
                SyncedBootIsVerified, vars, host, target
  <2>2. Booting'
    BY <1>1 DEF IInv, Booting, Restarting, vars, host, target
  <2>3. Doing' = Doing /\ Command' = Command
    BY <1>1, HostStays DEF vars
  <2>4. InTouch'
    BY <1>1, <2>3 DEF IInv, InTouch, Quiet, Unread, Executed, Over, BootedIsNetbooted, Booted,
                Complaint, Token, vars, host, target
  <2> QED
    BY <2>1, <2>2, <2>4 DEF IInv
<1>2. CASE Next
  BY <1>2, CallStartsKeeps, PowerOffKeeps, PowerOnKeeps, AwaitInviteKeeps, SendKeyKeeps,
     InterruptedKeeps, SendSubscribeKeeps, SendWriteKeeps, CommandDoneKeeps, BootDoneKeeps,
     HostFailsKeeps, CallReturnsKeeps, DeliverKeeps, SaysKeeps, TargetReadsKeyKeeps,
     TargetReadsCommandKeeps, TargetLosesInputKeeps, TargetObeysKeeps, TargetSetsKeeps,
     TargetTftpKeeps, TargetCrcKeeps, TargetBootsKeeps DEF Next
<1> QED
  BY <1>1, <1>2

\* From a power-cycled interrupt on, host and boot loader stay in step, for any
\* number of keys and calls (CycleDevice, InterruptBoot and runChecked).
THEOREM InStepHolds == Spec => []InStep
<1>1. IInv => InStep
  BY DEF IInv, Typed, InTouch, Quiet, OnlyKeys, InStep
<1> QED
  BY InitIInv, NextIInv, <1>1, PTL DEF Spec

\* In step, no image runs that crc32 found wrong, whatever earlier calls left.
THEOREM SyncedBootIsVerifiedHolds == Spec => []SyncedBootIsVerified
<1>1. IInv => SyncedBootIsVerified
  BY DEF IInv, Verified
<1> QED
  BY InitIInv, NextIInv, <1>1, PTL DEF Spec

\* In step, what is reported as booted is the netbooted kernel.
THEOREM BootedIsNetbootedHolds == Spec => []BootedIsNetbooted
<1>1. IInv => BootedIsNetbooted
  BY DEF IInv, InTouch, BootedIsNetbooted
<1> QED
  BY InitIInv, NextIInv, <1>1, PTL DEF Spec
=============================================================================
