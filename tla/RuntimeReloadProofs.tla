------------------------- MODULE RuntimeReloadProofs -------------------------
(***************************************************************************)
(* RuntimeReload holds no pointer into a configuration that is gone, the   *)
(* wire flags follow the configuration, and a reload that succeeds is      *)
(* complete: for every set of files, users, addresses and descriptors, and *)
(* for every set of texts, as ConfiguredDaemon implements RuntimeReload.   *)
(* Whatever a text says, keychain and configuration agree on its users,    *)
(* and the configuration holds what the text says, line by line.           *)
(***************************************************************************)
EXTENDS ConfiguredDaemon, Induction, SequenceTheorems, TLAPS

\* A socket that is bound is bound to a port there is, and the listener is where its
\* own binding, asked for again, could put it.
BoundOK(b) == b \in Binding /\ b \in Opened(b)

\* The inductive invariant: the fields of the attached configuration have their
\* shape, so that a setting changes no other, and what was taken from it is of
\* it.
ConfigOK == config \in [load : Nat, server : ServerFields]

IInv ==
  /\ ConfigOK
  /\ file \in Files
  /\ loads \in Nat
  /\ BoundOK(bound)
  /\ BorrowsAttached
  /\ WireFollowsConfig

\* A port keeps less than PortMod, and one there is stays as it is.
LEMMA PortCut ==
  /\ \A p \in Int : p % PortMod \in 0 .. PortMod - 1
  /\ \A p \in Ports : p \in PortRead /\ p % PortMod = p /\ p # 0
<1>1. PortMod \in Nat \ {0, 1}
  BY ReloadAssumption
<1>2. \A p \in Int : p % PortMod \in 0 .. PortMod - 1
  BY <1>1
<1>3. ASSUME NEW p \in Ports PROVE p % PortMod = p /\ p # 0 /\ p \in PortRead
  BY <1>1, <1>3 DEF Ports, PortRead
<1> QED
  BY <1>2, <1>3

\* Wherever a binding is opened, the listener gets one that is as it was bound.
LEMMA OpenedBound ==
  ASSUME NEW b \in Binding, NEW c \in Opened(b)
  PROVE  BoundOK(c)
<1>1. b.ip \in STRING /\ b.port \in Int /\ b.port \in PortRead
  BY DEF Binding, PortRead
<1>2. CASE b.port % PortMod # 0
  <2>1. b.port % PortMod \in Ports
    BY <1>1, <1>2, PortCut DEF Ports
  <2>2. c = [b EXCEPT !.port = b.port % PortMod]
    BY <1>2 DEF Opened
  <2>3. c \in Binding /\ c.port = b.port % PortMod
    BY <2>1, <2>2, <1>1, PortCut DEF Binding
  <2>4. c.port % PortMod = c.port /\ c.port # 0
    BY <2>1, <2>3, PortCut
  <2> QED
    BY <2>3, <2>4 DEF BoundOK, Opened, Binding
<1>3. CASE b.port % PortMod = 0 /\ b.ip = "any"
  BY <1>3 DEF BoundOK, Opened
<1>4. CASE b.port % PortMod = 0 /\ b.ip # "any"
  <2>1. PICK q \in Ports : c = [b EXCEPT !.port = q]
    BY <1>4 DEF Opened
  <2>2. c \in Binding /\ c.port = q
    BY <2>1, <1>1, PortCut DEF Binding
  <2>3. c.port % PortMod = c.port /\ c.port # 0
    BY <2>2, PortCut
  <2> QED
    BY <2>2, <2>3 DEF BoundOK, Opened, Binding
<1> QED
  BY <1>2, <1>3, <1>4

\* What may be asked for has the shape of a binding.
LEMMA TargetShape ==
  ASSUME ConfigOK, NEW b \in Targets
  PROVE  b \in Binding
BY ReloadAssumption, PortCut DEF Targets, ConfigOK, ServerFields, Binding

\* A loaded configuration has the shape of one, whichever file it comes from.
LEMMA LoadedShape ==
  ASSUME NEW f \in Files, NEW n \in Nat
  PROVE  /\ Loaded(f, n) \in [load : Nat, server : ServerFields]
         /\ Loaded(f, n).load = n
BY ReloadAssumption DEF Loaded, File

\* The daemon starts with a listener, a session and wire flags of its
\* configuration.
LEMMA InitEstablishesIInv == Init => IInv
<1> SUFFICES ASSUME Init PROVE IInv
  OBVIOUS
<1>1. file \in Files /\ config = Loaded(file, 1)
  BY DEF Init
<1>2. ConfigOK /\ config.load = 1
  BY <1>1, LoadedShape DEF ConfigOK
<1>3. BoundOK(bound)
  BY <1>2, OpenedBound DEF Init, ConfigOK, ServerFields
<1>4. loads \in Nat /\ WireFollowsConfig
  BY DEF Init, WireFollowsConfig
<1>5. BorrowsAttached
  BY <1>2 DEF Init, BorrowsAttached, SessionOf
<1> QED
  BY <1>1, <1>2, <1>3, <1>4, <1>5 DEF IInv

\* A change of the binding leaves the load, the key and the flags alone.
LEMMA BindingChanged ==
  ASSUME ConfigOK, NEW b \in Binding, Configures(b)
  PROVE  /\ ConfigOK'
         /\ config'.load = config.load
         /\ KeyOf(config') = KeyOf(config)
         /\ FlagsOf(config') = FlagsOf(config)
         /\ server = config.load => server' = config'.load
BY DEF Configures, ConfigOK, ServerFields, KeyOf, FlagsOf

\* A change of the wire flags leaves the load and the key alone.
LEMMA FlagsChanged ==
  ASSUME ConfigOK, NEW flags \in [decode : BOOLEAN, auth : BOOLEAN],
         config' = [config EXCEPT !.server.decode = flags.decode,
                                  !.server.auth = flags.auth]
  PROVE  /\ ConfigOK'
         /\ config'.load = config.load
         /\ KeyOf(config') = KeyOf(config)
BY DEF ConfigOK, ServerFields, KeyOf

\* A job of a builtin that leaves the load where it is, and listener and key to
\* it, keeps the borrows.
LEMMA BorrowsKept ==
  ASSUME NEW u, NEW c, config' = c,
         server' = c.load, AnswersWith(KeyOf(c), u)
  PROVE  BorrowsAttached'
BY DEF BorrowsAttached, AnswersWith, KeyOf

\* Every step of the loop, every builtin and every way a reload ends preserves
\* the invariant.
LEMMA NextPreservesIInv == IInv /\ [Next]_vars => IInv'
<1> SUFFICES ASSUME IInv, [Next]_vars PROVE IInv'
  OBVIOUS
<1> USE DEF IInv
<1>1. CASE UNCHANGED vars
  BY <1>1 DEF vars, ConfigOK, BorrowsAttached, WireFollowsConfig, KeyOf, FlagsOf
<1>2. ASSUME NEW f \in Files, EditFile(f) PROVE IInv'
  BY <1>2 DEF EditFile, ConfigOK, BorrowsAttached, WireFollowsConfig, KeyOf, FlagsOf
<1>3. CASE Turn \/ Pump \/ JobsEnd
  BY <1>3 DEF Turn, Pump, JobsEnd, ConfigOK, BorrowsAttached, WireFollowsConfig, KeyOf,
     FlagsOf
<1>4. ASSUME NEW u \in Users, RebindSame(u) PROVE IInv'
  <2>1. ConfigOK' /\ config'.load = config.load /\ KeyOf(config') = KeyOf(config)
          /\ FlagsOf(config') = FlagsOf(config) /\ server' = config'.load
    BY <1>4, BindingChanged DEF RebindSame, BoundOK, BorrowsAttached
  <2>2. BorrowsAttached'
    BY <1>4, <2>1, BorrowsKept DEF RebindSame, BorrowsAttached
  <2> QED
    BY <1>4, <2>1, <2>2 DEF RebindSame, Job, WireFollowsConfig
<1>5. ASSUME NEW u \in Users, NEW b \in Targets, RebindListener(u, b) PROVE IInv'
  <2>1. b \in Binding
    BY TargetShape
  <2>2. ConfigOK' /\ config'.load = config.load /\ KeyOf(config') = KeyOf(config)
          /\ FlagsOf(config') = FlagsOf(config) /\ server' = config'.load
    BY <1>5, <2>1, BindingChanged DEF RebindListener, BorrowsAttached
  <2>3. BorrowsAttached'
    BY <1>5, <2>2, BorrowsKept DEF RebindListener, BorrowsAttached
  <2>4. BoundOK(bound')
    BY <1>5, <2>1, OpenedBound DEF RebindListener, Reopened
  <2> QED
    BY <1>5, <2>2, <2>3, <2>4 DEF RebindListener, Job, WireFollowsConfig, BoundOK
<1>6. ASSUME NEW u \in Users, NEW flags \in [decode : BOOLEAN, auth : BOOLEAN],
             SetWire(u, flags)
      PROVE  IInv'
  <2>1. ConfigOK' /\ config'.load = config.load /\ KeyOf(config') = KeyOf(config)
    BY <1>6, FlagsChanged DEF SetWire
  <2>2. BorrowsAttached'
    BY <1>6, <2>1, BorrowsKept DEF SetWire, BorrowsAttached
  <2>3. WireFollowsConfig'
    BY <1>6 DEF SetWire, WireFollowsConfig, FlagsOf
  <2> QED
    BY <1>6, <2>1, <2>2, <2>3 DEF SetWire, Job
<1>7. ASSUME NEW u \in Users, ReloadRefused(u) \/ RebindRefused(u) PROVE IInv'
  <2>1. BorrowsAttached'
    BY <1>7, BorrowsKept DEF ReloadRefused, RebindRefused, BorrowsAttached
  <2> QED
    BY <1>7, <2>1 DEF ReloadRefused, RebindRefused, Job, ConfigOK, WireFollowsConfig, FlagsOf
<1>8. ASSUME NEW u \in Users, ReloadNotRebound(u) \/ ReloadNotSynced(u) PROVE IInv'
  <2>1. BorrowsAttached'
    BY <1>8, BorrowsKept DEF ReloadNotRebound, ReloadNotSynced, RollsBack
  <2>2. file' \in Files /\ loads' \in Nat /\ ConfigOK' /\ WireFollowsConfig'
    BY <1>8 DEF ReloadNotRebound, ReloadNotSynced, RollsBack, Stages, Job, ConfigOK,
       WireFollowsConfig, FlagsOf
  <2>3. BoundOK(bound')
    BY <1>8, ReloadAssumption, OpenedBound DEF ReloadNotRebound, ReloadNotSynced, BoundTo,
       Reopened, File, ServerFields
  <2> QED
    BY <2>1, <2>2, <2>3 DEF BoundOK
<1>9. ASSUME NEW u \in Users, ReloadDone(u) PROVE IInv'
  <2>1. file' \in Files /\ loads' \in Nat
    BY <1>9 DEF ReloadDone, Stages, Job
  <2>2. ConfigOK'
    BY <1>9, <2>1, LoadedShape DEF ReloadDone, ConfigOK
  <2>3. BorrowsAttached'
    BY <1>9, BorrowsKept DEF ReloadDone
  <2>4. BoundOK(bound')
    BY <1>9, ReloadAssumption, OpenedBound DEF ReloadDone, BoundTo, Reopened, File, ServerFields
  <2>5. WireFollowsConfig'
    BY <1>9 DEF ReloadDone, WireFollowsConfig
  <2> QED
    BY <2>1, <2>2, <2>3, <2>4, <2>5 DEF BoundOK
<1>10. ASSUME NEW u \in Users, ChangeSetting(u) PROVE IInv'
  <2>1. PICK v \in BOOLEAN : \/ SetWire(u, [FlagsOf(config) EXCEPT !.decode = v])
                             \/ SetWire(u, [FlagsOf(config) EXCEPT !.auth = v])
    BY <1>10 DEF ChangeSetting
  <2>2. /\ [FlagsOf(config) EXCEPT !.decode = v] \in [decode : BOOLEAN, auth : BOOLEAN]
        /\ [FlagsOf(config) EXCEPT !.auth = v] \in [decode : BOOLEAN, auth : BOOLEAN]
    BY DEF FlagsOf, ConfigOK, ServerFields
  <2> QED
    BY <1>6, <2>1, <2>2
<1> QED
  BY <1>1, <1>2, <1>3, <1>4, <1>5, <1>7, <1>8, <1>9, <1>10 DEF Next, Builtin

\* The invariant holds in every reachable state.
THEOREM Invariance == Spec => []IInv
BY InitEstablishesIInv, NextPreservesIInv, PTL DEF Spec

\* Listener and session hold the attached configuration, however many reloads
\* failed or succeeded before.
THEOREM BorrowsCorrect == Spec => []BorrowsAttached
<1>1. IInv => BorrowsAttached
  BY DEF IInv
<1> QED
  BY <1>1, Invariance, PTL

\* The mux enforces the wire flags of the attached configuration.
THEOREM WireCorrect == Spec => []WireFollowsConfig
<1>1. IInv => WireFollowsConfig
  BY DEF IInv
<1> QED
  BY <1>1, Invariance, PTL

-----------------------------------------------------------------------------

\* One step that attaches another configuration brings its binding, cut to a port
\* there is, and its codec context.
LEMMA StepIsComplete ==
  ASSUME IInv, [Next]_vars, config'.load # config.load
  PROVE  /\ bound' \in Opened(config'.server.binding)
         /\ codec' = CodecOf(config', config'.server.users)
<1> USE DEF IInv
<1>1. ~ UNCHANGED config
  OBVIOUS
<1>2. ASSUME NEW u \in Users, RebindSame(u) PROVE FALSE
  BY <1>2, BindingChanged DEF RebindSame, BoundOK
<1>3. ASSUME NEW u \in Users, NEW b \in Targets, RebindListener(u, b) PROVE FALSE
  BY <1>3, BindingChanged, TargetShape DEF RebindListener
<1>4. ASSUME NEW u \in Users, ChangeSetting(u) PROVE FALSE
  <2>1. PICK v \in BOOLEAN : \/ SetWire(u, [FlagsOf(config) EXCEPT !.decode = v])
                             \/ SetWire(u, [FlagsOf(config) EXCEPT !.auth = v])
    BY <1>4 DEF ChangeSetting
  <2>2. /\ [FlagsOf(config) EXCEPT !.decode = v] \in [decode : BOOLEAN, auth : BOOLEAN]
        /\ [FlagsOf(config) EXCEPT !.auth = v] \in [decode : BOOLEAN, auth : BOOLEAN]
    BY DEF FlagsOf, ConfigOK, ServerFields
  <2> QED
    BY <2>1, <2>2, FlagsChanged DEF SetWire
<1>5. PICK u \in Users : ReloadDone(u)
  BY <1>1, <1>2, <1>3, <1>4 DEF Next, Builtin, vars, EditFile, Turn, Pump, JobsEnd,
     ReloadRefused, RebindRefused, ReloadNotRebound, ReloadNotSynced, RollsBack
<1>6. bound' \in Opened(file.server.binding)
  BY <1>5 DEF ReloadDone, BoundTo, Reopened, BoundOK
<1> QED
  BY <1>5, <1>6 DEF ReloadDone, Loaded

\* A reload that succeeds leaves no binding, key or user of an earlier
\* configuration in force, also after reloads that failed half-way.
THEOREM ReloadComplete == Spec => ReloadIsComplete
<1>1. IInv /\ [Next]_vars =>
        [config'.load # config.load =>
           /\ bound' \in Opened(config'.server.binding)
           /\ codec' = CodecOf(config', config'.server.users)]_vars
  BY StepIsComplete
<1> QED
  BY <1>1, Invariance, PTL DEF Spec, ReloadIsComplete

-----------------------------------------------------------------------------
(* Lookups: the first that fits *)

\* The first of s in T.
FirstIn(s, T) ==
  LET hits == {i \in 1 .. Len(s) : s[i] \in T}
  IN  IF hits = {} THEN {} ELSE {s[Min(hits)]}

\* An element of a set of numbers that no other is below is what Min gives.
LEMMA MinIs ==
  ASSUME NEW I, I \subseteq Nat, NEW m \in I, \A j \in I : m <= j
  PROVE  Min(I) = m
<1>1. Min(I) \in I /\ \A j \in I : Min(I) <= j
  BY DEF Min
<1>2. Min(I) <= m /\ m <= Min(I) /\ m \in Nat /\ Min(I) \in Nat
  BY <1>1
<1> QED
  BY <1>2

\* Min is an element, and least, of every set of numbers that has one.
LEMMA MinLeast ==
  ASSUME NEW I, I \subseteq Nat, I # {}
  PROVE  Min(I) \in I /\ \A j \in I : Min(I) <= j
<1>1. \E m \in I : \A j \in I : m <= j
  BY LeastOf
<1> QED
  BY <1>1 DEF Min

\* One more at the end counts if none before it does.
LEMMA FirstInAppended ==
  ASSUME NEW U, NEW s \in Seq(U), NEW e \in U, NEW T
  PROVE  FirstIn(Append(s, e), T)
           = IF FirstIn(s, T) # {} THEN FirstIn(s, T) ELSE IF e \in T THEN {e} ELSE {}
<1> DEFINE more == Append(s, e)
           n == Len(s)
           H == {i \in 1 .. n : s[i] \in T}
           G == {i \in 1 .. Len(more) : more[i] \in T}
<1>1. /\ n \in Nat /\ Len(more) = n + 1 /\ more[n + 1] = e
      /\ \A i \in 1 .. n : more[i] = s[i]
  OBVIOUS
<1>2. /\ FirstIn(s, T) = IF H = {} THEN {} ELSE {s[Min(H)]}
      /\ FirstIn(more, T) = IF G = {} THEN {} ELSE {more[Min(G)]}
  BY DEF FirstIn
<1> HIDE DEF more, n
<1>3. H \subseteq G /\ H \subseteq 1 .. n /\ G \subseteq 1 .. n + 1
  BY <1>1
<1>4. \A i \in G : i \in H \/ (i = n + 1 /\ e \in T)
  BY <1>1
<1>5. CASE H # {}
  <2>1. Min(H) \in H /\ \A j \in H : Min(H) <= j
    <3>1. H \subseteq Nat
      BY <1>1, <1>3
    <3> HIDE DEF H
    <3> QED
      BY <1>5, <3>1, MinLeast
  <2>2. Min(G) = Min(H)
    <3> HIDE DEF G, H
    <3> DEFINE least == Min(H)
    <3>2. least \in H /\ \A j \in H : least <= j
      BY <2>1
    <3> HIDE DEF least
    <3>3. least \in G /\ G \subseteq Nat /\ least \in 1 .. n
      BY <1>1, <1>3, <3>2
    <3>4. \A j \in G : least <= j
      BY <1>1, <1>4, <3>2, <3>3
    <3>1. Min(H) \in G /\ G \subseteq Nat /\ \A j \in G : Min(H) <= j
      BY <3>3, <3>4 DEF least
    <3> QED
      BY <3>1, MinIs
  <2>3. more[Min(H)] = s[Min(H)]
    BY <1>1, <1>3, <2>1
  <2> HIDE DEF G, H
  <2> QED
    BY <1>2, <1>3, <1>5, <2>2, <2>3 DEF more
<1>6. CASE H = {} /\ e \in T
  <2>1. n + 1 \in G /\ \A j \in G : j = n + 1
    BY <1>1, <1>4, <1>6
  <2>2. Min(G) = n + 1
    <3>1. G \subseteq Nat /\ \A j \in G : n + 1 <= j
      BY <1>1, <2>1
    <3> HIDE DEF G
    <3> QED
      BY <2>1, <3>1, MinIs
  <2> HIDE DEF G, H
  <2> QED
    BY <1>1, <1>2, <1>6, <2>1, <2>2 DEF more
<1>7. CASE H = {} /\ e \notin T
  <2>1. G = {}
    BY <1>4, <1>7
  <2> HIDE DEF G, H
  <2> QED
    BY <1>2, <1>7, <2>1 DEF more
<1> QED
  BY <1>5, <1>6, <1>7

\* codec context: a packet's user is the first of the keychain with its id.
LEMMA KeyOfIdIs ==
  ASSUME NEW cfg, NEW U, EnabledUsers(cfg) \in Seq(U), NEW id
  PROVE  KeyOfId(cfg, id) = FirstIn(EnabledUsers(cfg), {u \in U : u.id = id})
<1> DEFINE s == EnabledUsers(cfg)
           I == {i \in 1 .. Len(s) : s[i].id = id}
           at == IF I # {} THEN Min(I) ELSE 0
           least == Min(I)
           found == KeyOfId(cfg, id)
<1>1. Len(s) \in Nat /\ \A i \in 1 .. Len(s) : s[i] \in U
  OBVIOUS
<1>2. I = {i \in 1 .. Len(s) : s[i] \in {u \in U : u.id = id}}
  BY <1>1
<1>3. found = {s[i] : i \in {at} \ {0}}
  BY DEF KeyOfId, FirstOf, SelectInSeq
<1>4. I # {} => Min(I) \in 1 .. Len(s)
  <2>1. I \subseteq Nat /\ I \subseteq 1 .. Len(s)
    BY <1>1
  <2> HIDE DEF I
  <2> QED
    BY <2>1, MinLeast
<1>5. FirstIn(s, {u \in U : u.id = id}) = IF I = {} THEN {} ELSE {s[Min(I)]}
  BY <1>2 DEF FirstIn
<1>6. found = {s[i] : i \in (IF I # {} THEN {least} ELSE {})}
  <2>1. I # {} => least # 0
    BY <1>1, <1>4
  <2> HIDE DEF I, least, found
  <2>2. {at} \ {0} = IF I # {} THEN {least} ELSE {}
    BY <2>1 DEF least
  <2> HIDE DEF at
  <2> QED
    BY <1>3, <2>2
<1> HIDE DEF I, least, found
<1>7. found = IF I = {} THEN {} ELSE {s[least]}
  BY <1>6
<1> QED
  BY <1>5, <1>7 DEF least, found

\* config.c, config_user_by_id: the first user that is switched on and has the id.
LEMMA UserByIdIs ==
  ASSUME NEW cfg, NEW U, cfg.user \in Seq(U), NEW id, NEW T, T = {v \in U : v.id = id}
  PROVE  UserById(cfg, id) = FirstIn(cfg.user, {u \in T : u.enabled})
<1> DEFINE s == cfg.user
           I == {i \in 1 .. Len(s) : s[i].enabled /\ s[i].id = id}
           at == IF I # {} THEN Min(I) ELSE 0
           least == Min(I)
           found == UserById(cfg, id)
<1>1. Len(s) \in Nat /\ \A i \in 1 .. Len(s) : s[i] \in U
  OBVIOUS
<1>2. I = {i \in 1 .. Len(s) : s[i] \in {u \in T : u.enabled}}
  BY <1>1
<1>3. found = {s[i] : i \in {at} \ {0}}
  BY DEF UserById, FirstOf, SelectInSeq
<1>4. I # {} => Min(I) \in 1 .. Len(s)
  <2>1. I \subseteq Nat /\ I \subseteq 1 .. Len(s)
    BY <1>1
  <2> HIDE DEF I
  <2> QED
    BY <2>1, MinLeast
<1>5. FirstIn(s, {u \in T : u.enabled}) = IF I = {} THEN {} ELSE {s[Min(I)]}
  BY <1>2 DEF FirstIn
<1>6. found = {s[i] : i \in (IF I # {} THEN {least} ELSE {})}
  <2>1. I # {} => least # 0
    BY <1>1, <1>4
  <2> HIDE DEF I, least, found
  <2>2. {at} \ {0} = IF I # {} THEN {least} ELSE {}
    BY <2>1 DEF least
  <2> HIDE DEF at
  <2> QED
    BY <1>3, <2>2
<1> HIDE DEF I, least, found
<1>7. found = IF I = {} THEN {} ELSE {s[least]}
  BY <1>6
<1> QED
  BY <1>5, <1>7 DEF least, found

-----------------------------------------------------------------------------
(* Folds *)

\* An entry of a block of a kind.
Consume(what, b, e) ==
  LET field == FieldOf(e.key)
  IN  IF field \in Fields(what) THEN [b EXCEPT ![field] = Taken(what, field, @, e.value)] ELSE b

\* A step of each fold: over lines, over sections, over users that may be switched off,
\* and over the entries of a block.
Onward(fold, x, e) ==
  IF fold = "lines" THEN ReadLine(x, e)
  ELSE IF fold = "sections" THEN ConsumeSection(x, e)
  ELSE IF fold = "users" THEN IF e.enabled THEN Append(x, e) ELSE x
  ELSE Consume(fold, x, e)

\* f goes through the first n of a sequence.
Goes(f, fold, start, seq, n) ==
  f = [i \in 0 .. n |-> IF i = 0 THEN start ELSE Onward(fold, f[i - 1], seq[i])]

Gone(fold, start, seq) == (CHOOSE f : Goes(f, fold, start, seq, Len(seq)))[Len(seq)]

\* Any sequence can be gone through, up to any place.
LEMMA GoesExists ==
  ASSUME NEW fold, NEW start, NEW seq, NEW n \in Nat
  PROVE  \E f : Goes(f, fold, start, seq, n)
<1> DEFINE P == {m \in Nat : \E f : Goes(f, fold, start, seq, m)}
<1>1. 0 \in P
  <2> DEFINE f == [i \in 0 .. 0 |-> start]
  <2>1. Goes(f, fold, start, seq, 0)
    BY DEF Goes
  <2> QED
    BY <2>1
<1>2. ASSUME NEW m \in Nat, m \in P PROVE m + 1 \in P
  <2>1. PICK f : Goes(f, fold, start, seq, m)
    BY <1>2
  <2>2. \A i \in 0 .. m : f[i] = IF i = 0 THEN start ELSE Onward(fold, f[i - 1], seq[i])
    BY <2>1 DEF Goes
  <2> DEFINE new == Onward(fold, f[m], seq[m + 1])
             g == [i \in 0 .. m + 1 |-> IF i = m + 1 THEN new ELSE f[i]]
  <2>3. ASSUME NEW i \in 0 .. m + 1
        PROVE  g[i] = IF i = 0 THEN start ELSE Onward(fold, g[i - 1], seq[i])
    <3>1. CASE i = m + 1
      <4>1. i # 0 /\ i - 1 = m /\ m \in 0 .. m + 1 /\ m # m + 1
        BY <3>1
      <4>2. g[m] = f[m] /\ g[i] = new
        BY <3>1, <4>1
      <4> HIDE DEF g
      <4> QED
        BY <3>1, <4>1, <4>2
    <3>2. CASE i = 0
      <4>1. 0 \in 0 .. m /\ 0 # m + 1 /\ 0 \in 0 .. m + 1
        OBVIOUS
      <4>2. g[0] = f[0]
        BY <4>1
      <4> HIDE DEF g
      <4> QED
        BY <2>2, <3>2, <4>1, <4>2
    <3>3. CASE i # 0 /\ i # m + 1
      <4>1. i \in 0 .. m /\ i - 1 \in 0 .. m + 1 /\ i - 1 # m + 1
        BY <3>3
      <4>2. g[i] = f[i] /\ g[i - 1] = f[i - 1]
        BY <3>3, <4>1
      <4> HIDE DEF g
      <4> QED
        BY <2>2, <3>3, <4>1, <4>2
    <3> QED
      BY <3>1, <3>2, <3>3
  <2>4. g = [i \in 0 .. m + 1 |-> g[i]]
    OBVIOUS
  <2> HIDE DEF g
  <2>5. Goes(g, fold, start, seq, m + 1)
    BY <2>3, <2>4 DEF Goes
  <2> QED
    BY <2>5
<1>3. Nat \subseteq P
  <2> HIDE DEF P
  <2> QED
    BY <1>1, <1>2, SetInduction
<1> QED
  BY <1>3

\* Sequences that begin alike are gone through alike.
LEMMA GoesOnce ==
  ASSUME NEW fold, NEW start, NEW m \in Nat, NEW n \in Nat, m <= n, NEW s, NEW t,
         \A i \in 1 .. m : s[i] = t[i],
         NEW f, Goes(f, fold, start, s, m), NEW g, Goes(g, fold, start, t, n)
  PROVE  f[m] = g[m]
<1> DEFINE P == {i \in Nat : i <= m => f[i] = g[i]}
<1>1. \A i \in 0 .. m : f[i] = IF i = 0 THEN start ELSE Onward(fold, f[i - 1], s[i])
  BY DEF Goes
<1>2. \A i \in 0 .. n : g[i] = IF i = 0 THEN start ELSE Onward(fold, g[i - 1], t[i])
  BY DEF Goes
<1>3. 0 \in P
  <2>1. f[0] = start /\ g[0] = start
    BY <1>1, <1>2
  <2> QED
    BY <2>1
<1>4. ASSUME NEW i \in Nat, i \in P PROVE i + 1 \in P
  <2> SUFFICES ASSUME i + 1 <= m PROVE f[i + 1] = g[i + 1]
    OBVIOUS
  <2>1. /\ i + 1 \in 0 .. m /\ i + 1 \in 0 .. n /\ i + 1 # 0 /\ (i + 1) - 1 = i
        /\ i + 1 \in 1 .. m /\ f[i] = g[i] /\ s[i + 1] = t[i + 1]
    BY <1>4
  <2> QED
    BY <1>1, <1>2, <2>1
<1>5. Nat \subseteq P
  <2> HIDE DEF P
  <2> QED
    BY <1>3, <1>4, SetInduction
<1> QED
  BY <1>5

\* The law of the folds: nothing to go through leaves the start, and one more at the
\* end is one more step.
LEMMA GoneMore ==
  ASSUME NEW fold, NEW start, NEW S, NEW s \in Seq(S), NEW e \in S
  PROVE  /\ Gone(fold, start, <<>>) = start
         /\ Gone(fold, start, Append(s, e)) = Onward(fold, Gone(fold, start, s), e)
<1> DEFINE n == Len(s)
           t == Append(s, e)
           f == CHOOSE h : Goes(h, fold, start, s, n)
           g == CHOOSE h : Goes(h, fold, start, t, n + 1)
<1>1. n \in Nat /\ Len(t) = n + 1 /\ t[n + 1] = e /\ \A i \in 1 .. n : s[i] = t[i]
  OBVIOUS
<1>2. Gone(fold, start, s) = f[n] /\ Gone(fold, start, t) = g[n + 1]
  BY <1>1 DEF Gone
<1> HIDE DEF n, t
<1>3. Goes(f, fold, start, s, n)
  BY <1>1, GoesExists
<1>7. Goes(g, fold, start, t, n + 1)
  <2>1. n + 1 \in Nat
    BY <1>1
  <2>2. \E h : Goes(h, fold, start, t, n + 1)
    BY <2>1, GoesExists
  <2> QED
    BY <2>2
<1> HIDE DEF f, g
<1>4. f[n] = g[n]
  BY <1>1, <1>3, <1>7, GoesOnce
<1>5. g[n + 1] = Onward(fold, g[n], t[n + 1])
  <2>1. n + 1 \in 0 .. n + 1 /\ n + 1 # 0 /\ (n + 1) - 1 = n
    BY <1>1
  <2> QED
    BY <1>7, <2>1 DEF Goes
<1>6. Gone(fold, start, <<>>) = start
  <2> DEFINE none == <<>>
             k == CHOOSE h : Goes(h, fold, start, none, 0)
  <2>1. Gone(fold, start, none) = k[0]
    <3>1. Len(none) = 0
      OBVIOUS
    <3> HIDE DEF none
    <3> QED
      BY <3>1 DEF Gone
  <2> HIDE DEF none
  <2>2. Goes(k, fold, start, none, 0)
    BY GoesExists
  <2> HIDE DEF k
  <2>3. k[0] = start
    BY <2>2 DEF Goes
  <2> QED
    BY <2>1, <2>3 DEF none
<1> QED
  BY <1>1, <1>2, <1>4, <1>5, <1>6 DEF t

\* Beginnings of a sequence.
LEMMA Beginnings ==
  ASSUME NEW S, NEW s \in Seq(S)
  PROVE  /\ Len(s) \in Nat /\ SubSeq(s, 1, 0) = <<>> /\ SubSeq(s, 1, Len(s)) = s
         /\ \A n \in 0 .. Len(s) : SubSeq(s, 1, n) \in Seq(S)
         /\ \A n \in Nat : n + 1 <= Len(s) =>
              /\ s[n + 1] \in S /\ SubSeq(s, 1, n) \in Seq(S)
              /\ SubSeq(s, 1, n + 1) = Append(SubSeq(s, 1, n), s[n + 1])
OBVIOUS

\* What every step leaves in a set stays in it.
LEMMA GoneWithin ==
  ASSUME NEW fold, NEW D, NEW start \in D, NEW S, NEW s \in Seq(S),
         \A x \in D, e \in S : Onward(fold, x, e) \in D
  PROVE  Gone(fold, start, s) \in D
<1> DEFINE upTo(n) == SubSeq(s, 1, n)
           P == {n \in Nat : n <= Len(s) => Gone(fold, start, upTo(n)) \in D}
<1>1. 0 \in P
  <2>1. upTo(0) = <<>> /\ <<>> \in Seq(S)
    BY Beginnings
  <2>2. Gone(fold, start, <<>>) = start
    <3>1. <<>> \in Seq({0})
      OBVIOUS
    <3> QED
      BY <3>1, GoneMore
  <2> QED
    BY <2>1, <2>2
<1>2. ASSUME NEW n \in Nat, n \in P PROVE n + 1 \in P
  <2> SUFFICES ASSUME n + 1 <= Len(s) PROVE Gone(fold, start, upTo(n + 1)) \in D
    OBVIOUS
  <2> DEFINE t == upTo(n)
             e == s[n + 1]
  <2>1. t \in Seq(S) /\ e \in S /\ upTo(n + 1) = Append(t, e)
    BY Beginnings
  <2>2. Gone(fold, start, t) \in D
    BY <1>2, Beginnings
  <2> HIDE DEF t, e
  <2>3. Gone(fold, start, Append(t, e)) = Onward(fold, Gone(fold, start, t), e)
    BY <2>1, GoneMore
  <2>4. Onward(fold, Gone(fold, start, t), e) \in D
    BY <2>1, <2>2
  <2> QED
    BY <2>1, <2>3, <2>4
<1>3. Nat \subseteq P
  <2> HIDE DEF P
  <2> QED
    BY <1>1, <1>2, SetInduction
<1>4. Len(s) \in Nat /\ Len(s) <= Len(s) /\ upTo(Len(s)) = s
  BY Beginnings
<1>5. Len(s) \in P
  BY <1>3, <1>4
<1> QED
  BY <1>4, <1>5

\* The folds of ConfigDocument are these.
LEMMA DocumentGone ==
  ASSUME NEW lines
  PROVE  Document(lines) = Gone("lines", [global |-> <<>>, sections |-> <<>>], lines)
BY DEF Document, Through, Gone, Goes, Onward

ConfigOfGlobal(global) ==
  [part \in Kinds \cup {"global"} |->
     IF part = "global" THEN ConsumeEntries("global", Fresh("global", ""), global) ELSE <<>>]

\* config_consume_document_ptr: sections, onto the global block.
LEMMA ConsumedGone ==
  ASSUME NEW doc
  PROVE  Consumed(doc) = Gone("sections", ConfigOfGlobal(doc.global), doc.sections)
BY DEF Consumed, Through, Gone, Goes, Onward, ConfigOfGlobal

\* The entries of a section, onto what its kind presets.
LEMMA EntriesGone ==
  ASSUME NEW what \in Kinds \cup {"global"}, NEW block, NEW entries
  PROVE  ConsumeEntries(what, block, entries) = Gone(what, block, entries)
<1>1. what # "lines" /\ what # "sections" /\ what # "users"
  BY DEF Kinds
<1> QED
  BY <1>1 DEF ConsumeEntries, Through, Gone, Goes, Onward, Consume

\* The users of the keychain.
LEMMA EnabledGone ==
  ASSUME NEW cfg
  PROVE  EnabledUsers(cfg) = Gone("users", <<>>, cfg.user)
BY DEF EnabledUsers, Through, Gone, Goes, Onward

-----------------------------------------------------------------------------
(* What a text is read into *)

Sections(L) == [what : {l.what : l \in L}, name : {l.name : l \in L}, entries : Seq(L)]
Documented(L) == [global : Seq(L), sections : Seq(Sections(L))]

\* ini.c: one more line leaves sections of lines.
LEMMA LineRead ==
  ASSUME NEW L, NEW d \in Documented(L), NEW l \in L
  PROVE  ReadLine(d, l) \in Documented(L)
<1> DEFINE S == Sections(L)
<1>1. d.global \in Seq(L) /\ d.sections \in Seq(S)
  BY DEF Documented
<1>2. CASE l.kind = "section"
  <2> DEFINE empty == <<>>
             new == [what |-> l.what, name |-> l.name, entries |-> empty]
             more == Append(d.sections, new)
  <2>1. new \in S
    <3>1. empty \in Seq(L)
      OBVIOUS
    <3> HIDE DEF empty
    <3> QED
      BY <3>1 DEF Sections
  <2>2. ReadLine(d, l) = [d EXCEPT !.sections = more]
    BY <1>2 DEF ReadLine
  <2> HIDE DEF new, S
  <2>3. more \in Seq(S)
    BY <1>1, <2>1
  <2> HIDE DEF more
  <2> QED
    BY <2>2, <2>3 DEF Documented, S
<1>3. CASE l.kind # "section" /\ l.kind # "entry"
  BY <1>3 DEF ReadLine
<1>4. CASE l.kind = "entry" /\ d.sections = <<>>
  <2> DEFINE more == Append(d.global, l)
  <2>1. ReadLine(d, l) = [d EXCEPT !.global = more]
    BY <1>4 DEF ReadLine
  <2>2. more \in Seq(L)
    BY <1>1
  <2> HIDE DEF more
  <2> QED
    BY <2>1, <2>2 DEF Documented
<1>5. CASE l.kind = "entry" /\ d.sections # <<>>
  <2> DEFINE n == Len(d.sections)
             more == Append(d.sections[n].entries, l)
  <2>1. n \in 1 .. Len(d.sections) /\ d.sections[n] \in S
    <3> HIDE DEF S
    <3> QED
      BY <1>1, <1>5
  <2>2. more \in Seq(L)
    BY <2>1 DEF Sections
  <2>3. ReadLine(d, l) = [d EXCEPT !.sections[n].entries = more]
    BY <1>5 DEF ReadLine
  <2> DEFINE section == [d.sections[n] EXCEPT !.entries = more]
  <2> HIDE DEF more
  <2>4. section \in S
    BY <2>1, <2>2 DEF Sections
  <2>5. ReadLine(d, l) = [d EXCEPT !.sections = [d.sections EXCEPT ![n] = section]]
    BY <2>3
  <2> HIDE DEF section
  <2>6. [d.sections EXCEPT ![n] = section] \in Seq(S)
    <3> HIDE DEF S
    <3> QED
      BY <1>1, <2>1, <2>4
  <2> QED
    BY <2>5, <2>6 DEF Documented
<1> QED
  BY <1>2, <1>3, <1>4, <1>5

\* ini.c: a text is read into sections, one line after the other.
LEMMA DocumentRead ==
  ASSUME NEW L, NEW lines \in Seq(L)
  PROVE  Document(lines) \in Documented(L)
<1> DEFINE start == [global |-> <<>>, sections |-> <<>>]
<1>1. start \in Documented(L)
  <2> DEFINE empty == <<>>
  <2>1. empty \in Seq(L) /\ empty \in Seq(Sections(L)) /\ start = [global |-> empty, sections |-> empty]
    OBVIOUS
  <2> HIDE DEF empty, start
  <2> QED
    BY <2>1 DEF Documented
<1>2. Document(lines) = Gone("lines", start, lines)
  BY DocumentGone
<1>3. \A d \in Documented(L), l \in L : Onward("lines", d, l) \in Documented(L)
  BY LineRead DEF Onward
<1> HIDE DEF start
<1> QED
  BY <1>1, <1>2, <1>3, GoneWithin

BlockOf(s) == ConsumeEntries(s.what, Fresh(s.what, s.name), s.entries)

GlobalOf(doc) == ConsumeEntries("global", Fresh("global", ""), doc.global)

\* Four lists of blocks, and the global block.
Shaped(B, g) == {c \in [Kinds \cup {"global"} -> Seq(B) \cup {g}] : \A k \in Kinds : c[k] \in Seq(B)}

\* config.c: one more section leaves lists of blocks.
LEMMA SectionConsumed ==
  ASSUME NEW B, NEW g, NEW cfg \in Shaped(B, g), NEW s, BlockOf(s) \in B
  PROVE  ConsumeSection(cfg, s) \in Shaped(B, g)
<1>1. CASE s.what \in Kinds /\ Len(cfg[s.what]) < Most[s.what]
  <2> DEFINE more == Append(cfg[s.what], BlockOf(s))
  <2>1. ConsumeSection(cfg, s) = [cfg EXCEPT ![s.what] = more]
    BY <1>1 DEF ConsumeSection, BlockOf
  <2>2. more \in Seq(B)
    <3>1. cfg[s.what] \in Seq(B)
      BY <1>1 DEF Shaped
    <3> QED
      BY <3>1
  <2> HIDE DEF more
  <2> QED
    BY <1>1, <2>1, <2>2 DEF Shaped
<1>2. CASE ~ (s.what \in Kinds /\ Len(cfg[s.what]) < Most[s.what])
  <2>1. ConsumeSection(cfg, s) = cfg
    BY <1>2 DEF ConsumeSection
  <2> QED
    BY <2>1
<1> QED
  BY <1>1, <1>2

\* config.c: a document is consumed into lists of blocks.
LEMMA DocumentConsumed ==
  ASSUME NEW S, NEW doc, doc.sections \in Seq(S)
  PROVE  Consumed(doc) \in Shaped({BlockOf(s) : s \in S}, GlobalOf(doc))
<1> DEFINE B == {BlockOf(s) : s \in S}
           g == GlobalOf(doc)
           start == ConfigOfGlobal(doc.global)
           all == doc.sections
<1>1. start \in Shaped(B, g)
  <2> DEFINE empty == <<>>
  <2>1. empty \in Seq(B) /\ start = [part \in Kinds \cup {"global"} |-> IF part = "global" THEN g ELSE empty]
    BY DEF ConfigOfGlobal, GlobalOf
  <2> HIDE DEF empty, start, B, g
  <2>2. "global" \notin Kinds
    BY DEF Kinds
  <2> QED
    BY <2>1, <2>2 DEF Shaped
<1>2. Consumed(doc) = Gone("sections", start, all)
  BY ConsumedGone
<1>3. \A s \in S : BlockOf(s) \in B
  OBVIOUS
<1> HIDE DEF B, g, start, all
<1>4. ASSUME NEW cfg \in Shaped(B, g), NEW s \in S PROVE Onward("sections", cfg, s) \in Shaped(B, g)
  <2>1. ConsumeSection(cfg, s) \in Shaped(B, g)
    BY <1>3, SectionConsumed
  <2> QED
    BY <2>1 DEF Onward
<1>5. all \in Seq(S)
  BY DEF all
<1>6. Gone("sections", start, all) \in Shaped(B, g)
  <2> DEFINE D == Shaped(B, g)
  <2> HIDE DEF D
  <2>1. start \in D /\ \A cfg \in D, s \in S : Onward("sections", cfg, s) \in D
    BY <1>1, <1>4 DEF D
  <2>2. Gone("sections", start, all) \in D
    BY <1>5, <2>1, GoneWithin
  <2> QED
    BY <2>2 DEF D
<1> QED
  BY <1>2, <1>6 DEF B, g

\* config.c: whatever the text, its users are a list.
LEMMA UsersAreListed ==
  ASSUME NEW L, NEW lines \in Seq(L)
  PROVE  \E U : ConfigOf(lines).user \in Seq(U)
<1> DEFINE doc == Document(lines)
           cfg == Consumed(doc)
           U == {BlockOf(s) : s \in Sections(L)}
<1>1. doc.sections \in Seq(Sections(L))
  BY DocumentRead DEF Documented
<1> HIDE DEF doc
<1>2. cfg \in Shaped(U, GlobalOf(doc))
  BY <1>1, DocumentConsumed
<1> HIDE DEF cfg, U
<1>3. "user" \in Kinds /\ "user" \in DOMAIN cfg /\ cfg["user"] \in Seq(U)
  BY <1>2 DEF Shaped, Kinds
<1>4. ConfigOf(lines).user = cfg.user
  BY <1>3 DEF ConfigOf, WithDefaults, cfg, doc
<1> QED
  BY <1>3, <1>4

-----------------------------------------------------------------------------
(* The keychain *)

\* startup.c, app_startup_sync_codec_context: of the users that are switched on, the
\* first with a property is the first of all users that are switched on and have it.
LEMMA EnabledFirst ==
  ASSUME NEW cfg, NEW U, cfg.user \in Seq(U), NEW T
  PROVE  /\ EnabledUsers(cfg) \in Seq(U)
         /\ FirstIn(EnabledUsers(cfg), T) = FirstIn(cfg.user, {u \in T : u.enabled})
<1> DEFINE users == cfg.user
           upTo(n) == SubSeq(users, 1, n)
           kept(n) == Gone("users", <<>>, upTo(n))
           On1 == {u \in T : u.enabled}
           Holds(n) == kept(n) \in Seq(U) /\ FirstIn(kept(n), T) = FirstIn(upTo(n), On1)
           P == {n \in Nat : n <= Len(users) => Holds(n)}
<1>1. users \in Seq(U) /\ EnabledUsers(cfg) = Gone("users", <<>>, users)
  BY EnabledGone
<1> HIDE DEF users
<1>2. 0 \in P
  <2>1. upTo(0) = <<>>
    BY <1>1, Beginnings
  <2>2. <<>> \in Seq(U)
    OBVIOUS
  <2>3. kept(0) = <<>>
    <3> DEFINE none == <<>>
    <3> HIDE DEF none
    <3>1. <<>> \in Seq({0})
      OBVIOUS
    <3>2. Gone("users", none, <<>>) = none
      BY <3>1, GoneMore
    <3> QED
      BY <2>1, <3>2 DEF none
  <2>4. FirstIn(<<>>, T) = {} /\ FirstIn(<<>>, On1) = {}
    BY DEF FirstIn
  <2> QED
    BY <2>1, <2>2, <2>3, <2>4
<1>3. ASSUME NEW n \in Nat, n \in P PROVE n + 1 \in P
  <2> SUFFICES ASSUME n + 1 <= Len(users) PROVE Holds(n + 1)
    OBVIOUS
  <2> DEFINE e == users[n + 1]
             here == upTo(n)
             next == upTo(n + 1)
             some == kept(n)
             more == kept(n + 1)
  <2>1. e \in U /\ here \in Seq(U) /\ next = Append(here, e)
    BY <1>1, Beginnings
  <2>2. some \in Seq(U) /\ FirstIn(some, T) = FirstIn(here, On1)
    <3>1. Len(users) \in Nat
      BY <1>1
    <3> QED
      BY <1>3, <3>1
  <2>3. more = IF e.enabled THEN Append(some, e) ELSE some
    <3> HIDE DEF e, here, next
    <3>1. Gone("users", <<>>, next) = Onward("users", Gone("users", <<>>, here), e)
      BY <2>1, GoneMore
    <3> QED
      BY <3>1 DEF Onward, here, next
  <2> HIDE DEF e, here, next, some, more
  <2>4. FirstIn(Append(some, e), T) = IF FirstIn(some, T) # {} THEN FirstIn(some, T)
                                      ELSE IF e \in T THEN {e} ELSE {}
    BY <2>1, <2>2, FirstInAppended
  <2>5. FirstIn(next, On1) = IF FirstIn(here, On1) # {} THEN FirstIn(here, On1)
                             ELSE IF e \in On1 THEN {e} ELSE {}
    <3> HIDE DEF On1
    <3> QED
      BY <2>1, FirstInAppended
  <2>6. more \in Seq(U)
    BY <2>1, <2>2, <2>3
  <2>7. FirstIn(more, T) = FirstIn(next, On1)
    <3>1. CASE e.enabled
      BY <2>2, <2>3, <2>4, <2>5, <3>1
    <3>2. CASE ~ e.enabled
      BY <2>2, <2>3, <2>5, <3>2
    <3> QED
      BY <3>1, <3>2
  <2> QED
    BY <2>6, <2>7 DEF more, next
<1>4. Nat \subseteq P
  <2> HIDE DEF P
  <2> QED
    BY <1>2, <1>3, SetInduction
<1>5. Len(users) \in Nat /\ upTo(Len(users)) = users
  BY <1>1, Beginnings
<1>6. Holds(Len(users))
  <2> HIDE DEF Holds
  <2> QED
    BY <1>4, <1>5
<1> QED
  BY <1>1, <1>5, <1>6 DEF users

\* codec context and configuration find the same user for an id, in every configuration.
LEMMA KeychainFindsUser ==
  ASSUME NEW cfg, NEW U, cfg.user \in Seq(U), NEW id
  PROVE  KeyOfId(cfg, id) = UserById(cfg, id)
<1> DEFINE T == {v \in U : v.id = id}
<1>1. EnabledUsers(cfg) \in Seq(U) /\ FirstIn(EnabledUsers(cfg), T) = FirstIn(cfg.user, {u \in T : u.enabled})
  BY EnabledFirst
<1>2. KeyOfId(cfg, id) = FirstIn(EnabledUsers(cfg), T)
  BY <1>1, KeyOfIdIs
<1>3. T = {v \in U : v.id = id}
  OBVIOUS
<1> HIDE DEF T
<1>4. UserById(cfg, id) = FirstIn(cfg.user, {u \in T : u.enabled})
  BY <1>3, UserByIdIs
<1> QED
  BY <1>1, <1>2, <1>4

\* A text stays one with a line more.
LEMMA DraftsAreTexts ==
  ASSUME NEW lines, lines \in Seq(ToSet(lines)), NEW draft \in Drafts(lines)
  PROVE  draft \in Seq(ToSet(lines) \cup Slips)
<1> DEFINE L == ToSet(lines) \cup Slips
<1> HIDE DEF L
<1>1. lines \in Seq(L) /\ Slips \subseteq L
  BY DEF L
<1>2. ASSUME NEW i \in 1 .. Len(lines) + 1, NEW line \in Slips
      PROVE  InsertAt(lines, i, line) \in Seq(L)
  <2>1. SubSeq(lines, 1, i - 1) \in Seq(L) /\ SubSeq(lines, i, Len(lines)) \in Seq(L)
    BY <1>1
  <2>2. <<line>> \in Seq(L)
    BY <1>1
  <2> QED
    BY <2>1, <2>2 DEF InsertAt
<1> QED
  BY <1>1, <1>2 DEF Drafts, L

\* Every text, also with a line more, serves every user it can under his id.
LEMMA EveryDocumentWellKeyed == WellKeyed = DOMAIN Documents
<1> SUFFICES ASSUME NEW d \in DOMAIN Documents, NEW draft \in Drafts(Documents[d])
             PROVE  KeychainServes(draft)
  BY DEF WellKeyed
<1>1. draft \in Seq(ToSet(Documents[d]) \cup Slips)
  BY ConfiguredAssumption, DraftsAreTexts
<1>2. PICK U : ConfigOf(draft).user \in Seq(U)
  BY <1>1, UsersAreListed
<1>3. \A id : KeyOfId(ConfigOf(draft), id) = UserById(ConfigOf(draft), id)
  BY <1>2, KeychainFindsUser
<1> QED
  BY <1>3 DEF KeychainServes

\* The codecs look a packet's user up in the keychain (codec context), the daemon in
\* the configuration (config.c): whatever the file says, and with whatever line added
\* wherever, both find the same user for every id.
THEOREM KeychainAgreesAlways == ConfiguredSpec => []KeychainAgrees
<1>1. ConfiguredInit => document \in DOMAIN Documents
  BY DEF ConfiguredInit
<1>2. document \in DOMAIN Documents /\ [ConfiguredNext]_<<vars, document>>
        => (document \in DOMAIN Documents)'
  BY DEF ConfiguredNext
<1>3. document \in DOMAIN Documents => KeychainAgrees
  BY EveryDocumentWellKeyed DEF KeychainAgrees
<1> QED
  BY <1>1, <1>2, <1>3, PTL DEF ConfiguredSpec

-----------------------------------------------------------------------------
(* How a value is taken *)

Hows == {"text", "flag", "number", "list", "mode", "handler", "overflow"}

\* Of the tables: each field is read in one of the ways it is listed under; a list has
\* room for a number of items, and nothing is preset in it.
LEMMA HowOf ==
  ASSUME NEW what \in Kinds \cup {"global"}, NEW field \in Fields(what)
  PROVE  /\ HowRead[what][field] \in Hows
         /\ HowRead[what][field] \in DOMAIN Reads[what]
         /\ field \in Reads[what][HowRead[what][field]]
<1>1. what \in DOMAIN Reads
  BY DEF Reads, Kinds
<1>2. HowRead[what][field] = CHOOSE how \in DOMAIN Reads[what] : field \in Reads[what][how]
  BY <1>1 DEF HowRead
<1>3. \E how \in DOMAIN Reads[what] : field \in Reads[what][how]
  BY DEF Fields
<1> DEFINE h == HowRead[what][field]
<1> HIDE DEF h
<1>4. h \in DOMAIN Reads[what] /\ field \in Reads[what][h]
  <2>1. h = CHOOSE how \in DOMAIN Reads[what] : field \in Reads[what][how]
    BY <1>2 DEF h
  <2> QED
    BY <1>3, <2>1
<1>5. DOMAIN Reads[what] \subseteq Hows
  BY DEF Reads, Kinds, Hows
<1> QED
  BY <1>4, <1>5 DEF h

\* A field that is a list starts empty and has room for some items.
LEMMA ListsOf ==
  ASSUME NEW what \in Kinds \cup {"global"}, NEW field \in Fields(what),
         HowRead[what][field] = "list", NEW name
  PROVE  /\ field \in DOMAIN ListMost /\ ListMost[field] \in Nat
         /\ Fresh(what, name)[field] = <<>>
<1>1. "list" \in DOMAIN Reads[what] /\ field \in Reads[what]["list"]
  BY HowOf
<1>2. field \in {"actions", "allowed_ips", "deaddrops", "filters", "starts_with"}
  BY <1>1 DEF Reads, Kinds
<1>3. field \notin DOMAIN Preset(what, name)
  BY <1>2 DEF Preset, Kinds
<1>4. Fresh(what, name)[field] = Zero["list"]
  BY <1>3 DEF Fresh
<1>5. Zero["list"] = <<>>
  BY DEF Zero
<1> QED
  BY <1>2, <1>4, <1>5, ConfigDocumentAssumption

\* The lesser of two.
LEMMA MinOfTwo ==
  ASSUME NEW a \in Nat, NEW b \in Nat
  PROVE  Min({a, b}) = IF a <= b THEN a ELSE b
<1> DEFINE I == {a, b}
           m == IF a <= b THEN a ELSE b
<1>1. I \subseteq Nat /\ m \in I /\ \A j \in I : m <= j
  OBVIOUS
<1> HIDE DEF I, m
<1>2. Min(I) = m
  BY <1>1, MinIs
<1> QED
  BY <1>2 DEF I, m

\* lib_str_parse_csv_fixed: a list that is full takes nothing more, said at once or in turn.
LEMMA UpToTwice ==
  ASSUME NEW W, NEW list \in Seq(W), NEW more \in Seq(W), NEW n \in Nat
  PROVE  /\ UpTo(n, UpTo(n, list) \o more) = UpTo(n, list \o more)
         /\ UpTo(n, list) \in Seq(W)
         /\ UpTo(n, <<>>) = <<>>
<1> DEFINE UpToN(s) == SubSeq(s, 1, IF n <= Len(s) THEN n ELSE Len(s))
<1>1. \A s \in Seq(W) : UpTo(n, s) = UpToN(s)
  <2> SUFFICES ASSUME NEW s \in Seq(W) PROVE UpTo(n, s) = UpToN(s)
    OBVIOUS
  <2>1. Len(s) \in Nat
    OBVIOUS
  <2>2. Min({n, Len(s)}) = IF n <= Len(s) THEN n ELSE Len(s)
    BY <2>1, MinOfTwo
  <2> QED
    BY <2>2 DEF UpTo
<1>2. UpToN(list) \in Seq(W) /\ list \o more \in Seq(W)
  OBVIOUS
<1>3. UpToN(list) \o more \in Seq(W)
  BY <1>2
<1>4. UpToN(UpToN(list) \o more) = UpToN(list \o more)
  <2>1. CASE n <= Len(list)
    <3> DEFINE cut == UpToN(list)
    <3>1. cut \in Seq(W) /\ Len(cut) = n /\ \A i \in 1 .. n : cut[i] = list[i]
      BY <2>1
    <3> HIDE DEF cut
    <3> DEFINE s == cut \o more
               t == list \o more
    <3>2. /\ s \in Seq(W) /\ t \in Seq(W)
          /\ n <= Len(s) /\ n <= Len(t) /\ \A i \in 1 .. n : s[i] = t[i]
      BY <2>1, <3>1
    <3> HIDE DEF s, t
    <3>3. SubSeq(s, 1, n) = SubSeq(t, 1, n)
      BY <3>2
    <3>4. UpToN(s) = SubSeq(s, 1, n) /\ UpToN(t) = SubSeq(t, 1, n)
      BY <3>2
    <3> QED
      BY <3>3, <3>4 DEF s, t, cut
  <2>2. CASE ~ (n <= Len(list))
    <3>1. UpToN(list) = list
      BY <2>2
    <3> HIDE DEF UpToN
    <3> QED
      BY <3>1
  <2> QED
    BY <2>1, <2>2
<1>5. UpTo(n, <<>>) = <<>>
  <2> DEFINE none == <<>>
  <2>1. none \in Seq(W) /\ Len(none) = 0
    OBVIOUS
  <2>2. SubSeq(none, 1, 0) = <<>>
    OBVIOUS
  <2>3. UpTo(n, none) = UpToN(none)
    BY <1>1, <2>1
  <2>4. UpToN(none) = SubSeq(none, 1, 0)
    BY <2>1
  <2> QED
    BY <2>2, <2>3, <2>4
<1> HIDE DEF UpToN
<1> QED
  BY <1>1, <1>2, <1>3, <1>4, <1>5

\* What a value makes of a field that is no list is no matter of what the field held,
\* unless it is a policy that is none of the words.
LEMMA TakenAlike ==
  ASSUME NEW what \in Kinds \cup {"global"}, NEW field \in Fields(what),
         HowRead[what][field] # "list", NEW value, NEW old, NEW other,
         HowRead[what][field] = "overflow" => \E w \in Overflows(what) : value = <<w>>
  PROVE  Taken(what, field, old, value) = Taken(what, field, other, value)
<1> DEFINE how == HowRead[what][field]
<1>1. how \in Hows
  BY HowOf
<1>2. CASE how # "overflow"
  BY <1>1, <1>2 DEF Taken, Hows
<1>3. CASE how = "overflow"
  <2>1. PICK w \in Overflows(what) : value = <<w>>
    BY <1>3
  <2>2. Len(value) = 1 /\ value[1] = w
    BY <2>1
  <2>3. \A x : OneOf(Overflows(what), value, x) = value[1]
    BY <2>1, <2>2 DEF OneOf
  <2>4. \A x : Taken(what, field, x, value) = OneOf(Overflows(what), value, x)
    BY <1>3 DEF Taken
  <2> QED
    BY <2>3, <2>4
<1> QED
  BY <1>2, <1>3

\* A policy that is none of the words leaves the field as it was.
LEMMA NoPolicyKeeps ==
  ASSUME NEW what, NEW field, HowRead[what][field] = "overflow", NEW old,
         NEW W, NEW value \in Seq(W), ~ \E w \in Overflows(what) : value = <<w>>
  PROVE  Taken(what, field, old, value) = old
<1>1. Len(value) = 1 => value = <<value[1]>>
  OBVIOUS
<1>2. ~ (Len(value) = 1 /\ value[1] \in Overflows(what))
  BY <1>1
<1> QED
  BY <1>2 DEF Taken, OneOf

\* A line is after all lines before it.
LEMMA MaxNew ==
  ASSUME NEW m \in Nat, NEW T, T \subseteq 1 .. m
  PROVE  Max(T \cup {m + 1}) = m + 1
<1> DEFINE I == T \cup {m + 1}
<1>1. m + 1 \in I /\ I \subseteq Nat /\ \A y \in I : m + 1 >= y
  OBVIOUS
<1> HIDE DEF I
<1>2. Max(I) \in I /\ \A y \in I : Max(I) >= y
  BY <1>1 DEF Max
<1> DEFINE x == Max(I)
<1>3. x \in I /\ x >= m + 1
  BY <1>1, <1>2
<1> HIDE DEF x
<1>4. x = m + 1
  BY <1>1, <1>3
<1> QED
  BY <1>4 DEF x, I

-----------------------------------------------------------------------------
(* A field and a block, line by line *)

\* What the first m lines say of a field in the section line i opens.
FieldSays(lines, i, what, field, fresh, m) ==
  LET said == Sayings(lines, i, what, field)
      how  == HowRead[what][field]
  IN  IF how = "list" THEN UpTo(ListMost[field], Joined([j \in said |-> lines[j].value], m))
      ELSE IF said \cap 1 .. m = {} THEN fresh
      ELSE Taken(what, field, Zero[how], lines[Max(said \cap 1 .. m)].value)

\* One more line: what it says of the field is taken over what was said before.
LEMMA FieldSaysMore ==
  ASSUME NEW W, NEW L, NEW lines \in Seq(L),
         \A j \in DOMAIN lines : lines[j].kind = "entry" => lines[j].value \in Seq(W),
         NEW i \in 0 .. Len(lines), NEW what \in Kinds \cup {"global"}, NEW field \in Fields(what),
         NEW fresh, NEW m \in Nat, m + 1 <= Len(lines)
  PROVE  FieldSays(lines, i, what, field, fresh, m + 1) =
           IF m + 1 \in EntriesFrom(lines, i) /\ FieldOf(lines[m + 1].key) = field
           THEN Taken(what, field, FieldSays(lines, i, what, field, fresh, m), lines[m + 1].value)
           ELSE FieldSays(lines, i, what, field, fresh, m)
<1> DEFINE said == Sayings(lines, i, what, field)
           how == HowRead[what][field]
           T == said \cap 1 .. m
           new == said \cap 1 .. m + 1
           parts == [j \in said |-> lines[j].value]
           before == FieldSays(lines, i, what, field, fresh, m)
           after == FieldSays(lines, i, what, field, fresh, m + 1)
           value == lines[m + 1].value
           concerns == m + 1 \in EntriesFrom(lines, i) /\ FieldOf(lines[m + 1].key) = field
           telling == how = "overflow" => \E w \in Overflows(what) : value = <<w>>
<1>1. before = IF how = "list" THEN UpTo(ListMost[field], Joined(parts, m))
               ELSE IF T = {} THEN fresh ELSE Taken(what, field, Zero[how], lines[Max(T)].value)
  BY DEF FieldSays
<1>2. after = IF how = "list" THEN UpTo(ListMost[field], Joined(parts, m + 1))
              ELSE IF new = {} THEN fresh ELSE Taken(what, field, Zero[how], lines[Max(new)].value)
  BY DEF FieldSays
<1>3. m + 1 \in said <=> concerns /\ telling
  BY DEF Sayings
<1>4. \A j \in said : lines[j].value \in Seq(W)
  BY DEF Sayings, EntriesFrom
<1>5. concerns => value \in Seq(W)
  BY DEF EntriesFrom
<1>6. /\ new = IF m + 1 \in said THEN T \cup {m + 1} ELSE T
      /\ T \subseteq 1 .. m
  OBVIOUS
<1>7. /\ \A j \in DOMAIN parts : parts[j] \in Seq(W)
      /\ DOMAIN parts = said
      /\ m + 1 \in said => parts[m + 1] = value
  BY <1>4
<1> HIDE DEF before, after, T, new, parts, said
<1>8. /\ Joined(parts, m) \in Seq(W)
      /\ Joined(parts, m + 1) = IF m + 1 \in said THEN Joined(parts, m) \o value ELSE Joined(parts, m)
  BY <1>7, JoinedMore
<1>9. CASE m + 1 \in said
  <2>1. concerns /\ telling /\ new = T \cup {m + 1}
    BY <1>3, <1>6, <1>9
  <2>2. CASE how = "list"
    <3> DEFINE sofar == Joined(parts, m)
               most == ListMost[field]
    <3>1. sofar \in Seq(W) /\ value \in Seq(W) /\ most \in Nat
      BY <1>5, <1>8, <2>1, <2>2, ListsOf
    <3>2. after = UpTo(most, sofar \o value) /\ before = UpTo(most, sofar)
      BY <1>1, <1>2, <1>8, <1>9, <2>2
    <3>3. Taken(what, field, before, value) = UpTo(most, before \o value)
      BY <2>2 DEF Taken
    <3> HIDE DEF sofar, most, value
    <3>4. UpTo(most, UpTo(most, sofar) \o value) = UpTo(most, sofar \o value)
      BY <3>1, UpToTwice
    <3> QED
      BY <2>1, <3>2, <3>3, <3>4 DEF after, before, value
  <2>3. CASE how # "list"
    <3>1. Max(new) = m + 1 /\ new # {}
      BY <1>6, <2>1, MaxNew
    <3>2. after = Taken(what, field, Zero[how], value)
      BY <1>2, <2>3, <3>1
    <3> DEFINE zero == Zero[how]
    <3> HIDE DEF value, zero
    <3>3. Taken(what, field, zero, value) = Taken(what, field, before, value)
      BY <2>1, <2>3, TakenAlike
    <3> QED
      BY <2>1, <3>2, <3>3 DEF after, before, value, zero
  <2> QED
    BY <2>2, <2>3
<1>10. CASE m + 1 \notin said
  <2>1. after = before
    BY <1>1, <1>2, <1>6, <1>8, <1>10
  <2>2. CASE concerns
    <3>1. how = "overflow" /\ ~ \E w \in Overflows(what) : value = <<w>>
      BY <1>3, <1>10, <2>2
    <3>2. value \in Seq(W)
      BY <1>5, <2>2
    <3> HIDE DEF value
    <3>3. Taken(what, field, before, value) = before
      BY <3>1, <3>2, NoPolicyKeeps
    <3> QED
      BY <2>1, <2>2, <3>3 DEF after, before, value
  <2> QED
    BY <2>1, <2>2 DEF after, before
<1> QED
  BY <1>9, <1>10

\* No line says nothing: a field is as it was preset.
LEMMA FieldSaysFirst ==
  ASSUME NEW W, NEW L, NEW lines \in Seq(L),
         \A j \in DOMAIN lines : lines[j].kind = "entry" => lines[j].value \in Seq(W),
         NEW i \in 0 .. Len(lines), NEW what \in Kinds \cup {"global"}, NEW field \in Fields(what),
         NEW name
  PROVE  LET fresh == Fresh(what, name)[field]
         IN  FieldSays(lines, i, what, field, fresh, 0) = fresh
<1> DEFINE said == Sayings(lines, i, what, field)
           parts == [j \in said |-> lines[j].value]
           fresh == Fresh(what, name)[field]
<1>1. said \cap 1 .. 0 = {}
  OBVIOUS
<1>2. \A j \in said : lines[j].value \in Seq(W)
  BY DEF Sayings, EntriesFrom
<1>3. \A j \in DOMAIN parts : parts[j] \in Seq(W)
  BY <1>2
<1>4. Joined(parts, 0) = <<>>
  <2> HIDE DEF parts
  <2> QED
    BY <1>3, JoinedMore
<1>5. CASE HowRead[what][field] = "list"
  <2>1. fresh = <<>> /\ ListMost[field] \in Nat
    BY <1>5, ListsOf
  <2>2. FieldSays(lines, i, what, field, fresh, 0) = UpTo(ListMost[field], <<>>)
    BY <1>4, <1>5 DEF FieldSays
  <2>3. UpTo(ListMost[field], <<>>) = <<>>
    <3> DEFINE most == ListMost[field]
               none == <<>>
    <3>1. most \in Nat /\ none \in Seq(W)
      BY <2>1
    <3> HIDE DEF most
    <3>2. UpTo(most, <<>>) = <<>>
      BY <3>1, UpToTwice
    <3> QED
      BY <3>2 DEF most
  <2> QED
    BY <2>1, <2>2, <2>3
<1>6. CASE HowRead[what][field] # "list"
  BY <1>1, <1>6 DEF FieldSays
<1> QED
  BY <1>5, <1>6

\* The entries of the section line i opens, among the first m lines.
EntriesTo(lines, i, m) == Joined([j \in EntriesFrom(lines, i) |-> <<lines[j]>>], m)

NameAt(lines, i) == IF i = 0 THEN "" ELSE lines[i].name

BlockAt(lines, i, what, m) ==
  ConsumeEntries(what, Fresh(what, NameAt(lines, i)), EntriesTo(lines, i, m))

\* One more line: it is one more entry of the section, or leaves its entries.
LEMMA EntriesToMore ==
  ASSUME NEW L, NEW lines \in Seq(L), NEW i \in 0 .. Len(lines), NEW m \in Nat
  PROVE  /\ EntriesTo(lines, i, 0) = <<>>
         /\ EntriesTo(lines, i, m) \in Seq(L)
         /\ EntriesTo(lines, i, m + 1) =
              IF m + 1 \in EntriesFrom(lines, i) THEN Append(EntriesTo(lines, i, m), lines[m + 1])
              ELSE EntriesTo(lines, i, m)
<1> DEFINE E == EntriesFrom(lines, i)
           parts == [j \in E |-> <<lines[j]>>]
           sofar == Joined(parts, m)
<1>1. \A j \in E : lines[j] \in L
  BY DEF EntriesFrom
<1>2. /\ \A j \in DOMAIN parts : parts[j] \in Seq(L)
      /\ DOMAIN parts = E
      /\ m + 1 \in E => parts[m + 1] = <<lines[m + 1]>>
  BY <1>1
<1>3. EntriesTo(lines, i, 0) = Joined(parts, 0) /\ EntriesTo(lines, i, m) = sofar
      /\ EntriesTo(lines, i, m + 1) = Joined(parts, m + 1)
  BY DEF EntriesTo
<1> HIDE DEF parts, E
<1>4. /\ Joined(parts, 0) = <<>>
      /\ sofar \in Seq(L)
      /\ Joined(parts, m + 1) = IF m + 1 \in E THEN sofar \o <<lines[m + 1]>> ELSE sofar
  BY <1>2, JoinedMore
<1> HIDE DEF sofar
<1>5. m + 1 \in E => sofar \o <<lines[m + 1]>> = Append(sofar, lines[m + 1])
  BY <1>1, <1>4
<1> QED
  BY <1>3, <1>4, <1>5 DEF E

\* config_consume_document_ptr, line by line: the block of a section holds what the
\* lines so far say of each of its fields.
LEMMA BlockSays ==
  ASSUME NEW W, NEW L, NEW lines \in Seq(L),
         \A j \in DOMAIN lines : lines[j].kind = "entry" => lines[j].value \in Seq(W),
         NEW i \in 0 .. Len(lines), NEW what \in Kinds \cup {"global"}, NEW m \in 0 .. Len(lines)
  PROVE  LET fresh == Fresh(what, NameAt(lines, i))
             block == BlockAt(lines, i, what, m)
         IN  /\ DOMAIN block = DOMAIN fresh
             /\ \A field \in DOMAIN fresh :
                  block[field] = IF field \in Fields(what)
                                 THEN FieldSays(lines, i, what, field, fresh[field], m)
                                 ELSE fresh[field]
<1>7. ASSUME NEW n \in Nat
      PROVE  /\ EntriesTo(lines, i, 0) = <<>>
             /\ EntriesTo(lines, i, n) \in Seq(L)
             /\ EntriesTo(lines, i, n + 1) =
                  IF n + 1 \in EntriesFrom(lines, i)
                  THEN Append(EntriesTo(lines, i, n), lines[n + 1]) ELSE EntriesTo(lines, i, n)
  BY EntriesToMore, ZenonT(60)
<1> DEFINE name == NameAt(lines, i)
           fresh == Fresh(what, name)
           block(n) == BlockAt(lines, i, what, n)
           says(field, n) == IF field \in Fields(what)
                             THEN FieldSays(lines, i, what, field, fresh[field], n) ELSE fresh[field]
           Holds(n) == /\ DOMAIN block(n) = DOMAIN fresh
                       /\ \A field \in DOMAIN fresh : block(n)[field] = says(field, n)
           P == {n \in Nat : n <= Len(lines) => Holds(n)}
<1>1. what # "lines" /\ what # "sections" /\ what # "users"
  BY DEF Kinds
<1>2. \A n \in Nat : block(n) = Gone(what, fresh, EntriesTo(lines, i, n))
  BY EntriesGone DEF BlockAt
<1>3. 0 \in P
  <2>1. EntriesTo(lines, i, 0) = <<>>
    BY <1>7
  <2>2. Gone(what, fresh, <<>>) = fresh
    <3> HIDE DEF fresh
    <3>1. <<>> \in Seq({0})
      OBVIOUS
    <3> QED
      BY <3>1, GoneMore
  <2>3. block(0) = fresh
    BY <1>2, <2>1, <2>2
  <2>4. ASSUME NEW field \in Fields(what)
        PROVE  FieldSays(lines, i, what, field, fresh[field], 0) = fresh[field]
    <3> HIDE DEF name
    <3> QED
      BY FieldSaysFirst
  <2> HIDE DEF block, fresh
  <2>5. Holds(0)
    BY <2>3, <2>4
  <2> QED
    BY <2>5
<1>4. ASSUME NEW n \in Nat, n \in P PROVE n + 1 \in P
  <2> SUFFICES ASSUME n + 1 <= Len(lines) PROVE Holds(n + 1)
    OBVIOUS
  <2> DEFINE entries == EntriesTo(lines, i, n)
             e == lines[n + 1]
             fits == n + 1 \in EntriesFrom(lines, i)
  <2>1. Holds(n) /\ e \in L /\ n + 1 \in Nat /\ n \in 0 .. Len(lines)
    <3> HIDE DEF Holds
    <3> QED
      BY <1>4
  <2>2. /\ entries \in Seq(L)
        /\ EntriesTo(lines, i, n + 1) = IF fits THEN Append(entries, e) ELSE entries
    BY <1>7
  <2>3. block(n + 1) = IF fits THEN Consume(what, block(n), e) ELSE block(n)
    <3>1. block(n + 1) = Gone(what, fresh, EntriesTo(lines, i, n + 1))
      BY <1>2, <2>1
    <3>2. block(n) = Gone(what, fresh, entries)
      BY <1>2
    <3> HIDE DEF entries, e, fresh, block
    <3>3. Gone(what, fresh, Append(entries, e)) = Onward(what, Gone(what, fresh, entries), e)
      BY <2>1, <2>2, GoneMore
    <3> QED
      BY <1>1, <2>2, <3>1, <3>2, <3>3 DEF Onward
  <2>4. ASSUME NEW field \in Fields(what)
        PROVE  FieldSays(lines, i, what, field, fresh[field], n + 1) =
                 IF fits /\ FieldOf(e.key) = field
                 THEN Taken(what, field, FieldSays(lines, i, what, field, fresh[field], n), e.value)
                 ELSE FieldSays(lines, i, what, field, fresh[field], n)
    <3> DEFINE f0 == fresh[field]
    <3> HIDE DEF f0
    <3>1. FieldSays(lines, i, what, field, f0, n + 1) =
            IF n + 1 \in EntriesFrom(lines, i) /\ FieldOf(lines[n + 1].key) = field
            THEN Taken(what, field, FieldSays(lines, i, what, field, f0, n), lines[n + 1].value)
            ELSE FieldSays(lines, i, what, field, f0, n)
      BY FieldSaysMore
    <3> QED
      BY <3>1 DEF f0
  <2>5. Fields(what) \subseteq DOMAIN fresh
    BY DEF Fresh
  <2> DEFINE b == block(n)
             c == block(n + 1)
             key == FieldOf(e.key)
  <2>6. DOMAIN b = DOMAIN fresh /\ \A field \in DOMAIN fresh : b[field] = says(field, n)
    BY <2>1
  <2>7. c = IF fits /\ key \in Fields(what) THEN [b EXCEPT ![key] = Taken(what, key, b[key], e.value)] ELSE b
    BY <2>3 DEF Consume
  <2>8. ASSUME NEW field \in DOMAIN fresh
        PROVE  says(field, n + 1) = IF field \in Fields(what) /\ fits /\ key = field
                                    THEN Taken(what, field, says(field, n), e.value) ELSE says(field, n)
    BY <2>4
  <2> HIDE DEF b, c, says, fresh, key, e, fits
  <2>9. DOMAIN c = DOMAIN fresh
    BY <2>6, <2>7
  <2>10. ASSUME NEW field \in DOMAIN fresh PROVE c[field] = says(field, n + 1)
    <3>1. CASE field \in Fields(what) /\ fits /\ key = field
      <4>1. c[field] = Taken(what, field, b[field], e.value)
        BY <2>6, <2>7, <3>1
      <4> QED
        BY <2>6, <2>8, <3>1, <4>1
    <3>2. CASE ~ (field \in Fields(what) /\ fits /\ key = field)
      <4>1. c[field] = b[field]
        BY <2>6, <2>7, <3>2
      <4> QED
        BY <2>6, <2>8, <3>2, <4>1
    <3> QED
      BY <3>1, <3>2
  <2> QED
    BY <2>9, <2>10 DEF c
<1>5. Nat \subseteq P
  <2> HIDE DEF P
  <2> QED
    BY <1>3, <1>4, SetInduction
<1>6. Holds(m)
  <2> HIDE DEF Holds
  <2>1. m \in Nat /\ m \in P /\ m <= Len(lines)
    BY <1>5
  <2> QED
    BY <2>1
<1> QED
  BY <1>6

-----------------------------------------------------------------------------
(* A document, line by line *)

DocumentTo(lines, m) == Document(SubSeq(lines, 1, m))

\* One more line: the document of the first m lines takes it.
LEMMA DocumentMore ==
  ASSUME NEW L, NEW lines \in Seq(L)
  PROVE  /\ DocumentTo(lines, 0) = [global |-> <<>>, sections |-> <<>>]
         /\ DocumentTo(lines, Len(lines)) = Document(lines)
         /\ \A m \in 0 .. Len(lines) : DocumentTo(lines, m) \in Documented(L)
         /\ \A m \in Nat : m + 1 <= Len(lines) =>
              DocumentTo(lines, m + 1) = ReadLine(DocumentTo(lines, m), lines[m + 1])
<1> DEFINE Start == [global |-> <<>>, sections |-> <<>>]
           upTo(m) == SubSeq(lines, 1, m)
<1>1. /\ upTo(0) = <<>> /\ upTo(Len(lines)) = lines
      /\ \A m \in 0 .. Len(lines) : upTo(m) \in Seq(L)
      /\ \A m \in Nat : m + 1 <= Len(lines) => upTo(m + 1) = Append(upTo(m), lines[m + 1])
  BY Beginnings
<1>2. \A s : Document(s) = Gone("lines", Start, s)
  BY DocumentGone
<1>3. Gone("lines", Start, <<>>) = Start
  <2> HIDE DEF Start
  <2>1. <<>> \in Seq({0})
    OBVIOUS
  <2> QED
    BY <2>1, GoneMore
<1>4. ASSUME NEW m \in Nat, m + 1 <= Len(lines)
      PROVE  Document(upTo(m + 1)) = ReadLine(Document(upTo(m)), lines[m + 1])
  <2> DEFINE s == upTo(m)
             e == lines[m + 1]
  <2>1. s \in Seq(L) /\ e \in L /\ upTo(m + 1) = Append(s, e)
    BY <1>1, <1>4
  <2> HIDE DEF s, e, Start
  <2>2. Gone("lines", Start, Append(s, e)) = Onward("lines", Gone("lines", Start, s), e)
    BY <2>1, GoneMore
  <2>3. Onward("lines", Gone("lines", Start, s), e) = ReadLine(Gone("lines", Start, s), e)
    BY DEF Onward
  <2> QED
    BY <1>2, <2>1, <2>2, <2>3 DEF s, e
<1>5. \A m \in 0 .. Len(lines) : Document(upTo(m)) \in Documented(L)
  BY <1>1, DocumentRead
<1> HIDE DEF Start
<1>6. Document(<<>>) = Start
  BY <1>2, <1>3
<1> QED
  BY <1>1, <1>4, <1>5, <1>6 DEF DocumentTo, Start

\* The section line i opens has no entry up to that line.
LEMMA EntriesToNone ==
  ASSUME NEW L, NEW lines \in Seq(L), NEW i \in 0 .. Len(lines)
  PROVE  EntriesTo(lines, i, i) = <<>>
<1> DEFINE E == EntriesFrom(lines, i)
           parts == [j \in E |-> <<lines[j]>>]
<1>1. DOMAIN parts = E /\ \A j \in E : j > i /\ lines[j] \in L
  BY DEF EntriesFrom
<1>2. \A j \in DOMAIN parts : parts[j] \in Seq(L)
  BY <1>1
<1>3. \A j \in 0 + 1 .. i : j \notin DOMAIN parts
  BY <1>1
<1>4. EntriesTo(lines, i, i) = Joined(parts, i)
  BY DEF EntriesTo
<1>5. i \in Nat /\ 0 \in Nat /\ 0 <= i
  OBVIOUS
<1> HIDE DEF parts
<1>6. Joined(parts, i) = Joined(parts, 0)
  BY <1>2, <1>3, <1>5, JoinedSame
<1>7. Joined(parts, 0) = <<>>
  BY <1>2, <1>5, JoinedMore
<1> QED
  BY <1>4, <1>6, <1>7

NoSection(lines, from, to) == \A k \in from .. to : lines[k].kind # "section"

\* The section line o opens, as the first m lines leave it.
SectionTo(lines, o, m) ==
  [what |-> lines[o].what, name |-> lines[o].name, entries |-> EntriesTo(lines, o, m)]

\* The last of a sequence, and another in its place.
LEMMA LastAppended ==
  ASSUME NEW S, NEW s \in Seq(S), NEW old \in S, NEW new \in S, NEW t, t = Append(s, old)
  PROVE  /\ t # <<>> /\ t[Len(t)] = old
         /\ [t EXCEPT ![Len(t)] = new] = Append(s, new)
<1> DEFINE n == Len(s) + 1
           u == [t EXCEPT ![n] = new]
           v == Append(s, new)
<1>8. Len(s) \in Nat /\ t \in Seq(S)
  OBVIOUS
<1>1. /\ n \in Nat /\ Len(t) = n /\ t[n] = old /\ DOMAIN t = 1 .. n
      /\ \A i \in 1 .. n : i # n => t[i] = s[i]
  <2>1. n \in Nat /\ Len(t) = n
    BY <1>8
  <2>2. t[n] = old
    BY <1>8
  <2>3. DOMAIN t = 1 .. n
    BY <1>8
  <2>4. \A i \in 1 .. n : i # n => t[i] = s[i]
    BY <1>8
  <2> QED
    BY <2>1, <2>2, <2>3, <2>4
<1>2. DOMAIN v = 1 .. n /\ v[n] = new /\ \A i \in 1 .. n : i # n => v[i] = s[i]
  <2>1. DOMAIN v = 1 .. n /\ v[n] = new
    BY <1>8
  <2>2. ASSUME NEW i \in 1 .. n, i # n PROVE v[i] = s[i]
    <3>1. i \in 1 .. Len(s)
      BY <1>8, <2>2
    <3> QED
      BY <1>8, <3>1
  <2> QED
    BY <2>1, <2>2
<1>3. v = [i \in DOMAIN v |-> v[i]]
  <2>1. v \in Seq(S)
    BY <1>8
  <2> HIDE DEF v
  <2> QED
    BY <2>1
<1>4. u = [i \in DOMAIN u |-> u[i]]
  OBVIOUS
<1>5. DOMAIN u = 1 .. n /\ \A i \in 1 .. n : u[i] = v[i]
  <2> HIDE DEF n, v
  <2> QED
    BY <1>1, <1>2
<1> HIDE DEF u, v
<1>6. u = v
  BY <1>2, <1>3, <1>4, <1>5
<1>7. t # <<>>
  <2>1. Len(<<>>) = 0 /\ Len(t) = Len(s) + 1 /\ Len(s) \in Nat
    OBVIOUS
  <2> QED
    BY <2>1
<1> QED
  BY <1>1, <1>6, <1>7 DEF u, v

\* A document and a line, and the document with the line, by the kinds of lines.
LineInto(L, d, line, e) ==
  /\ line.kind = "section" =>
       /\ e.global = d.global
       /\ e.sections = Append(d.sections, [what |-> line.what, name |-> line.name, entries |-> <<>>])
  /\ line.kind = "entry" /\ d.sections = <<>> =>
       e.global = Append(d.global, line) /\ e.sections = <<>>
  /\ line.kind = "entry" =>
       \A b \in Seq(Sections(L)), s \in Sections(L) : d.sections = Append(b, s) =>
         /\ e.global = d.global
         /\ e.sections = Append(b, [s EXCEPT !.entries = Append(@, line)])
  /\ line.kind # "section" /\ line.kind # "entry" => e = d

\* ReadLine, by the kinds of lines.
LEMMA LineReadInto ==
  ASSUME NEW L, NEW d \in Documented(L), NEW line \in L, NEW e, e = ReadLine(d, line)
  PROVE  LineInto(L, d, line, e)
<1> DEFINE S == Sections(L)
<1>1. d = [global |-> d.global, sections |-> d.sections] /\ d.sections \in Seq(S)
  BY DEF Documented
<1>2. CASE line.kind = "section"
  <2> DEFINE new == [what |-> line.what, name |-> line.name, entries |-> <<>>]
             more == Append(d.sections, new)
  <2>1. e = [d EXCEPT !.sections = more]
    BY <1>2 DEF ReadLine
  <2> HIDE DEF more
  <2>2. e.global = d.global /\ e.sections = more
    BY <1>1, <2>1
  <2> QED
    BY <1>2, <2>2 DEF more, LineInto
<1>3. CASE line.kind = "entry" /\ d.sections = <<>>
  <2> DEFINE more == Append(d.global, line)
  <2>1. e = [d EXCEPT !.global = more]
    BY <1>3 DEF ReadLine
  <2> HIDE DEF more
  <2>2. e.global = more /\ e.sections = d.sections
    BY <1>1, <2>1
  <2>3. \A b \in Seq(S), s \in S : Append(b, s) # <<>>
    <3> HIDE DEF S
    <3> QED
      BY LastAppended
  <2> QED
    BY <1>3, <2>2, <2>3 DEF more, LineInto
<1>4. CASE line.kind = "entry" /\ d.sections # <<>>
  <2> SUFFICES ASSUME NEW b \in Seq(S), NEW s \in S, d.sections = Append(b, s)
               PROVE  /\ e.global = d.global
                      /\ e.sections = Append(b, [s EXCEPT !.entries = Append(@, line)])
    BY <1>4 DEF LineInto
  <2> DEFINE t == d.sections
             n == Len(t)
             more == Append(s.entries, line)
             new == [s EXCEPT !.entries = more]
             changed == [t EXCEPT ![n] = new]
  <2>1. new \in S
    <3>1. more \in Seq(L)
      BY DEF Sections
    <3> HIDE DEF more
    <3> QED
      BY <3>1 DEF Sections
  <2>2. e = [d EXCEPT !.sections[n].entries = Append(@, line)]
    BY <1>4 DEF ReadLine
  <2>3. t[n] = s /\ changed = Append(b, new)
    <3> HIDE DEF new, S
    <3> QED
      BY <2>1, LastAppended
  <2>4. e = [d EXCEPT !.sections = changed]
    BY <2>2, <2>3
  <2> HIDE DEF changed, new
  <2>5. e.global = d.global /\ e.sections = changed
    BY <1>1, <2>4
  <2> QED
    BY <2>3, <2>5 DEF new
<1>5. CASE line.kind # "section" /\ line.kind # "entry"
  BY <1>5 DEF ReadLine, LineInto
<1> QED
  BY <1>2, <1>3, <1>4, <1>5 DEF LineInto

\* What the first m lines are read into: no section yet, or the one that the last
\* header among them opened, after what the lines before it were read into.
ReadTo(lines, m) ==
  LET d == DocumentTo(lines, m)
  IN  \/ /\ NoSection(lines, 1, m)
         /\ d.global = EntriesTo(lines, 0, m) /\ d.sections = <<>>
      \/ \E o \in 1 .. m :
           /\ lines[o].kind = "section" /\ NoSection(lines, o + 1, m)
           /\ d.global = DocumentTo(lines, o - 1).global
           /\ d.sections = Append(DocumentTo(lines, o - 1).sections, SectionTo(lines, o, m))

\* ini.c: an entry goes to the section of the last header, or to none.
LEMMA DocumentSays ==
  ASSUME NEW L, NEW lines \in Seq(L), NEW m \in 0 .. Len(lines)
  PROVE  ReadTo(lines, m)
<1> DEFINE P == {n \in Nat : n <= Len(lines) => ReadTo(lines, n)}
<1>1. 0 \in P
  <2>1. DocumentTo(lines, 0) = [global |-> <<>>, sections |-> <<>>]
    BY DocumentMore
  <2>2. EntriesTo(lines, 0, 0) = <<>>
    BY EntriesToNone
  <2>3. NoSection(lines, 1, 0)
    BY DEF NoSection
  <2> QED
    BY <2>1, <2>2, <2>3 DEF ReadTo
<1>2. ASSUME NEW n \in Nat, n \in P PROVE n + 1 \in P
  <2> SUFFICES ASSUME n + 1 <= Len(lines) PROVE ReadTo(lines, n + 1)
    OBVIOUS
  <2> DEFINE d == DocumentTo(lines, n)
             e == DocumentTo(lines, n + 1)
             line == lines[n + 1]
  <2>1. /\ n \in 0 .. Len(lines) /\ n + 1 \in 0 .. Len(lines) /\ n + 1 \in DOMAIN lines /\ line \in L
        /\ ReadTo(lines, n)
    BY <1>2
  <2>2. d \in Documented(L) /\ e = ReadLine(d, line)
    BY <2>1, DocumentMore
  <2>7. LineInto(L, d, line, e)
    BY <2>1, <2>2, LineReadInto
  <2>3. CASE line.kind = "section"
    <3>1. EntriesTo(lines, n + 1, n + 1) = <<>>
      BY <2>1, EntriesToNone
    <3>2. /\ e.global = d.global
          /\ e.sections = Append(d.sections, [what |-> line.what, name |-> line.name, entries |-> <<>>])
      <4> HIDE DEF d, e, line
      <4> QED
        BY <2>3, <2>7 DEF LineInto
    <3>3. e.sections = Append(d.sections, SectionTo(lines, n + 1, n + 1))
      BY <3>1, <3>2 DEF SectionTo
    <3>4. NoSection(lines, (n + 1) + 1, n + 1) /\ n + 1 \in 1 .. n + 1 /\ (n + 1) - 1 = n
      BY DEF NoSection
    <3> QED
      BY <2>3, <3>2, <3>3, <3>4 DEF ReadTo
  <2>4. ASSUME line.kind # "section", NEW i \in 0 .. n, NoSection(lines, i + 1, n)
        PROVE  /\ NoSection(lines, i + 1, n + 1)
               /\ EntriesTo(lines, i, n) \in Seq(L)
               /\ EntriesTo(lines, i, n + 1) = IF line.kind = "entry" THEN Append(EntriesTo(lines, i, n), line)
                                               ELSE EntriesTo(lines, i, n)
    <3>1. NoSection(lines, i + 1, n + 1)
      <4>1. \A k \in i + 1 .. n + 1 : k \in i + 1 .. n \/ k = n + 1
        OBVIOUS
      <4> QED
        BY <2>4, <4>1 DEF NoSection
    <3>2. n + 1 \in EntriesFrom(lines, i) <=> line.kind = "entry"
      BY <3>1 DEF EntriesFrom, NoSection
    <3>3. i \in 0 .. Len(lines)
      BY <2>1
    <3>4. /\ EntriesTo(lines, i, n) \in Seq(L)
          /\ EntriesTo(lines, i, n + 1) = IF n + 1 \in EntriesFrom(lines, i)
                                          THEN Append(EntriesTo(lines, i, n), line) ELSE EntriesTo(lines, i, n)
      <4> HIDE DEF d, e, P
      <4> QED
        BY <3>3, EntriesToMore, ZenonT(60)
    <3> QED
      BY <3>1, <3>2, <3>4
  <2>5. CASE line.kind # "section" /\ NoSection(lines, 1, n)
             /\ d.global = EntriesTo(lines, 0, n) /\ d.sections = <<>>
    <3>1. /\ NoSection(lines, 1, n + 1)
          /\ EntriesTo(lines, 0, n + 1) = IF line.kind = "entry" THEN Append(EntriesTo(lines, 0, n), line)
                                          ELSE EntriesTo(lines, 0, n)
      <4>1. 0 \in 0 .. n /\ 0 + 1 = 1
        OBVIOUS
      <4> QED
        BY <2>4, <2>5, <4>1
    <3>2. /\ e.sections = <<>>
          /\ e.global = IF line.kind = "entry" THEN Append(d.global, line) ELSE d.global
      <4> HIDE DEF d, e, line
      <4> QED
        BY <2>5, <2>7 DEF LineInto
    <3> QED
      BY <2>5, <3>1, <3>2 DEF ReadTo
  <2>6. CASE line.kind # "section" /\
             \E o \in 1 .. n :
               /\ lines[o].kind = "section" /\ NoSection(lines, o + 1, n)
               /\ d.global = DocumentTo(lines, o - 1).global
               /\ d.sections = Append(DocumentTo(lines, o - 1).sections, SectionTo(lines, o, n))
    <3>1. PICK o \in 1 .. n :
               /\ lines[o].kind = "section" /\ NoSection(lines, o + 1, n)
               /\ d.global = DocumentTo(lines, o - 1).global
               /\ d.sections = Append(DocumentTo(lines, o - 1).sections, SectionTo(lines, o, n))
      BY <2>6
    <3> DEFINE b == DocumentTo(lines, o - 1).sections
               s == SectionTo(lines, o, n)
               t == SectionTo(lines, o, n + 1)
               entries == EntriesTo(lines, o, n)
    <3>2. /\ NoSection(lines, o + 1, n + 1) /\ entries \in Seq(L)
          /\ EntriesTo(lines, o, n + 1) = IF line.kind = "entry" THEN Append(entries, line) ELSE entries
      <4>1. o \in 0 .. n
        OBVIOUS
      <4> QED
        BY <2>4, <2>6, <3>1, <4>1
    <3>3. b \in Seq(Sections(L))
      <4>1. o - 1 \in 0 .. Len(lines)
        BY <2>1
      <4>2. DocumentTo(lines, o - 1) \in Documented(L)
        BY <4>1, DocumentMore
      <4> QED
        BY <4>2 DEF Documented
    <3>4. s \in Sections(L)
      <4>1. lines[o] \in L
        BY <2>1
      <4> HIDE DEF entries
      <4> QED
        BY <3>2, <4>1 DEF SectionTo, Sections, entries
    <3>5. t = IF line.kind = "entry" THEN [s EXCEPT !.entries = Append(@, line)] ELSE s
      BY <3>2 DEF SectionTo
    <3>6. /\ e.global = d.global
          /\ e.sections = Append(b, t)
      <4> HIDE DEF d, e, line, b, s, t
      <4>1. CASE line.kind = "entry"
        BY <2>7, <3>1, <3>3, <3>4, <3>5, <4>1 DEF b, s, LineInto
      <4>2. CASE line.kind # "entry"
        BY <2>6, <2>7, <3>1, <3>5, <4>2 DEF b, s, LineInto
      <4> QED
        BY <4>1, <4>2
    <3>7. o \in 1 .. n + 1
      OBVIOUS
    <3> QED
      BY <3>1, <3>2, <3>6, <3>7 DEF ReadTo
  <2> QED
    BY <2>1, <2>3, <2>5, <2>6 DEF ReadTo
<1>3. Nat \subseteq P
  <2> HIDE DEF P
  <2> QED
    BY <1>1, <1>2, SetInduction
<1> QED
  BY <1>3

-----------------------------------------------------------------------------
(* A configuration, section by section *)

\* A section more is one more step of the consumption.
LEMMA ConsumedAppended ==
  ASSUME NEW S, NEW doc, doc.sections \in Seq(S), NEW s \in S,
         NEW more, more.global = doc.global, more.sections = Append(doc.sections, s)
  PROVE  Consumed(more) = ConsumeSection(Consumed(doc), s)
<1> DEFINE start == ConfigOfGlobal(doc.global)
           t == doc.sections
<1>1. Consumed(doc) = Gone("sections", start, t)
  BY ConsumedGone
<1>2. Consumed(more) = Gone("sections", start, Append(t, s))
  BY ConsumedGone
<1> HIDE DEF start, t
<1>3. Gone("sections", start, Append(t, s)) = Onward("sections", Gone("sections", start, t), s)
  BY GoneMore DEF t
<1>4. \A x : Onward("sections", x, s) = ConsumeSection(x, s)
  BY DEF Onward
<1> QED
  BY <1>1, <1>2, <1>3, <1>4

\* Without sections, there is the global block only.
LEMMA ConsumedNone ==
  ASSUME NEW doc, doc.sections = <<>>
  PROVE  Consumed(doc) = ConfigOfGlobal(doc.global)
<1> DEFINE start == ConfigOfGlobal(doc.global)
<1>1. Consumed(doc) = Gone("sections", start, <<>>)
  BY ConsumedGone
<1> HIDE DEF start
<1>2. <<>> \in Seq({0})
  OBVIOUS
<1>3. Gone("sections", start, <<>>) = start
  BY <1>2, GoneMore
<1> QED
  BY <1>1, <1>3 DEF start

\* Lines without an entry of a section leave its entries as they are.
LEMMA EntriesToSame ==
  ASSUME NEW L, NEW lines \in Seq(L), NEW i \in 0 .. Len(lines),
         NEW m \in Nat, NEW n \in Nat, m <= n, \A j \in m + 1 .. n : j \notin EntriesFrom(lines, i)
  PROVE  EntriesTo(lines, i, n) = EntriesTo(lines, i, m)
<1> DEFINE E == EntriesFrom(lines, i)
           parts == [j \in E |-> <<lines[j]>>]
<1>1. \A j \in E : lines[j] \in L
  BY DEF EntriesFrom
<1>2. /\ \A j \in DOMAIN parts : parts[j] \in Seq(L)
      /\ \A j \in m + 1 .. n : j \notin DOMAIN parts
  BY <1>1
<1>3. EntriesTo(lines, i, m) = Joined(parts, m) /\ EntriesTo(lines, i, n) = Joined(parts, n)
  BY DEF EntriesTo
<1> HIDE DEF parts
<1>4. Joined(parts, n) = Joined(parts, m)
  BY <1>2, JoinedSame
<1> QED
  BY <1>3, <1>4

\* Where the sections of a kind are opened, among the first m lines.
Opens(lines, what) == {i \in DOMAIN lines : lines[i].kind = "section" /\ lines[i].what = what}
OpeningsTo(lines, what, m) == Joined([i \in Opens(lines, what) |-> <<i>>], m)

\* One more line: it opens one more section of the kind, or none.
LEMMA OpeningsMore ==
  ASSUME NEW L, NEW lines \in Seq(L), NEW what
  PROVE  /\ OpeningsTo(lines, what, 0) = <<>>
         /\ \A m \in Nat : OpeningsTo(lines, what, m) \in Seq(DOMAIN lines)
         /\ \A m \in Nat : OpeningsTo(lines, what, m + 1) =
              IF m + 1 \in Opens(lines, what) THEN Append(OpeningsTo(lines, what, m), m + 1)
              ELSE OpeningsTo(lines, what, m)
         /\ \A m \in Nat, n \in Nat : m <= n /\ (\A i \in m + 1 .. n : i \notin Opens(lines, what)) =>
              OpeningsTo(lines, what, n) = OpeningsTo(lines, what, m)
<1> DEFINE O == Opens(lines, what)
           X == DOMAIN lines
           parts == [i \in O |-> <<i>>]
<1>1. O \subseteq X
  BY DEF Opens
<1>2. /\ \A i \in DOMAIN parts : parts[i] \in Seq(X)
      /\ DOMAIN parts = O
      /\ \A i \in O : parts[i] = <<i>>
  BY <1>1
<1>3. \A m : OpeningsTo(lines, what, m) = Joined(parts, m)
  BY DEF OpeningsTo
<1> HIDE DEF parts, O, X
<1>4. ASSUME NEW m \in Nat
      PROVE  /\ Joined(parts, 0) = <<>>
             /\ Joined(parts, m) \in Seq(X)
             /\ Joined(parts, m + 1) = IF m + 1 \in O THEN Append(Joined(parts, m), m + 1)
                                       ELSE Joined(parts, m)
  <2> DEFINE sofar == Joined(parts, m)
  <2>1. /\ Joined(parts, 0) = <<>> /\ sofar \in Seq(X)
        /\ Joined(parts, m + 1) = IF m + 1 \in O THEN sofar \o <<m + 1>> ELSE sofar
    BY <1>2, JoinedMore
  <2> HIDE DEF sofar
  <2>2. m + 1 \in O => sofar \o <<m + 1>> = Append(sofar, m + 1)
    BY <1>1, <2>1
  <2> QED
    BY <2>1, <2>2 DEF sofar
<1>5. \A m \in Nat, n \in Nat :
        m <= n /\ (\A i \in m + 1 .. n : i \notin O) => Joined(parts, n) = Joined(parts, m)
  <2> SUFFICES ASSUME NEW m \in Nat, NEW n \in Nat, m <= n, \A i \in m + 1 .. n : i \notin O
               PROVE  Joined(parts, n) = Joined(parts, m)
    OBVIOUS
  <2>1. \A i \in m + 1 .. n : i \notin DOMAIN parts
    BY <1>2
  <2> QED
    BY <1>2, <2>1, JoinedSame
<1>6. Joined(parts, 0) = <<>>
  <2>1. 0 \in Nat
    OBVIOUS
  <2> QED
    BY <1>4, <2>1
<1> QED
  BY <1>3, <1>4, <1>5, <1>6 DEF O, X

\* A section that was opened was opened by one of the lines.
LEMMA OpeningsBefore ==
  ASSUME NEW L, NEW lines \in Seq(L), NEW what, NEW m \in 0 .. Len(lines)
  PROVE  OpeningsTo(lines, what, m) \in Seq(1 .. m)
<1> DEFINE op(n) == OpeningsTo(lines, what, n)
           P == {n \in Nat : n <= Len(lines) => op(n) \in Seq(1 .. n)}
<1>1. 0 \in P
  <2>1. op(0) = <<>>
    BY OpeningsMore
  <2>2. <<>> \in Seq(1 .. 0)
    OBVIOUS
  <2> QED
    BY <2>1, <2>2
<1>2. ASSUME NEW n \in Nat, n \in P PROVE n + 1 \in P
  <2> SUFFICES ASSUME n + 1 <= Len(lines) PROVE op(n + 1) \in Seq(1 .. n + 1)
    OBVIOUS
  <2>1. op(n) \in Seq(1 .. n)
    BY <1>2
  <2>2. op(n + 1) = Append(op(n), n + 1) \/ op(n + 1) = op(n)
    BY OpeningsMore
  <2>3. op(n) \in Seq(1 .. n + 1) /\ n + 1 \in 1 .. n + 1
    <3> DEFINE s == op(n)
    <3> HIDE DEF s, op
    <3>1. s \in Seq(1 .. n)
      BY <2>1 DEF s
    <3> QED
      BY <3>1 DEF s
  <2> HIDE DEF op
  <2>4. Append(op(n), n + 1) \in Seq(1 .. n + 1)
    BY <2>3
  <2> QED
    BY <2>2, <2>3, <2>4
<1>3. Nat \subseteq P
  <2> HIDE DEF P
  <2> QED
    BY <1>1, <1>2, SetInduction
<1> QED
  BY <1>3

ConsumedTo(lines, m) == Consumed(DocumentTo(lines, m))

\* Of the sections of a kind, the first there is room for, each as the first m lines
\* leave it.
ListedTo(lines, what, m, blocks) ==
  LET op == OpeningsTo(lines, what, m)
  IN  /\ Len(blocks) = IF Len(op) <= Most[what] THEN Len(op) ELSE Most[what]
      /\ \A n \in 1 .. Len(blocks) : blocks[n] = BlockAt(lines, op[n], what, m)

ConfiguredTo(lines, m) ==
  LET c == ConsumedTo(lines, m)
  IN  /\ c["global"] = BlockAt(lines, 0, "global", m)
      /\ \A what \in Kinds : ListedTo(lines, what, m, c[what])

\* What the first lines are consumed into has the kinds, and a list for each.
LEMMA ConsumedToShape ==
  ASSUME NEW L, NEW lines \in Seq(L)
  PROVE  \E B : \A m \in 0 .. Len(lines) :
           /\ DOMAIN ConsumedTo(lines, m) = Kinds \cup {"global"}
           /\ \A what \in Kinds : ConsumedTo(lines, m)[what] \in Seq(B)
<1> DEFINE B == {BlockOf(s) : s \in Sections(L)}
<1>1. ASSUME NEW m \in 0 .. Len(lines)
      PROVE  /\ DOMAIN ConsumedTo(lines, m) = Kinds \cup {"global"}
             /\ \A what \in Kinds : ConsumedTo(lines, m)[what] \in Seq(B)
  <2> DEFINE doc == DocumentTo(lines, m)
             g == GlobalOf(doc)
  <2>1. doc.sections \in Seq(Sections(L))
    <3>1. doc \in Documented(L)
      BY DocumentMore
    <3> QED
      BY <3>1 DEF Documented
  <2> HIDE DEF doc
  <2>2. Consumed(doc) \in Shaped(B, g)
    BY <2>1, DocumentConsumed
  <2> HIDE DEF g, B
  <2>3. /\ DOMAIN Consumed(doc) = Kinds \cup {"global"}
        /\ \A what \in Kinds : Consumed(doc)[what] \in Seq(B)
    BY <2>2 DEF Shaped
  <2> QED
    BY <2>3 DEF ConsumedTo, doc
<1> HIDE DEF B
<1> QED
  BY <1>1

\* Lines in which no section of a kind opens, and which are in no section that was open,
\* leave the blocks of that kind as they are.
LEMMA ListedSame ==
  ASSUME NEW L, NEW lines \in Seq(L), NEW what \in Kinds, NEW m \in 0 .. Len(lines),
         NEW o \in 1 .. m, lines[o].kind = "section", NEW p \in 0 .. o - 1, NEW kind
  PROVE  BlockAt(lines, p, kind, m) = BlockAt(lines, p, kind, o - 1)
<1>1. \A j \in (o - 1) + 1 .. m : j \notin EntriesFrom(lines, p)
  <2> SUFFICES ASSUME NEW j \in (o - 1) + 1 .. m, j \in EntriesFrom(lines, p) PROVE FALSE
    OBVIOUS
  <2>1. o \in p + 1 .. j
    OBVIOUS
  <2> QED
    BY <2>1 DEF EntriesFrom
<1>2. o - 1 \in Nat /\ m \in Nat /\ o - 1 <= m /\ p \in 0 .. Len(lines)
  OBVIOUS
<1> DEFINE q == o - 1
<1>3. q \in Nat /\ q <= m /\ \A j \in q + 1 .. m : j \notin EntriesFrom(lines, p)
  BY <1>1, <1>2
<1> HIDE DEF q
<1>4. EntriesTo(lines, p, m) = EntriesTo(lines, p, q)
  BY <1>2, <1>3, EntriesToSame
<1> QED
  BY <1>4 DEF BlockAt, q

\* A section more, of some kind: its kind gets a block, if it has room.
LEMMA SectionListed ==
  ASSUME NEW L, NEW lines \in Seq(L), NEW m \in 0 .. Len(lines), NEW o \in 1 .. m,
         lines[o].kind = "section", NoSection(lines, o + 1, m), NEW what \in Kinds,
         NEW B, NEW blocks \in Seq(B), ListedTo(lines, what, o - 1, blocks)
  PROVE  LET next == IF lines[o].what = what /\ Len(blocks) < Most[what]
                     THEN Append(blocks, BlockAt(lines, o, what, m)) ELSE blocks
         IN  ListedTo(lines, what, m, next)
<1> DEFINE q == o - 1
           op == OpeningsTo(lines, what, q)
           oq == OpeningsTo(lines, what, m)
           most == Most[what]
           fresh == BlockAt(lines, o, what, m)
           opens == lines[o].what = what
           next == IF opens /\ Len(blocks) < most THEN Append(blocks, fresh) ELSE blocks
<1>1. /\ q \in Nat /\ q \in 0 .. Len(lines) /\ q + 1 = o /\ o \in Nat /\ m \in Nat
      /\ o \in 0 .. Len(lines) /\ o \in DOMAIN lines /\ o <= m
  OBVIOUS
<1>2. op \in Seq(1 .. q)
  <2> HIDE DEF q
  <2> QED
    BY <1>1, OpeningsBefore
<1>3. OpeningsTo(lines, what, o) = IF opens THEN Append(op, o) ELSE op
  <2>1. o \in Opens(lines, what) <=> opens
    BY <1>1 DEF Opens
  <2> HIDE DEF q
  <2>2. OpeningsTo(lines, what, q + 1) = IF q + 1 \in Opens(lines, what) THEN Append(op, q + 1) ELSE op
    BY <1>1, OpeningsMore
  <2> HIDE DEF opens, op
  <2> QED
    BY <1>1, <2>1, <2>2
<1>4. oq = OpeningsTo(lines, what, o)
  <2>1. \A i \in o + 1 .. m : i \notin Opens(lines, what)
    BY DEF NoSection, Opens
  <2> QED
    BY <1>1, <2>1, OpeningsMore
<1>5. most \in Nat
  BY ConfigDocumentAssumption
<1>6. /\ Len(blocks) = IF Len(op) <= most THEN Len(op) ELSE most
      /\ \A n \in 1 .. Len(blocks) : blocks[n] = BlockAt(lines, op[n], what, q)
  BY DEF ListedTo
<1>7. ASSUME NEW n \in 1 .. Len(blocks)
      PROVE  n \in 1 .. Len(op) /\ blocks[n] = BlockAt(lines, op[n], what, m)
  <2>1. n \in 1 .. Len(op)
    <3> HIDE DEF op, most
    <3> QED
      BY <1>2, <1>5, <1>6
  <2>2. op[n] \in 1 .. q
    <3> HIDE DEF op
    <3> QED
      BY <1>2, <2>1
  <2> DEFINE p == op[n]
  <2>3. p \in 0 .. o - 1
    BY <2>2
  <2>4. blocks[n] = BlockAt(lines, p, what, q)
    BY <1>6
  <2> HIDE DEF p
  <2>5. BlockAt(lines, p, what, m) = BlockAt(lines, p, what, q)
    BY <2>3, ListedSame
  <2> QED
    BY <2>1, <2>4, <2>5 DEF p
<1>8. oq = IF opens THEN Append(op, o) ELSE op
  BY <1>3, <1>4
<1>9. \A n \in 1 .. Len(op) : oq[n] = op[n]
  <2> HIDE DEF op, oq, opens
  <2>1. Append(op, o) \in Seq(Nat) /\ \A n \in 1 .. Len(op) : Append(op, o)[n] = op[n]
    BY <1>1, <1>2
  <2> QED
    BY <1>8, <2>1
<1>10. Len(oq) = IF opens THEN Len(op) + 1 ELSE Len(op)
  <2> HIDE DEF op, oq, opens
  <2> QED
    BY <1>2, <1>8
<1>11. Len(op) \in Nat /\ Len(blocks) \in Nat
  <2> HIDE DEF op
  <2> QED
    BY <1>2
<1>12. opens => oq[Len(op) + 1] = o
  <2> HIDE DEF op, oq, opens
  <2> QED
    BY <1>2, <1>8
<1>13. /\ Len(next) = IF opens /\ Len(blocks) < most THEN Len(blocks) + 1 ELSE Len(blocks)
       /\ \A n \in 1 .. Len(blocks) : next[n] = blocks[n]
       /\ opens /\ Len(blocks) < most => next[Len(blocks) + 1] = fresh
  <2> HIDE DEF fresh, most, opens
  <2> QED
    OBVIOUS
<1> DEFINE at(n) == BlockAt(lines, oq[n], what, m)
<1>14. \A n \in 1 .. Len(blocks) : blocks[n] = at(n)
  BY <1>7, <1>9
<1>15. opens => at(Len(op) + 1) = fresh
  BY <1>12
<1> HIDE DEF op, oq, most, fresh, opens, next, at, q
<1>16. Len(next) = IF Len(oq) <= most THEN Len(oq) ELSE most
  BY <1>5, <1>6, <1>10, <1>11, <1>13
<1>17. ASSUME NEW n \in 1 .. Len(next) PROVE next[n] = at(n)
  <2>1. CASE n \in 1 .. Len(blocks)
    BY <1>13, <1>14, <2>1
  <2>2. CASE n \notin 1 .. Len(blocks)
    <3>1. opens /\ Len(blocks) < most /\ n = Len(blocks) + 1
      BY <1>11, <1>13, <1>17, <2>2
    <3>2. Len(blocks) = Len(op)
      BY <1>5, <1>6, <1>11, <3>1
    <3> QED
      BY <1>13, <1>15, <3>1, <3>2
  <2> QED
    BY <2>1, <2>2
<1>18. ListedTo(lines, what, m, next)
  BY <1>16, <1>17 DEF ListedTo, oq, most, at
<1> QED
  BY <1>18 DEF next, opens, most, fresh

\* config.c: whatever lines come next, the blocks are those of the sections that were
\* opened, and the one of the lines before the first.
LEMMA ConfiguredSays ==
  ASSUME NEW L, NEW lines \in Seq(L), NEW m \in 0 .. Len(lines)
  PROVE  ConfiguredTo(lines, m)
<1> DEFINE P == {n \in Nat : \A k \in 0 .. n : k <= Len(lines) => ConfiguredTo(lines, k)}
<1>1. ASSUME NEW k \in 0 .. Len(lines), \A n \in 0 .. k - 1 : ConfiguredTo(lines, n)
      PROVE  ConfiguredTo(lines, k)
  <2> DEFINE d == DocumentTo(lines, k)
             c == ConsumedTo(lines, k)
  <2>1. PICK B : \A n \in 0 .. Len(lines) :
          /\ DOMAIN ConsumedTo(lines, n) = Kinds \cup {"global"}
          /\ \A what \in Kinds : ConsumedTo(lines, n)[what] \in Seq(B)
    BY ConsumedToShape
  <2>2. c = Consumed(d) /\ d \in Documented(L)
    BY DocumentMore DEF ConsumedTo
  <2>3. "global" \notin Kinds
    BY DEF Kinds
  <2>4. CASE NoSection(lines, 1, k) /\ d.global = EntriesTo(lines, 0, k) /\ d.sections = <<>>
    <3>1. c = ConfigOfGlobal(d.global)
      <4> HIDE DEF d, c
      <4> QED
        BY <2>2, <2>4, ConsumedNone
    <3>2. c["global"] = BlockAt(lines, 0, "global", k)
      BY <2>4, <3>1 DEF ConfigOfGlobal, BlockAt, NameAt
    <3>3. ASSUME NEW what \in Kinds PROVE ListedTo(lines, what, k, c[what])
      <4>1. c[what] = <<>>
        BY <2>3, <3>1 DEF ConfigOfGlobal
      <4>2. OpeningsTo(lines, what, k) = <<>>
        <5>1. \A i \in 0 + 1 .. k : i \notin Opens(lines, what)
          BY <2>4 DEF NoSection, Opens
        <5>2. 0 \in Nat /\ k \in Nat /\ 0 <= k
          OBVIOUS
        <5>3. OpeningsTo(lines, what, k) = OpeningsTo(lines, what, 0)
          BY <5>1, <5>2, OpeningsMore
        <5>4. OpeningsTo(lines, what, 0) = <<>>
          BY OpeningsMore
        <5> QED
          BY <5>3, <5>4
      <4>3. Len(<<>>) = 0 /\ 1 .. 0 = {} /\ 0 <= Most[what]
        BY ConfigDocumentAssumption
      <4> HIDE DEF c
      <4> QED
        BY <4>1, <4>2, <4>3 DEF ListedTo
    <3> QED
      BY <3>2, <3>3 DEF ConfiguredTo
  <2>5. ASSUME NEW o \in 1 .. k,
               lines[o].kind = "section", NoSection(lines, o + 1, k),
               d.global = DocumentTo(lines, o - 1).global,
               d.sections = Append(DocumentTo(lines, o - 1).sections, SectionTo(lines, o, k))
        PROVE  ConfiguredTo(lines, k)
    <3> DEFINE b == DocumentTo(lines, o - 1)
               a == ConsumedTo(lines, o - 1)
               s == SectionTo(lines, o, k)
               block == BlockAt(lines, o, s.what, k)
    <3>1. o - 1 \in 0 .. Len(lines) /\ o - 1 \in 0 .. k - 1 /\ o \in DOMAIN lines /\ o # 0
          /\ o \in 0 .. Len(lines) /\ k \in Nat /\ lines[o] \in L
      OBVIOUS
    <3>2. ConfiguredTo(lines, o - 1)
      BY <1>1, <3>1
    <3>3. b \in Documented(L) /\ a = Consumed(b)
      BY <3>1, DocumentMore DEF ConsumedTo
    <3>4. s \in Sections(L)
      <4>1. EntriesTo(lines, o, k) \in Seq(L)
        BY <3>1, EntriesToMore
      <4> QED
        BY <3>1, <4>1 DEF SectionTo, Sections
    <3>5. c = ConsumeSection(a, s)
      <4>1. b.sections \in Seq(Sections(L))
        BY <3>3 DEF Documented
      <4> HIDE DEF d, c, b, a, s
      <4>2. d.global = b.global /\ d.sections = Append(b.sections, s)
        BY <2>5 DEF b, s
      <4>3. Consumed(d) = ConsumeSection(Consumed(b), s)
        BY <3>4, <4>1, <4>2, ConsumedAppended
      <4> QED
        BY <2>2, <3>3, <4>3
    <3>6. ConsumeEntries(s.what, Fresh(s.what, s.name), s.entries) = block /\ s.what = lines[o].what
      BY <3>1 DEF SectionTo, BlockAt, NameAt
    <3>7. /\ DOMAIN a = Kinds \cup {"global"}
          /\ \A what \in Kinds : a[what] \in Seq(B)
      BY <2>1, <3>1
    <3>8. a["global"] = BlockAt(lines, 0, "global", o - 1)
          /\ \A what \in Kinds : ListedTo(lines, what, o - 1, a[what])
      BY <3>2 DEF ConfiguredTo
    <3>9. c = IF s.what \in Kinds /\ Len(a[s.what]) < Most[s.what]
              THEN [a EXCEPT ![s.what] = Append(a[s.what], block)] ELSE a
      <4> HIDE DEF a, c, s, block
      <4> QED
        BY <3>5, <3>6 DEF ConsumeSection
    <3>10. c["global"] = BlockAt(lines, 0, "global", k)
      <4>1. BlockAt(lines, 0, "global", k) = BlockAt(lines, 0, "global", o - 1)
        <5>1. 0 \in 0 .. o - 1
          OBVIOUS
        <5>2. "user" \in Kinds
          BY DEF Kinds
        <5> QED
          BY <2>5, <5>1, <5>2, ListedSame
      <4>2. c["global"] = a["global"]
        <5> HIDE DEF a, c, s, block
        <5> QED
          BY <2>3, <3>7, <3>9
      <4> QED
        BY <3>8, <4>1, <4>2
    <3>11. ASSUME NEW what \in Kinds PROVE ListedTo(lines, what, k, c[what])
      <4> DEFINE blocks == a[what]
                 next == IF lines[o].what = what /\ Len(blocks) < Most[what]
                         THEN Append(blocks, BlockAt(lines, o, what, k)) ELSE blocks
      <4>1. blocks \in Seq(B) /\ ListedTo(lines, what, o - 1, blocks)
        BY <3>7, <3>8
      <4>2. ListedTo(lines, what, k, next)
        <5> HIDE DEF blocks
        <5> QED
          BY <2>5, <4>1, SectionListed
      <4>3. c[what] = next
        <5>1. CASE lines[o].what = what
          <6> HIDE DEF a, c, s
          <6> QED
            BY <3>6, <3>7, <3>9, <5>1
        <5>2. CASE lines[o].what # what
          <6> HIDE DEF a, c, s, block
          <6> QED
            BY <3>6, <3>7, <3>9, <5>2
        <5> QED
          BY <5>1, <5>2
      <4> QED
        BY <4>2, <4>3
    <3> QED
      BY <3>10, <3>11 DEF ConfiguredTo
  <2>6. ReadTo(lines, k)
    BY DocumentSays
  <2> QED
    BY <2>4, <2>5, <2>6 DEF ReadTo
<1>2. 0 \in P
  <2> SUFFICES ConfiguredTo(lines, 0)
    OBVIOUS
  <2>1. 0 \in 0 .. Len(lines) /\ \A n \in 0 .. 0 - 1 : ConfiguredTo(lines, n)
    OBVIOUS
  <2> QED
    BY <1>1, <2>1
<1>3. ASSUME NEW n \in Nat, n \in P PROVE n + 1 \in P
  <2>1. \A k \in 0 .. n : k <= Len(lines) => ConfiguredTo(lines, k)
    BY <1>3
  <2> SUFFICES ASSUME n + 1 <= Len(lines) PROVE ConfiguredTo(lines, n + 1)
    <3>1. \A k \in 0 .. n + 1 : k \in 0 .. n \/ k = n + 1
      OBVIOUS
    <3> QED
      BY <2>1, <3>1
  <2>2. n + 1 \in 0 .. Len(lines) /\ \A k \in 0 .. (n + 1) - 1 : ConfiguredTo(lines, k)
    BY <2>1
  <2> QED
    BY <1>1, <2>2
<1>4. Nat \subseteq P
  <2> HIDE DEF P
  <2> QED
    BY <1>2, <1>3, SetInduction
<1>5. m \in Nat /\ m \in 0 .. m /\ m <= Len(lines)
  OBVIOUS
<1>6. m \in P
  BY <1>4, <1>5
<1> QED
  BY <1>5, <1>6

-----------------------------------------------------------------------------
(* The whole text *)

\* What all lines say of a field is what is expected of it.
LEMMA SaidInAll ==
  ASSUME NEW W, NEW L, NEW lines \in Seq(L),
         \A j \in DOMAIN lines : lines[j].kind = "entry" => lines[j].value \in Seq(W),
         NEW i \in 0 .. Len(lines), NEW what \in Kinds \cup {"global"}, NEW field \in Fields(what),
         NEW name, NEW fresh, fresh = Fresh(what, name)[field]
  PROVE  FieldSays(lines, i, what, field, fresh, Len(lines)) = Said(lines, i, what, field, fresh)
<1> DEFINE said == Sayings(lines, i, what, field)
           parts == [j \in said |-> lines[j].value]
           last == Len(lines)
           how == HowRead[what][field]
           all == FieldSays(lines, i, what, field, fresh, last)
<1>1. said \subseteq 1 .. last /\ last \in Nat
  BY DEF Sayings, EntriesFrom
<1>2. \A j \in said : lines[j].value \in Seq(W)
  BY DEF Sayings, EntriesFrom
<1>3. DOMAIN parts = said /\ \A j \in DOMAIN parts : parts[j] \in Seq(W)
  BY <1>2
<1>4. said \cap 1 .. last = said
  BY <1>1
<1>5. all = IF how = "list" THEN UpTo(ListMost[field], Joined(parts, last))
            ELSE IF said = {} THEN fresh ELSE Taken(what, field, Zero[how], lines[Max(said)].value)
  BY <1>4 DEF FieldSays
<1>6. Said(lines, i, what, field, fresh) =
        IF said = {} THEN fresh
        ELSE IF how = "list" THEN UpTo(ListMost[field], Joined(parts, last))
        ELSE Taken(what, field, Zero[how], lines[Max(said)].value)
  BY DEF Said
<1>7. CASE said = {} /\ how = "list"
  <2> HIDE DEF parts, said, last
  <2>1. \A j \in 0 + 1 .. last : j \notin DOMAIN parts
    BY <1>3, <1>7
  <2>2. 0 \in Nat /\ 0 <= last
    BY <1>1
  <2>3. Joined(parts, last) = Joined(parts, 0)
    BY <1>1, <1>3, <2>1, <2>2, JoinedSame
  <2>4. FieldSays(lines, i, what, field, fresh, 0) = UpTo(ListMost[field], Joined(parts, 0))
    BY <1>7 DEF FieldSays, parts, said
  <2>5. FieldSays(lines, i, what, field, fresh, 0) = fresh
    BY FieldSaysFirst
  <2>6. all = fresh
    BY <1>5, <1>7, <2>3, <2>4, <2>5
  <2>7. Said(lines, i, what, field, fresh) = fresh
    BY <1>6, <1>7
  <2> QED
    BY <2>6, <2>7 DEF last
<1>8. CASE ~ (said = {} /\ how = "list")
  BY <1>5, <1>6, <1>8
<1> QED
  BY <1>7, <1>8

\* The block of a section is as its lines are written.
LEMMA BlockWritten ==
  ASSUME NEW W, NEW L, NEW lines \in Seq(L),
         \A j \in DOMAIN lines : lines[j].kind = "entry" => lines[j].value \in Seq(W),
         NEW i \in 0 .. Len(lines), NEW what \in Kinds \cup {"global"}
  PROVE  BlockAsWritten(lines, i, what, BlockAt(lines, i, what, Len(lines)))
<1> DEFINE fresh == Fresh(what, NameAt(lines, i))
           block == BlockAt(lines, i, what, Len(lines))
<1>1. \A field \in DOMAIN fresh :
        block[field] = IF field \in Fields(what)
                       THEN FieldSays(lines, i, what, field, fresh[field], Len(lines)) ELSE fresh[field]
  <2>1. Len(lines) \in 0 .. Len(lines)
    OBVIOUS
  <2> QED
    BY <2>1, BlockSays
<1>2. ASSUME NEW field \in Fields(what)
      PROVE  FieldSays(lines, i, what, field, fresh[field], Len(lines))
               = Said(lines, i, what, field, fresh[field])
  <2> DEFINE f == fresh[field]
             name == NameAt(lines, i)
  <2>1. f = Fresh(what, name)[field]
    OBVIOUS
  <2> HIDE DEF f, name
  <2>2. FieldSays(lines, i, what, field, f, Len(lines)) = Said(lines, i, what, field, f)
    BY <2>1, SaidInAll
  <2> QED
    BY <2>2 DEF f
<1>3. \A field \in DOMAIN fresh :
        block[field] = IF field \in Fields(what) THEN Said(lines, i, what, field, fresh[field])
                       ELSE fresh[field]
  <2> HIDE DEF fresh, block
  <2> QED
    BY <1>1, <1>2
<1>4. fresh = Fresh(what, IF i = 0 THEN "" ELSE lines[i].name)
  BY DEF NameAt
<1> HIDE DEF fresh, block
<1>5. BlockAsWritten(lines, i, what, block)
  BY <1>3, <1>4 DEF BlockAsWritten
<1> QED
  BY <1>5 DEF block

\* A text with sequences of words for values is consumed as it is written.
LEMMA TextAsWritten ==
  ASSUME NEW W, NEW L, NEW lines \in Seq(L),
         \A j \in DOMAIN lines : lines[j].kind = "entry" => lines[j].value \in Seq(W)
  PROVE  AsWritten(lines)
<1> DEFINE last == Len(lines)
           c == ConsumedTo(lines, last)
<1>1. last \in 0 .. Len(lines) /\ last \in Nat /\ 0 \in 0 .. Len(lines)
  OBVIOUS
<1>2. c = Consumed(Document(lines))
  BY DocumentMore DEF ConsumedTo
<1>3. ConfiguredTo(lines, last)
  BY <1>1, ConfiguredSays
<1>4. PICK B : \A what \in Kinds : c[what] \in Seq(B)
  BY <1>1, ConsumedToShape
<1>5. BlockAsWritten(lines, 0, "global", c.global)
  <2>1. c.global = BlockAt(lines, 0, "global", last)
    BY <1>3 DEF ConfiguredTo
  <2>2. "global" \in Kinds \cup {"global"}
    OBVIOUS
  <2> HIDE DEF c
  <2> QED
    BY <1>1, <2>1, <2>2, BlockWritten
<1>6. ASSUME NEW what \in Kinds
      PROVE  /\ Len(c[what]) = Min({Len(Openings(lines, what)), Most[what]})
             /\ \A n \in DOMAIN c[what] : BlockAsWritten(lines, Openings(lines, what)[n], what, c[what][n])
  <2> DEFINE op == OpeningsTo(lines, what, last)
             blocks == c[what]
             most == Most[what]
  <2>1. op = Openings(lines, what)
    BY DEF OpeningsTo, Openings, Opens
  <2>2. op \in Seq(DOMAIN lines)
    BY <1>1, OpeningsMore
  <2>3. /\ Len(blocks) = IF Len(op) <= most THEN Len(op) ELSE most
        /\ \A n \in 1 .. Len(blocks) : blocks[n] = BlockAt(lines, op[n], what, last)
    BY <1>3 DEF ConfiguredTo, ListedTo
  <2>4. most \in Nat /\ Len(op) \in Nat
    BY <2>2, ConfigDocumentAssumption
  <2>5. blocks \in Seq(B)
    BY <1>4
  <2> HIDE DEF op, blocks, most
  <2>6. Min({Len(op), most}) = IF Len(op) <= most THEN Len(op) ELSE most
    BY <2>4, MinOfTwo
  <2>7. ASSUME NEW n \in DOMAIN blocks PROVE BlockAsWritten(lines, op[n], what, blocks[n])
    <3>1. n \in 1 .. Len(blocks) /\ n \in 1 .. Len(op)
      BY <2>3, <2>4, <2>5
    <3> DEFINE p == op[n]
    <3>2. p \in 0 .. Len(lines) /\ blocks[n] = BlockAt(lines, p, what, last)
      BY <2>2, <2>3, <3>1
    <3> HIDE DEF p
    <3>3. BlockAsWritten(lines, p, what, BlockAt(lines, p, what, last))
      BY <3>2, BlockWritten
    <3> QED
      BY <3>2, <3>3 DEF p
  <2> QED
    BY <2>1, <2>3, <2>6, <2>7 DEF blocks, most
<1> QED
  BY <1>2, <1>5, <1>6 DEF AsWritten

\* Every text, also with a line more, is read as it is written.
LEMMA EveryDocumentRead == FaithfullyRead = DOMAIN Documents
<1> SUFFICES ASSUME NEW d \in DOMAIN Documents, NEW draft \in Drafts(Documents[d])
             PROVE  AsWritten(draft)
  BY DEF FaithfullyRead
<1> DEFINE L == ToSet(Documents[d]) \cup Slips
           W == UNION {ToSet(line.value) : line \in {l \in L : l.kind = "entry"}}
<1>1. draft \in Seq(L)
  BY ConfiguredAssumption, DraftsAreTexts
<1>2. \A line \in L : line.kind = "entry" => line.value \in Seq(ToSet(line.value))
  BY ConfiguredAssumption
<1>3. ASSUME NEW line \in L, line.kind = "entry" PROVE line.value \in Seq(W)
  <2> DEFINE v == line.value
  <2>1. ToSet(v) \subseteq W
    BY <1>3
  <2>2. v \in Seq(ToSet(v))
    BY <1>2, <1>3
  <2> HIDE DEF v, W
  <2>3. v \in Seq(W)
    BY <2>1, <2>2
  <2> QED
    BY <2>3 DEF v
<1> HIDE DEF L, W
<1>4. \A j \in DOMAIN draft : draft[j] \in L
  BY <1>1
<1>5. \A j \in DOMAIN draft : draft[j].kind = "entry" => draft[j].value \in Seq(W)
  BY <1>3, <1>4
<1> QED
  BY <1>1, <1>5, TextAsWritten

\* ini.c and config.c: whatever the file says, and with whatever line added wherever,
\* every block holds what the lines of its own section say last of each field, all they
\* say of a list, and its presets otherwise; a section too many changes no other.
THEOREM ReadsAsWrittenAlways == ConfiguredSpec => []ReadsAsWritten
<1>1. ConfiguredInit => document \in DOMAIN Documents
  BY DEF ConfiguredInit
<1>2. document \in DOMAIN Documents /\ [ConfiguredNext]_<<vars, document>>
        => (document \in DOMAIN Documents)'
  BY DEF ConfiguredNext
<1>3. document \in DOMAIN Documents => ReadsAsWritten
  BY EveryDocumentRead DEF ReadsAsWritten
<1> QED
  BY <1>1, <1>2, <1>3, PTL DEF ConfiguredSpec

-----------------------------------------------------------------------------
(* Texts and files *)

\* The daemon of ConfiguredDaemon, whose file is a text that is parsed, validated and
\* searched, takes no step that the daemon of RuntimeReload, which knows of its file
\* only what a reload meets, does not take.
THEOREM TextsAreFiles == ConfiguredSpec => Spec
<1>1. ConfiguredInit => Init
  BY DEF ConfiguredInit
<1>2. [ConfiguredNext]_<<vars, document>> => [Next]_vars
  <2> SUFFICES ASSUME ConfiguredNext PROVE Next
    OBVIOUS
  <2>1. CASE \E d \in DOMAIN Documents : EditFile(FileOf[d])
    BY <2>1, ConfiguredAssumption DEF Next
  <2>2. CASE Turn \/ Pump \/ JobsEnd \/ \E u \in Users : Builtin(u)
    BY <2>2 DEF Next
  <2> QED
    BY <2>1, <2>2 DEF ConfiguredNext
<1> QED
  BY <1>1, <1>2, PTL DEF ConfiguredSpec, Spec

\* So the borrows, the wire flags and the completeness of a reload hold for every set
\* of texts a daemon may find in its file.
THEOREM ReloadsOfTexts ==
  ConfiguredSpec => []BorrowsAttached /\ []WireFollowsConfig /\ ReloadIsComplete
BY TextsAreFiles, BorrowsCorrect, WireCorrect, ReloadComplete

=============================================================================
