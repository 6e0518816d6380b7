-------------------------- MODULE DiagnosisProofs --------------------------
(***************************************************************************)
(* Theorems about Diagnosis: for every config file, every Connection in    *)
(* it, and whatever the Unit, the proxy and other programs do while doctor *)
(* looks at a port.                                                        *)
(***************************************************************************)
EXTENDS Diagnosis, FoldProofs, SystemdUnitProofs

-----------------------------------------------------------------------------
(* The config: which rules a document that loads has kept, what its        *)
(* connections end up with, and that each has a Unit name of its own.      *)

\* The two copies of the id rule are the same rule.
LEMMA OneIdRule == ASSUME NEW id PROVE ValidateId(id) <=> IsConfigValidId(id)
BY DEF ValidateId, IsConfigValidId

\* A document that breaks the uniqueness rule is refused for it.
LEMMA UniquenessErrorIsAnError == ASSUME NEW cs PROVE UniquenessError(cs) # "none"
BY DEF UniquenessError

\* What a document that loads has kept, and what it becomes.
Kept(doc) ==
  /\ doc.version = 1
  /\ ValidateDefaults(doc.defaults)
  /\ \A i \in 1..Len(doc.connections) : ValidateRawConnection(doc.connections[i])
  /\ CheckConnectionCount(doc.connections)
  /\ Repeats(doc.connections) = {}
  /\ doc.proxy_bin # Unset => doc.proxy_bin.len # 0
  /\ BoundedAscii(ProxyBinOrDefault(doc.proxy_bin), MAX_PROXY_BIN_LEN)

\* parse accepts a document exactly when it keeps every rule it asks, in
\* whatever order it asks them (src/config.rs:83-106).
LEMMA ParseIsExact ==
  ASSUME NEW doc
  PROVE  /\ Parse(doc).error = "none" <=> Kept(doc)
         /\ Kept(doc) => Parse(doc) = Loaded(ProxyBinOrDefault(doc.proxy_bin), Merged(doc))
<1> DEFINE Rules ==
      IF \E i \in 1..Len(doc.connections) : ~ValidateRawConnection(doc.connections[i])
        THEN Refuse("InvalidConnection")
      ELSE IF ~CheckConnectionCount(doc.connections) THEN Refuse("TooManyConnections")
      ELSE IF Repeats(doc.connections) # {}
        THEN Refuse(UniquenessError(doc.connections))
      ELSE IF doc.proxy_bin # Unset /\ doc.proxy_bin.len = 0 THEN Refuse("EmptyProxyBin")
      ELSE IF ~BoundedAscii(ProxyBinOrDefault(doc.proxy_bin), MAX_PROXY_BIN_LEN)
        THEN Refuse("InvalidProxyBin")
      ELSE Loaded(ProxyBinOrDefault(doc.proxy_bin), Merged(doc))
<1>1. \A error : Refuse(error).error = error
  BY DEF Refuse
<1>2. \A bin, cs : Loaded(bin, cs).error = "none"
  BY DEF Loaded
<1>3. CASE doc.version # 1
  BY <1>1, <1>3 DEF Parse, Kept
<1>4. CASE doc.version = 1 /\ ~ValidateDefaults(doc.defaults)
  BY <1>1, <1>4 DEF Parse, Kept
<1>5. CASE doc.version = 1 /\ ValidateDefaults(doc.defaults)
  <2>1. Parse(doc) = Rules
    BY <1>5 DEF Parse
  <2> QED BY <1>1, <1>2, <1>5, <2>1, UniquenessErrorIsAnError DEF Kept
<1> QED BY <1>3, <1>4, <1>5

\* Nothing is repeated exactly when all differ.
LEMMA NothingRepeats ==
  ASSUME NEW cs
  PROVE  Repeats(cs) = {} <=>
           \A i, j \in 1..Len(cs) : i # j => /\ cs[i].id # cs[j].id
                                             /\ cs[i].port # cs[j].port
                                             /\ cs[i].instance # cs[j].instance
<1>1. ASSUME Repeats(cs) = {}, NEW i \in 1..Len(cs), NEW j \in 1..Len(cs), j < i
      PROVE  /\ cs[i].id # cs[j].id
             /\ cs[i].port # cs[j].port
             /\ cs[i].instance # cs[j].instance
  <2>1. j \in 1..(i - 1)
    BY <1>1
  <2>2. i \notin Repeats(cs)
    BY <1>1
  <2> QED BY <2>1, <2>2 DEF Repeats, RepeatsId, RepeatsPort, RepeatsInstance
<1>2. ASSUME NEW i \in Repeats(cs)
      PROVE  \E j \in 1..Len(cs) : j # i /\ \/ cs[i].id = cs[j].id
                                            \/ cs[i].port = cs[j].port
                                            \/ cs[i].instance = cs[j].instance
  <2>1. PICK j \in 1..(i - 1) : \/ cs[i].id = cs[j].id
                                \/ cs[i].port = cs[j].port
                                \/ cs[i].instance = cs[j].instance
    BY DEF Repeats, RepeatsId, RepeatsPort, RepeatsInstance
  <2>2. i \in 1..Len(cs)
    BY DEF Repeats
  <2>3. j \in 1..Len(cs) /\ j # i
    BY <2>2
  <2> QED BY <2>1, <2>3
<1>3. Repeats(cs) \subseteq 1..Len(cs)
  BY DEF Repeats
<1> QED
  <2>1. ASSUME Repeats(cs) = {}, NEW i \in 1..Len(cs), NEW j \in 1..Len(cs), i # j
        PROVE  /\ cs[i].id # cs[j].id
               /\ cs[i].port # cs[j].port
               /\ cs[i].instance # cs[j].instance
    <3>1. i < j \/ j < i
      BY <2>1
    <3> QED BY <1>1, <2>1, <3>1
  <2> QED BY <1>2, <1>3, <2>1

\* An id of a valid length is something, and short enough for a Unit name.
LEMMA ValidLengthFits ==
  ASSUME NEW n \in 1..64 PROVE n # 0 /\ ~(n + AffixLen > MAX_UNIT_NAME_LEN)
BY DEF AffixLen, MAX_UNIT_NAME_LEN

\* A valid id names a Unit, and names it as it is.
LEMMA ValidIdIsItsUnit ==
  ASSUME NEW S, NEW id \in Seq(S), ValidateId(id)
  PROVE  UnitNameOf(id) = Named(id)
<1>1. Len(id) \in 1..64
  BY DEF ValidateId
<1>2. UnitCore(id) = id
  BY OneIdRule DEF UnitCore
<1>3. Len(id) # 0 /\ ~(Len(id) + AffixLen > MAX_UNIT_NAME_LEN)
  BY <1>1, ValidLengthFits, Zenon
<1>4. id # <<>>
  BY <1>3
<1> QED BY <1>2, <1>3, <1>4, Zenon DEF UnitNameOf

\* The length of a list of arguments is the sum of theirs.
LengthsOf(args) == [i \in 1..Len(args) |-> args[i].len]

SumsArgs(args, f) ==
  f = [s \in SUBSET (DOMAIN args) |->
         IF s = {} THEN 0 ELSE LET x == Max(s) IN f[s \ {x}] + args[x].len]

LEMMA TotalLenIsAFold ==
  ASSUME NEW args PROVE TotalLen(args) = (CHOOSE f : SumsArgs(args, f))[DOMAIN args]
BY Zenon DEF TotalLen, FoldLeft, MapThenFoldSet, SumsArgs

\* So it is a number, and no more than every argument being the longest would
\* make it.
LEMMA TotalLenIsBounded ==
  ASSUME NEW args, Len(args) \in Nat, DOMAIN args = 1..Len(args),
         NEW most \in Nat, \A i \in 1..Len(args) : args[i].len \in 0..most
  PROVE  TotalLen(args) \in Nat /\ TotalLen(args) <= Len(args) * most
<1> DEFINE n == Len(args)
           w == LengthsOf(args)
           F == CHOOSE f : SumsArgs(args, f)
<1>1. w \in [1..n -> Nat] /\ \A i \in 1..n : w[i] <= most /\ w[i] = args[i].len
  BY DEF LengthsOf
<1> HIDE DEF w
<1>2. PICK g \in [SUBSET (1..n) -> Nat] :
        \A S \in SUBSET (1..n) :
          g[S] = IF S = {} THEN 0 ELSE g[S \ {Max(S)}] + w[Max(S)]
  BY <1>1, SumExists
<1>3. ASSUME NEW S \in SUBSET (1..n), S # {} PROVE w[Max(S)] = args[Max(S)].len
  BY <1>1, <1>3, MaxIsGreatest
<1>4. SumsArgs(args, g)
  <2>1. g = [s \in SUBSET (1..n) |-> g[s]]
    OBVIOUS
  <2> QED BY <1>2, <1>3, <2>1 DEF SumsArgs
<1>5. SumsArgs(args, F)
  BY <1>4, Zenon
<1>6. F[{}] = 0 /\ \A k \in 1..n : F[1..k] = F[(1..k) \ {Max(1..k)}] + w[Max(1..k)]
  <2>1. F = [s \in SUBSET (1..n) |->
               IF s = {} THEN 0 ELSE LET x == Max(s) IN F[s \ {x}] + args[x].len]
    BY <1>5 DEF SumsArgs
  <2> HIDE DEF F
  <2>2. {} \in SUBSET (1..n) /\ \A k \in 1..n : 1..k \in SUBSET (1..n) /\ 1..k # {}
    BY MaxOfPrefix
  <2> QED BY <1>3, <2>1, <2>2
<1> HIDE DEF F
<1>7. F[1..n] \in Nat /\ F[1..n] <= n * most
  BY <1>1, <1>6, SumIsBounded
<1> QED BY <1>7, TotalLenIsAFold DEF F

\* No arguments have no length.
LEMMA NoArgsNoLength == TotalLen(<<>>) = 0
<1>1. Len(<<>>) = 0 /\ DOMAIN <<>> = 1..Len(<<>>)
  OBVIOUS
<1>2. TotalLen(<<>>) \in Nat /\ TotalLen(<<>>) <= Len(<<>>) * 0
  BY <1>1, TotalLenIsBounded
<1> QED BY <1>1, <1>2

\* A merged value is one of the three it is picked from.
LEMMA PickTyped ==
  ASSUME NEW S, NEW own \in Optional(S), NEW inherited \in Optional(S), NEW builtin \in S
  PROVE  Pick(own, inherited, builtin) \in S
BY DEF Pick, Optional

\* A connection is a Connection once it is merged, and keeps its own fields.
LEMMA MergeTyped ==
  ASSUME NEW defaults \in RawDefaults, NEW raw \in RawConnections
  PROVE  /\ MergeConnection(defaults, raw) \in Connections
         /\ MergeConnection(defaults, raw).id = raw.id
         /\ MergeConnection(defaults, raw).address
              = Pick(raw.address, defaults.address, DEFAULT_ADDRESS)
         /\ MergeConnection(defaults, raw).extra_args
              = Pick(raw.extra_args, defaults.extra_args, <<>>)
<1>1. /\ DEFAULT_ADDRESS \in Texts /\ <<>> \in Seq(Texts)
      /\ FALSE \in BOOLEAN /\ TRUE \in BOOLEAN
  <2>1. "127.0.0.1" \in STRING /\ 9 \in Nat /\ TRUE \in BOOLEAN
    BY StringsAssumption DEF DEFAULT_ADDRESS
  <2>2. DEFAULT_ADDRESS \in Texts
    BY <2>1, Zenon DEF DEFAULT_ADDRESS, Texts
  <2>3. <<>> \in Seq(Texts)
    OBVIOUS
  <2> QED BY <2>2, <2>3
<1>2. /\ defaults.address \in Optional(Texts) /\ raw.address \in Optional(Texts)
      /\ defaults.private_ip \in Optional(BOOLEAN) /\ raw.private_ip \in Optional(BOOLEAN)
      /\ defaults.auto_iam_authn \in Optional(BOOLEAN)
      /\ raw.auto_iam_authn \in Optional(BOOLEAN)
      /\ defaults.extra_args \in Optional(Seq(Texts))
      /\ raw.extra_args \in Optional(Seq(Texts))
      /\ defaults.enabled \in Optional(BOOLEAN) /\ raw.enabled \in Optional(BOOLEAN)
  BY DEF RawDefaults, RawConnections
<1> DEFINE address    == Pick(raw.address, defaults.address, DEFAULT_ADDRESS)
           private    == Pick(raw.private_ip, defaults.private_ip, FALSE)
           iam        == Pick(raw.auto_iam_authn, defaults.auto_iam_authn, FALSE)
           extra_args == Pick(raw.extra_args, defaults.extra_args, <<>>)
           enabled    == Pick(raw.enabled, defaults.enabled, TRUE)
<1>3. /\ address \in Texts /\ extra_args \in Seq(Texts)
      /\ private \in BOOLEAN /\ iam \in BOOLEAN /\ enabled \in BOOLEAN
  BY <1>1, <1>2, PickTyped, Zenon
<1>4. MergeConnection(defaults, raw) =
        [raw EXCEPT !.address = address, !.private_ip = private, !.auto_iam_authn = iam,
                    !.extra_args = extra_args, !.enabled = enabled]
  BY Zenon DEF MergeConnection
<1> HIDE DEF address, private, iam, extra_args, enabled
<1>5. /\ MergeConnection(defaults, raw) \in Connections
      /\ MergeConnection(defaults, raw).id = raw.id
      /\ MergeConnection(defaults, raw).address = address
      /\ MergeConnection(defaults, raw).extra_args = extra_args
  BY <1>3, <1>4 DEF RawConnections, Connections
<1> QED BY <1>5 DEF address, extra_args

\* The merged connections are as many as the ones in the document, in their order.
LEMMA MergedTyped ==
  ASSUME NEW doc \in Documents
  PROVE  /\ Merged(doc) \in Seq(Connections)
         /\ Len(Merged(doc)) = Len(doc.connections)
         /\ \A i \in 1..Len(doc.connections) :
              Merged(doc)[i] = MergeConnection(doc.defaults, doc.connections[i])
<1>1. /\ doc.defaults \in RawDefaults /\ Len(doc.connections) \in Nat
      /\ \A i \in 1..Len(doc.connections) : doc.connections[i] \in RawConnections
  BY DEF Documents
<1>2. \A i \in 1..Len(doc.connections) :
        MergeConnection(doc.defaults, doc.connections[i]) \in Connections
  BY <1>1, MergeTyped
<1> QED BY <1>1, <1>2 DEF Merged

-----------------------------------------------------------------------------
(* The rules of the document, one field at a time.                         *)

\* A text within its bounds is one that is not empty, printable and not long.
LEMMA BoundedText ==
  ASSUME NEW t \in Texts, NEW most \in Nat
  PROVE  Bounded(t, most) <=> t.len > 0 /\ BoundedAscii(t, most)
<1>1. t.len \in Nat
  BY DEF Texts
<1> QED BY <1>1 DEF Bounded, BoundedAscii

\* The extra arguments' rule is stated twice.
LEMMA ArgsRule == ASSUME NEW args PROVE FewArgs(args) <=> ValidateExtraArgs(args)
BY DEF FewArgs, ValidateExtraArgs, MAX_EXTRA_ARGS_COUNT, MAX_EXTRA_ARGS_TOTAL_LEN

\* So is the port's.
LEMMA PortRange == ASSUME NEW p \in 0..65535 PROVE 1024 <= p /\ p <= 65535 <=> p >= 1024
OBVIOUS

\* A port is usable when the config takes it.
LEMMA PortRule == ASSUME NEW p \in Ports PROVE UsablePort(p) <=> ValidatePort(p)
<1>1. 1024 <= p /\ p <= 65535 <=> p >= MIN_UNPRIVILEGED_PORT
  BY PortRange DEF Ports, MIN_UNPRIVILEGED_PORT
<1>2. p \in {1433, 3306, 5432} <=> p \in RESERVED_PORTS
  BY DEF RESERVED_PORTS
<1> QED BY <1>1, <1>2 DEF UsablePort, ValidatePort

\* And the id's, one character at a time.
LEMMA IdCharacters ==
  ASSUME NEW n \in 1..64, NEW id
  PROVE  (\A i \in 1..n : id[i] \in Alphanumerics \/ (i > 1 /\ id[i] \in {"_", "-"}))
           <=> id[1] \in Alphanumerics /\ \A i \in 2..n : id[i] \in IdSafe
<1>1. ASSUME \A i \in 1..n : id[i] \in Alphanumerics \/ (i > 1 /\ id[i] \in {"_", "-"})
      PROVE  id[1] \in Alphanumerics /\ \A i \in 2..n : id[i] \in IdSafe
  <2>1. 1 \in 1..n /\ ~(1 > 1)
    OBVIOUS
  <2>2. \A i \in 2..n : i \in 1..n
    OBVIOUS
  <2> QED BY <1>1, <2>1, <2>2, Zenon DEF IdSafe
<1>2. ASSUME id[1] \in Alphanumerics, \A i \in 2..n : id[i] \in IdSafe, NEW i \in 1..n
      PROVE  id[i] \in Alphanumerics \/ (i > 1 /\ id[i] \in {"_", "-"})
  <2>1. CASE i = 1
    BY <1>2, <2>1
  <2>2. CASE i # 1
    <3>1. i \in 2..n /\ i > 1
      BY <2>2
    <3> QED BY <1>2, <3>1, Zenon DEF IdSafe
  <2> QED BY <2>1, <2>2
<1> QED BY <1>1, <1>2, Zenon

\* An id is plain when the config takes it.
LEMMA IdRule == ASSUME NEW id PROVE PlainId(id) <=> ValidateId(id)
<1>1. CASE Len(id) \notin 1..64
  BY <1>1, Zenon DEF PlainId, ValidateId
<1>2. CASE Len(id) \in 1..64
  BY <1>2, IdCharacters, Zenon DEF PlainId, ValidateId
<1> QED BY <1>1, <1>2, Zenon

\* A connection as it stands in the document.
LEMMA ConnectionRule ==
  ASSUME NEW c \in RawConnections
  PROVE  ValidateRawConnection(c) <=>
           /\ PlainId(c.id)
           /\ Bounded(c.name, 64)
           /\ Bounded(c.group, 32) /\ c.group.shaped
           /\ Bounded(c.instance, 256) /\ c.instance.shaped
           /\ UsablePort(c.port)
           /\ c.address # Unset => Bounded(c.address, 253)
           /\ c.extra_args # Unset => FewArgs(c.extra_args)
<1>1. /\ c.id \in Seq(STRING) /\ c.name \in Texts /\ c.group \in Texts
      /\ c.instance \in Texts /\ (c.instance.shaped => c.instance.len > 0)
      /\ c.port \in Ports /\ (c.address # Unset => c.address \in Texts)
  BY DEF RawConnections, Optional, Instances
<1>2. PlainId(c.id) <=> ValidateId(c.id)
  BY <1>1, IdRule
<1>3. /\ Bounded(c.name, 64) <=> ValidateName(c.name)
      /\ Bounded(c.group, 32) /\ c.group.shaped <=> ValidateGroup(c.group)
      /\ Bounded(c.instance, 256) /\ c.instance.shaped <=> ValidateInstance(c.instance)
  BY <1>1, BoundedText DEF ValidateName, ValidateGroup, ValidateInstance, MAX_NAME_LEN,
                           MAX_GROUP_LEN, MAX_INSTANCE_LEN
<1>4. (c.address # Unset => Bounded(c.address, 253)) <=> IfSet(c.address, ValidateAddress)
  BY <1>1, BoundedText DEF IfSet, ValidateAddress, MAX_ADDRESS_LEN
<1>5. (c.extra_args # Unset => FewArgs(c.extra_args))
        <=> IfSet(c.extra_args, ValidateExtraArgs)
  BY ArgsRule DEF IfSet
<1>6. UsablePort(c.port) <=> ValidatePort(c.port)
  BY <1>1, PortRule
<1> QED BY <1>2, <1>3, <1>4, <1>5, <1>6 DEF ValidateRawConnection

\* A proxy binary is bounded when the config takes it, and the built-in one is.
LEMMA BinRule ==
  ASSUME NEW bin \in Optional(Texts)
  PROVE  (bin # Unset => Bounded(bin, 4095)) <=>
           /\ bin # Unset => bin.len # 0
           /\ BoundedAscii(ProxyBinOrDefault(bin), MAX_PROXY_BIN_LEN)
<1>1. CASE bin = Unset
  BY <1>1 DEF ProxyBinOrDefault, DEFAULT_PROXY_BIN, BoundedAscii, MAX_PROXY_BIN_LEN
<1>2. CASE bin # Unset
  <2>1. bin \in Texts /\ bin.len \in Nat
    BY <1>2 DEF Optional, Texts
  <2>2. Bounded(bin, 4095) <=> bin.len > 0 /\ BoundedAscii(bin, MAX_PROXY_BIN_LEN)
    BY <2>1, BoundedText DEF MAX_PROXY_BIN_LEN
  <2>3. bin.len > 0 <=> bin.len # 0
    BY <2>1
  <2> QED BY <1>2, <2>2, <2>3 DEF ProxyBinOrDefault
<1> QED BY <1>1, <1>2

\* The file's defaults are held to the rules of a connection's own values.
LEMMA DefaultsRule ==
  ASSUME NEW defaults \in RawDefaults
  PROVE  ValidateDefaults(defaults) <=>
           /\ defaults.address # Unset => Bounded(defaults.address, 253)
           /\ defaults.extra_args # Unset => FewArgs(defaults.extra_args)
<1>1. defaults.address # Unset => defaults.address \in Texts
  BY DEF RawDefaults, Optional
<1>2. (defaults.address # Unset => Bounded(defaults.address, 253))
        <=> IfSet(defaults.address, ValidateAddress)
  BY <1>1, BoundedText DEF IfSet, ValidateAddress, MAX_ADDRESS_LEN
<1>3. (defaults.extra_args # Unset => FewArgs(defaults.extra_args))
        <=> IfSet(defaults.extra_args, ValidateExtraArgs)
  BY ArgsRule DEF IfSet
<1> QED BY <1>2, <1>3 DEF ValidateDefaults

\* Nothing is repeated when the ids, the ports and the instances all differ.
LEMMA DifferRule ==
  ASSUME NEW cs
  PROVE  Repeats(cs) = {} <=>
           /\ AllDiffer([i \in 1..Len(cs) |-> cs[i].id])
           /\ AllDiffer([i \in 1..Len(cs) |-> cs[i].port])
           /\ AllDiffer([i \in 1..Len(cs) |-> cs[i].instance])
<1> DEFINE ids == [i \in 1..Len(cs) |-> cs[i].id]
           ports == [i \in 1..Len(cs) |-> cs[i].port]
           instances == [i \in 1..Len(cs) |-> cs[i].instance]
<1>1. Len(ids) = Len(cs) /\ Len(ports) = Len(cs) /\ Len(instances) = Len(cs)
  OBVIOUS
<1>2. \A i \in 1..Len(cs) : /\ ids[i] = cs[i].id
                            /\ ports[i] = cs[i].port
                            /\ instances[i] = cs[i].instance
  OBVIOUS
<1> HIDE DEF ids, ports, instances
<1>3. AllDiffer(ids) /\ AllDiffer(ports) /\ AllDiffer(instances) <=>
        \A i, j \in 1..Len(cs) : i # j => /\ cs[i].id # cs[j].id
                                          /\ cs[i].port # cs[j].port
                                          /\ cs[i].instance # cs[j].instance
  BY <1>1, <1>2 DEF AllDiffer
<1> QED BY <1>3, NothingRepeats DEF ids, ports, instances

\* The rules of the documentation are the rules parse asks.
LEMMA AcceptableIsKept ==
  ASSUME NEW doc \in Documents
  PROVE  Acceptable(doc) <=> Kept(doc)
<1> DEFINE cs == doc.connections
           Plain(c) == /\ PlainId(c.id)
                       /\ Bounded(c.name, 64)
                       /\ Bounded(c.group, 32) /\ c.group.shaped
                       /\ Bounded(c.instance, 256) /\ c.instance.shaped
                       /\ UsablePort(c.port)
           Fits(o) == /\ o.address # Unset => Bounded(o.address, 253)
                      /\ o.extra_args # Unset => FewArgs(o.extra_args)
<1>1. /\ doc.defaults \in RawDefaults /\ doc.proxy_bin \in Optional(Texts)
      /\ \A i \in 1..Len(cs) : cs[i] \in RawConnections
  BY DEF Documents
<1>2. \A i \in 1..Len(cs) : ValidateRawConnection(cs[i]) <=> Plain(cs[i]) /\ Fits(cs[i])
  BY <1>1, ConnectionRule
<1>3. ValidateDefaults(doc.defaults) <=> Fits(doc.defaults)
  BY <1>1, DefaultsRule
<1>4. (doc.proxy_bin # Unset => Bounded(doc.proxy_bin, 4095)) <=>
           /\ doc.proxy_bin # Unset => doc.proxy_bin.len # 0
           /\ BoundedAscii(ProxyBinOrDefault(doc.proxy_bin), MAX_PROXY_BIN_LEN)
  BY <1>1, BinRule
<1>5. Repeats(cs) = {} <=>
           /\ AllDiffer([i \in 1..Len(cs) |-> cs[i].id])
           /\ AllDiffer([i \in 1..Len(cs) |-> cs[i].port])
           /\ AllDiffer([i \in 1..Len(cs) |-> cs[i].instance])
  BY DifferRule
<1>6. Acceptable(doc) <=>
        /\ doc.version = 1
        /\ doc.proxy_bin # Unset => Bounded(doc.proxy_bin, 4095)
        /\ \A o \in {doc.defaults} \cup {cs[i] : i \in 1..Len(cs)} : Fits(o)
        /\ Len(cs) <= 32
        /\ \A i \in 1..Len(cs) : Plain(cs[i])
        /\ AllDiffer([i \in 1..Len(cs) |-> cs[i].id])
        /\ AllDiffer([i \in 1..Len(cs) |-> cs[i].port])
        /\ AllDiffer([i \in 1..Len(cs) |-> cs[i].instance])
  BY Zenon DEF Acceptable
<1>7. (\A o \in {doc.defaults} \cup {cs[i] : i \in 1..Len(cs)} : Fits(o))
        <=> Fits(doc.defaults) /\ \A i \in 1..Len(cs) : Fits(cs[i])
  <2> HIDE DEF Fits
  <2> QED OBVIOUS
<1>8. Len(cs) <= 32 <=> CheckConnectionCount(cs)
  BY DEF CheckConnectionCount, MAX_CONNECTIONS
<1> HIDE DEF Plain, Fits
<1> QED BY <1>2, <1>3, <1>4, <1>5, <1>6, <1>7, <1>8 DEF Kept

-----------------------------------------------------------------------------
(* The config.                                                             *)

\* What a load ends in.
LEMMA LoadOutcome ==
  ASSUME NEW f \in Files
  PROVE  \/ f = Unreadable /\ Load(f) = Refuse("Io")
         \/ f = Malformed /\ Load(f) = Refuse("Json")
         \/ f \in Documents /\ f.kind = "document" /\ Load(f) = Parse(f)
<1>1. CASE f = Unreadable
  BY <1>1 DEF Unreadable, Load
<1>2. CASE f = Malformed
  BY <1>2 DEF Malformed, Load
<1>3. CASE f \in Documents
  <2>1. f.kind = "document"
    BY <1>3 DEF Documents
  <2> QED BY <1>3, <2>1 DEF Load
<1> QED BY <1>1, <1>2, <1>3 DEF Files

\* Until the config is read the file is there, and what was read of it stays.
ConfigOK ==
  /\ pc \in {"arguments", "load"} => file \in Files /\ config = NotLoaded
  /\ \/ config \in {NotLoaded, Refuse("Io"), Refuse("Json")}
     \/ \E doc \in Documents : config = Parse(doc)

\* At first the file has not been read.
LEMMA ConfigInit == Init => ConfigOK
BY RequestsAssumption DEF Init, ConfigOK

\* Only LoadConfig touches the config, and nothing goes back to before it.
LEMMA ConfigFrame ==
  ASSUME Next, ~LoadConfig
  PROVE  /\ config' = config /\ file' = file
         /\ pc' = "load" => pc = "arguments"
         /\ pc' # "arguments"
<1> USE DEF RestOfDoctor, RestOfScan, Report, Exit, Learn
<1>1. CASE ValidateLines \/ Dump
  BY <1>1 DEF ValidateLines, Dump
<1>2. CASE ProxyBinCheck \/ SystemdUserCheck \/ AdcCheck \/ JournalUserCheck
  BY <1>2 DEF ProxyBinCheck, SystemdUserCheck, AdcCheck, JournalUserCheck
<1>3. CASE BeginScan
  BY <1>3 DEF BeginScan
<1>4. CASE ProbeTcp \/ AttributeListener
  BY <1>4 DEF ProbeTcp, AttributeListener
<1>5. CASE ShowUnit \/ ShowService
  BY <1>5 DEF ShowUnit, ShowService, CallFails
<1>6. CASE ClassifyPort \/ PortsCheck \/ PrintReport
  BY <1>6 DEF ClassifyPort, PortsCheck, PrintReport
<1>7. CASE World
  BY <1>7 DEF World, cliVars, Scanning
<1> QED BY <1>1, <1>2, <1>3, <1>4, <1>5, <1>6, <1>7 DEF Next, LogsStep, DoctorStep

\* Every step keeps it so.
LEMMA ConfigStep == ASSUME ConfigOK, [Next]_vars PROVE ConfigOK'
<1>1. CASE LoadConfig
  <2>1. file \in Files /\ config' = Load(file) /\ pc' \notin {"arguments", "load"}
    BY <1>1 DEF LoadConfig, ConfigOK, Exit
  <2> QED BY <2>1, LoadOutcome DEF ConfigOK
<1>2. CASE Next /\ ~LoadConfig
  BY <1>2, ConfigFrame DEF ConfigOK
<1>3. CASE UNCHANGED vars
  BY <1>3 DEF ConfigOK, vars, cliVars
<1> QED BY <1>1, <1>2, <1>3

\* What is known of the config holds throughout.
LEMMA ConfigInvariance == Spec => []ConfigOK
BY ConfigInit, ConfigStep, PTL DEF Spec

\* A document is accepted when it keeps every documented rule, and only then
\* (config::parse, src/config.rs:83).
THEOREM LoadingIsExact == Spec => LoadIsExact
<1>1. ASSUME ConfigOK, [Next]_vars
      PROVE  [pc = "load" =>
                (config'.error = "none" <=> file.kind = "document" /\ Acceptable(file))]_vars
  <2>1. SUFFICES ASSUME pc = "load", ~UNCHANGED vars
                 PROVE  config'.error = "none"
                          <=> file.kind = "document" /\ Acceptable(file)
    OBVIOUS
  <2>2. LoadConfig
    BY <1>1, <2>1
       DEF Next, LogsStep, DoctorStep, ValidateLines, Dump, ProxyBinCheck, SystemdUserCheck,
           AdcCheck, JournalUserCheck, BeginScan, ProbeTcp, AttributeListener, ShowUnit,
           ShowService, ClassifyPort, PortsCheck, PrintReport, World, Scanning
  <2>3. file \in Files /\ config' = Load(file)
    BY <1>1, <2>1, <2>2 DEF ConfigOK, LoadConfig
  <2>4. CASE file = Unreadable \/ file = Malformed
    BY <2>3, <2>4, LoadOutcome DEF Refuse, Unreadable, Malformed
  <2>5. CASE file \in Documents /\ file.kind = "document" /\ Load(file) = Parse(file)
    BY <2>3, <2>5, ParseIsExact, AcceptableIsKept
  <2> QED BY <2>3, <2>4, <2>5, LoadOutcome
<1> QED BY <1>1, ConfigInvariance, PTL DEF Spec, LoadIsExact

\* A config that is in use comes from a document that keeps every rule.
LEMMA InUse ==
  ASSUME ConfigOK, config.error = "none"
  PROVE  \E doc \in Documents :
           Kept(doc) /\ config = Loaded(ProxyBinOrDefault(doc.proxy_bin), Merged(doc))
<1>1. PICK doc \in Documents : config = Parse(doc)
  BY DEF ConfigOK, NotLoaded, Refuse
<1>2. Kept(doc) /\ config = Loaded(ProxyBinOrDefault(doc.proxy_bin), Merged(doc))
  BY <1>1, ParseIsExact
<1> QED BY <1>2

\* What a Connection ends up with is within the limits.
LEMMA MergedValid ==
  ASSUME NEW doc \in Documents, Kept(doc), NEW i \in 1..Len(doc.connections),
         NEW c, c = MergeConnection(doc.defaults, doc.connections[i])
  PROVE  /\ Bounded(c.address, 253) /\ FewArgs(c.extra_args)
         /\ c.private_ip \in BOOLEAN /\ c.auto_iam_authn \in BOOLEAN /\ c.enabled \in BOOLEAN
<1> DEFINE raw == doc.connections[i]
<1>1. /\ doc.defaults \in RawDefaults /\ raw \in RawConnections
      /\ ValidateDefaults(doc.defaults) /\ ValidateRawConnection(raw)
  BY DEF Documents, Kept
<1> HIDE DEF raw
<1>2. /\ c \in Connections
      /\ c.address = Pick(raw.address, doc.defaults.address, DEFAULT_ADDRESS)
      /\ c.extra_args = Pick(raw.extra_args, doc.defaults.extra_args, <<>>)
  <2>1. c = MergeConnection(doc.defaults, raw)
    BY DEF raw
  <2> QED BY <1>1, <2>1, MergeTyped
<1>3. /\ raw.address # Unset => Bounded(raw.address, 253)
      /\ raw.extra_args # Unset => FewArgs(raw.extra_args)
  BY <1>1, ConnectionRule
<1>4. /\ doc.defaults.address # Unset => Bounded(doc.defaults.address, 253)
      /\ doc.defaults.extra_args # Unset => FewArgs(doc.defaults.extra_args)
  BY <1>1, DefaultsRule
<1>5. Bounded(DEFAULT_ADDRESS, 253)
  BY DEF Bounded, DEFAULT_ADDRESS
<1>6. FewArgs(<<>>)
  BY NoArgsNoLength DEF FewArgs
<1>7. Bounded(c.address, 253)
  BY <1>2, <1>3, <1>4, <1>5 DEF Pick
<1>8. FewArgs(c.extra_args)
  BY <1>2, <1>3, <1>4, <1>6 DEF Pick
<1> QED BY <1>2, <1>7, <1>8 DEF Connections

\* docs/config.v1.md, "Merge order": every value that a Connection ends up with
\* is within the limits (src/config.rs:202).
THEOREM MergedConnectionsAreValid == Spec => []MergedIsValid
<1>1. ASSUME ConfigOK PROVE MergedIsValid
  <2>1. SUFFICES ASSUME config.error = "none", NEW i \in 1..Len(config.connections),
                        NEW c, c = config.connections[i]
                 PROVE  /\ Bounded(c.address, 253) /\ FewArgs(c.extra_args)
                        /\ c.private_ip \in BOOLEAN /\ c.auto_iam_authn \in BOOLEAN
                        /\ c.enabled \in BOOLEAN
    BY DEF MergedIsValid
  <2>2. PICK doc \in Documents : Kept(doc) /\ config.connections = Merged(doc)
    BY <1>1, <2>1, InUse DEF Loaded
  <2>3. /\ i \in 1..Len(doc.connections)
        /\ c = MergeConnection(doc.defaults, doc.connections[i])
    BY <2>1, <2>2, MergedTyped
  <2> QED BY <2>2, <2>3, MergedValid
<1> QED BY <1>1, ConfigInvariance, PTL

\* The ids of the Connections in use are valid, and all differ.
LEMMA IdsInUse ==
  ASSUME NEW doc \in Documents, Kept(doc), NEW loaded, loaded.connections = Merged(doc)
  PROVE  \A i \in 1..Len(loaded.connections) :
           /\ loaded.connections[i].id \in Seq(STRING)
           /\ ValidateId(loaded.connections[i].id)
           /\ \A j \in 1..Len(loaded.connections) :
                i # j => loaded.connections[i].id # loaded.connections[j].id
<1> DEFINE raws == doc.connections
<1>2. /\ doc.defaults \in RawDefaults
      /\ \A i \in 1..Len(raws) : raws[i] \in RawConnections /\ ValidateRawConnection(raws[i])
      /\ Repeats(raws) = {}
  BY DEF Documents, Kept
<1>3. /\ Len(loaded.connections) = Len(raws)
      /\ \A i \in 1..Len(raws) : loaded.connections[i].id = raws[i].id
  BY <1>2, MergedTyped, MergeTyped
<1> HIDE DEF raws
<1>4. \A i, j \in 1..Len(raws) : i # j => raws[i].id # raws[j].id
  BY <1>2, NothingRepeats
<1>5. \A i \in 1..Len(raws) : raws[i].id \in Seq(STRING) /\ ValidateId(raws[i].id)
  BY <1>2 DEF ValidateRawConnection, RawConnections
<1> QED BY <1>3, <1>4, <1>5

\* No two Connections share a Unit (unit_name in src/model.rs, validate_id in
\* src/config.rs).
THEOREM NoSharedUnit == Spec => []UnitsAreDistinct
<1>1. ASSUME ConfigOK PROVE UnitsAreDistinct
  <2>1. SUFFICES ASSUME config.error = "none",
                        NEW i \in 1..Len(config.connections),
                        NEW j \in 1..Len(config.connections)
                 PROVE  LET Name(k) == UnitNameOf(config.connections[k].id) IN
                        Name(i).error = "none" /\ (i # j => Name(i) # Name(j))
    BY DEF UnitsAreDistinct
  <2>0. PICK doc \in Documents : Kept(doc) /\ config.connections = Merged(doc)
    BY <1>1, <2>1, InUse DEF Loaded
  <2>2. /\ UnitNameOf(config.connections[i].id) = Named(config.connections[i].id)
        /\ UnitNameOf(config.connections[j].id) = Named(config.connections[j].id)
    BY <2>0, <2>1, IdsInUse, ValidIdIsItsUnit
  <2>3. i # j => config.connections[i].id # config.connections[j].id
    BY <2>0, <2>1, IdsInUse
  <2> QED BY <2>2, <2>3 DEF Named
<1> QED BY <1>1, ConfigInvariance, PTL

-----------------------------------------------------------------------------
(* The Unit name of any id, valid or not.                                  *)

\* One turn of collapse_repeated_dashes.
OneMore(out, c) == IF c = "-" /\ out # <<>> /\ Last(out) = "-" THEN out ELSE Append(out, c)

Collapses(f, s) ==
  f = [S \in SUBSET (DOMAIN s) |->
         IF S = {} THEN <<>> ELSE LET x == Max(S) IN OneMore(f[S \ {x}], s[x])]

LEMMA CollapseIsAFold ==
  ASSUME NEW s
  PROVE  CollapseRepeatedDashes(s) = (CHOOSE f : Collapses(f, s))[DOMAIN s]
BY Zenon DEF CollapseRepeatedDashes, FoldLeft, MapThenFoldSet, Collapses, OneMore

SingleDashes(s) == \A i \in 1..(Len(s) - 1) : ~(s[i] = "-" /\ s[i + 1] = "-")

\* What has become of the first k characters: no dash beside a dash, and of the
\* other characters none is lost.
Collapsed(out, s, k) ==
  /\ SingleDashes(out)
  /\ \A i \in 1..k : s[i] # "-" => \E j \in 1..Len(out) : out[j] = s[i]

\* Each turn keeps it so.
LEMMA OneMoreCollapses ==
  ASSUME NEW T, NEW s \in Seq(T), NEW k \in 1..Len(s), NEW out \in Seq(T),
         Collapsed(out, s, k - 1)
  PROVE  OneMore(out, s[k]) \in Seq(T) /\ Collapsed(OneMore(out, s[k]), s, k)
<1>1. s[k] \in T
  OBVIOUS
<1>2. CASE s[k] = "-" /\ out # <<>> /\ Last(out) = "-"
  <2>1. OneMore(out, s[k]) = out
    BY <1>2 DEF OneMore
  <2> QED BY <1>2, <2>1 DEF Collapsed
<1>3. CASE ~(s[k] = "-" /\ out # <<>> /\ Last(out) = "-")
  <2> DEFINE new == Append(out, s[k])
             n == Len(out)
  <2>1. OneMore(out, s[k]) = new
    BY <1>3 DEF OneMore
  <2>2. /\ new \in Seq(T) /\ Len(new) = n + 1 /\ new[n + 1] = s[k] /\ n \in Nat
        /\ \A i \in 1..n : new[i] = out[i]
    BY <1>1
  <2>3. n > 0 => out # <<>>
    OBVIOUS
  <2> HIDE DEF new
  <2>4. SingleDashes(new)
    <3>1. SUFFICES ASSUME NEW i \in 1..n, new[i] = "-", new[i + 1] = "-" PROVE FALSE
      BY <2>2 DEF SingleDashes
    <3>2. CASE i < n
      BY <2>2, <3>1, <3>2 DEF Collapsed, SingleDashes
    <3>3. CASE i = n
      BY <1>3, <2>2, <2>3, <3>1, <3>3 DEF Last
    <3> QED BY <2>2, <3>2, <3>3
  <2>5. ASSUME NEW i \in 1..k, s[i] # "-" PROVE \E j \in 1..Len(new) : new[j] = s[i]
    <3>1. CASE i = k
      <4>1. n + 1 \in 1..Len(new)
        BY <2>2
      <4> QED BY <2>2, <3>1, <4>1
    <3>2. CASE i # k
      <4>1. i \in 1..(k - 1)
        BY <3>2
      <4>2. PICK j \in 1..n : out[j] = s[i]
        BY <2>5, <4>1 DEF Collapsed
      <4>3. j \in 1..Len(new) /\ new[j] = s[i]
        BY <2>2, <4>2
      <4> QED BY <4>3
    <3> QED BY <3>1, <3>2
  <2> QED BY <2>1, <2>2, <2>4, <2>5 DEF Collapsed
<1> QED BY <1>2, <1>3

\* The fold over a whole text.
LEMMA CollapseCollapses ==
  ASSUME NEW T, NEW s \in Seq(T)
  PROVE  /\ CollapseRepeatedDashes(s) \in Seq(T)
         /\ Collapsed(CollapseRepeatedDashes(s), s, Len(s))
<1> DEFINE n == Len(s)
           step == [p \in Seq(T) \X (1..n) |-> OneMore(p[1], s[p[2]])]
           chosen == CHOOSE f : Collapses(f, s)
<1>1. n \in Nat /\ DOMAIN s = 1..n /\ \A i \in 1..n : s[i] \in T
  OBVIOUS
<1>2. step \in [Seq(T) \X (1..n) -> Seq(T)]
  <2>1. \A p \in Seq(T) \X (1..n) : OneMore(p[1], s[p[2]]) \in Seq(T)
    BY <1>1 DEF OneMore
  <2> QED BY <2>1
<1>3. <<>> \in Seq(T)
  OBVIOUS
<1>4. \A out \in Seq(T), i \in 1..n : step[<<out, i>>] = OneMore(out, s[i])
  OBVIOUS
<1> HIDE DEF step
<1>5. PICK f \in [SUBSET (1..n) -> Seq(T)] : FoldsTo(f, n, <<>>, step)
  BY <1>1, <1>2, <1>3, FoldExists
<1>6. Collapses(f, s)
  <2>1. ASSUME NEW S \in SUBSET (1..n)
        PROVE  f[S] = IF S = {} THEN <<>> ELSE LET x == Max(S) IN OneMore(f[S \ {x}], s[x])
    <3>1. CASE S = {}
      BY <1>5, <3>1 DEF FoldsTo
    <3>2. CASE S # {}
      <4>1. Max(S) \in 1..n
        BY <1>1, <3>2, MaxIsGreatest
      <4>2. f[S \ {Max(S)}] \in Seq(T)
        OBVIOUS
      <4>3. f[S] = step[<<f[S \ {Max(S)}], Max(S)>>]
        BY <1>5, <3>2 DEF FoldsTo
      <4>4. f[S] = OneMore(f[S \ {Max(S)}], s[Max(S)])
        BY <1>4, <4>1, <4>2, <4>3
      <4> QED BY <3>2, <4>4
    <3> QED BY <3>1, <3>2
  <2> QED BY <1>1, <2>1 DEF Collapses
<1>7. Collapses(chosen, s)
  BY <1>6, Zenon
<1> HIDE DEF chosen
<1>8. \A S \in SUBSET (1..n) :
        chosen[S] = IF S = {} THEN <<>> ELSE OneMore(chosen[S \ {Max(S)}], s[Max(S)])
  BY <1>1, <1>7 DEF Collapses
<1>9. chosen[1..0] = <<>>
  <2>1. 1..0 = {} /\ {} \in SUBSET (1..n)
    OBVIOUS
  <2> QED BY <1>8, <2>1
<1>10. ASSUME NEW k \in 1..n PROVE chosen[1..k] = OneMore(chosen[1..(k - 1)], s[k])
  <2>1. k \in Nat \ {0} /\ 1..k \in SUBSET (1..n)
    BY <1>1
  <2>2. Max(1..k) = k /\ (1..k) \ {k} = 1..(k - 1) /\ 1..k # {}
    BY <2>1, MaxOfPrefix
  <2>3. chosen[1..k] = OneMore(chosen[(1..k) \ {Max(1..k)}], s[Max(1..k)])
    BY <1>8, <2>1, <2>2
  <2> QED BY <2>2, <2>3
<1> DEFINE P == {k \in 0..n : chosen[1..k] \in Seq(T) /\ Collapsed(chosen[1..k], s, k)}
<1>11. 0 \in P
  <2>1. Collapsed(<<>>, s, 0)
    BY DEF Collapsed, SingleDashes
  <2>2. chosen[1..0] \in Seq(T) /\ Collapsed(chosen[1..0], s, 0)
    BY <1>3, <1>9, <2>1, Zenon
  <2>3. 0 \in 0..n
    BY <1>1
  <2> QED BY <2>2, <2>3, Zenon
<1>12. ASSUME NEW k \in 1..n, k - 1 \in P PROVE k \in P
  BY <1>1, <1>10, <1>12, OneMoreCollapses
<1> HIDE DEF P
<1>13. n \in P
  <2>1. \A k \in 0..n : k \in P
    BY <1>1, <1>11, <1>12, BoundedInduction, Zenon
  <2>2. n \in 0..n
    BY <1>1
  <2> QED BY <2>1, <2>2
<1> QED BY <1>1, <1>13, CollapseIsAFold DEF P, chosen

\* What is left between the first and the last character that is no dot or dash.
LEMMA TrimmedIsInside ==
  ASSUME NEW T, NEW s \in Seq(T)
  PROVE  /\ Trimmed(s) \in Seq(T)
         /\ Trimmed(s) = <<>> <=> \A i \in 1..Len(s) : s[i] \in {".", "-"}
         /\ Trimmed(s) # <<>> =>
              /\ Len(Trimmed(s)) \in Nat \ {0}
              /\ Trimmed(s)[1] \notin {".", "-"}
              /\ Trimmed(s)[Len(Trimmed(s))] \notin {".", "-"}
         /\ SingleDashes(s) => SingleDashes(Trimmed(s))
<1> DEFINE kept == {i \in 1..Len(s) : s[i] \notin {".", "-"}}
           a == Min(kept)
           b == Max(kept)
<1>1. Len(s) \in Nat /\ kept \in SUBSET (1..Len(s))
  OBVIOUS
<1>2. CASE kept = {}
  <2>1. Trimmed(s) = <<>>
    BY <1>2 DEF Trimmed
  <2> QED BY <1>2, <2>1 DEF SingleDashes
<1>3. CASE kept # {}
  <2>1. a \in kept /\ b \in kept /\ a <= b
    BY <1>1, <1>3, MinIsLeast, MaxIsGreatest
  <2>2. Trimmed(s) = SubSeq(s, a, b)
    BY <1>3 DEF Trimmed
  <2>3. /\ a \in 1..Len(s) /\ b \in 1..Len(s)
        /\ s[a] \notin {".", "-"} /\ s[b] \notin {".", "-"}
    BY <2>1
  <2> HIDE DEF a, b, kept
  <2> DEFINE t == SubSeq(s, a, b)
  <2>4. /\ t \in Seq(T) /\ Len(t) = b - a + 1
        /\ \A i \in 1..(b - a + 1) : t[i] = s[a + i - 1]
    BY <1>1, <2>1, <2>3
  <2>5. Len(t) \in Nat \ {0} /\ t # <<>> /\ t[1] = s[a] /\ t[Len(t)] = s[b]
    BY <1>1, <2>1, <2>3, <2>4
  <2> HIDE DEF t
  <2>6. SingleDashes(s) => SingleDashes(t)
    <3>1. SUFFICES ASSUME SingleDashes(s), NEW i \in 1..(Len(t) - 1),
                          t[i] = "-", t[i + 1] = "-"
                   PROVE  FALSE
      BY DEF SingleDashes
    <3>2. /\ a + i - 1 \in 1..(Len(s) - 1)
          /\ t[i] = s[a + i - 1] /\ t[i + 1] = s[(a + i - 1) + 1]
      BY <1>1, <2>1, <2>3, <2>4
    <3> QED BY <3>1, <3>2 DEF SingleDashes
  <2> QED BY <2>2, <2>3, <2>4, <2>5, <2>6 DEF t
<1> QED BY <1>2, <1>3

UnitSafe == IdSafe \cup {":", ".", ","}

\* Whatever the id, its Unit name is made of characters a unit name may have, is
\* no longer than systemd allows and begins with no dot or dash; an id that is
\* not used as it is leaves no dot or dash at the end and no two dashes together;
\* and only an id without a character worth keeping has no name for being empty
\* (unit_name, sanitize_unit_id, collapse_repeated_dashes, src/model.rs:55-121).
THEOREM UnitNamesAreSafe ==
  ASSUME NEW Chars, NEW id \in Seq(Chars)
  PROVE  LET name == UnitNameOf(id) IN
         /\ name.error \in {"none", "Empty", "TooLong"}
         /\ name.error = "none" =>
              /\ name.core \in Seq(UnitSafe)
              /\ Len(name.core) \in 1..(MAX_UNIT_NAME_LEN - AffixLen)
              /\ name.core[1] \notin {".", "-"}
              /\ \/ IsConfigValidId(id) /\ name.core = id
                 \/ /\ name.core[Len(name.core)] \notin {".", "-"}
                    /\ SingleDashes(name.core)
         /\ name.error = "Empty" <=>
              \A i \in 1..Len(id) : IsUnitSafeChar(id[i]) => id[i] \in {".", "-"}
<1> DEFINE core == UnitCore(id)
           mapped == [i \in 1..Len(id) |-> IF IsUnitSafeChar(id[i]) THEN id[i] ELSE "-"]
           Bare == \A i \in 1..Len(id) : IsUnitSafeChar(id[i]) => id[i] \in {".", "-"}
<1>a. \A c : c \in UnitSafe <=> IsUnitSafeChar(c)
  BY Zenon DEF UnitSafe, IsUnitSafeChar
<1>1. Len(id) \in Nat /\ \A c : c \in UnitSafe <=> IsUnitSafeChar(c)
  BY <1>a
<1>2. /\ core \in Seq(UnitSafe)
      /\ core = <<>> <=> Bare
      /\ core # <<>> =>
           /\ Len(core) \in Nat \ {0}
           /\ core[1] \notin {".", "-"}
           /\ \/ IsConfigValidId(id) /\ core = id
              \/ core[Len(core)] \notin {".", "-"} /\ SingleDashes(core)
  <2>1. CASE IsConfigValidId(id)
    <3>1. core = id /\ 1 \in 1..Len(id) /\ id # <<>>
      BY <1>1, <2>1 DEF UnitCore, IsConfigValidId
    <3>2. \A i \in 1..Len(id) : id[i] \in IdSafe
      <4>1. id[1] \in IdSafe /\ \A i \in 2..Len(id) : id[i] \in IdSafe
        BY <2>1, Zenon DEF IsConfigValidId, IdSafe
      <4> QED BY <1>1, <4>1
    <3>3. \A i \in 1..Len(id) : id[i] \in UnitSafe
      BY <3>2, Zenon DEF UnitSafe
    <3>4. id \in Seq(UnitSafe)
      BY <3>3
    <3>5. id[1] \notin {".", "-"}
      <4>1. id[1] \in Alphanumerics
        BY <2>1 DEF IsConfigValidId
      <4> QED BY <4>1, AlphanumericsAssumption, Zenon
    <3>6. ~Bare
      BY <1>1, <3>1, <3>3, <3>5
    <3> QED BY <1>1, <2>1, <3>1, <3>4, <3>5, <3>6
  <2>2. CASE ~IsConfigValidId(id)
    <3> DEFINE out == CollapseRepeatedDashes(mapped)
    <3>1. core = Trimmed(out)
      BY <2>2 DEF UnitCore, SanitizeUnitId
    <3>2. "-" \in UnitSafe
      BY DEF UnitSafe, IdSafe, IsUnitSafeChar
    <3>3. /\ mapped \in Seq(UnitSafe) /\ Len(mapped) = Len(id)
          /\ \A i \in 1..Len(id) :
               mapped[i] = IF IsUnitSafeChar(id[i]) THEN id[i] ELSE "-"
      BY <1>1, <3>2
    <3>4. Bare => mapped \in Seq({".", "-"})
      BY <1>1
    <3> HIDE DEF mapped
    <3>5. out \in Seq(UnitSafe) /\ Collapsed(out, mapped, Len(id))
      BY <3>3, CollapseCollapses
    <3>6. Bare => out \in Seq({".", "-"})
      BY <3>4, CollapseCollapses
    <3> HIDE DEF out
    <3>7. Bare => \A i \in 1..Len(out) : out[i] \in {".", "-"}
      BY <3>6
    <3>8. ASSUME \A i \in 1..Len(out) : out[i] \in {".", "-"} PROVE Bare
      <4>1. SUFFICES ASSUME NEW i \in 1..Len(id), IsUnitSafeChar(id[i]),
                            id[i] \notin {".", "-"}
                     PROVE  FALSE
        OBVIOUS
      <4>2. mapped[i] = id[i]
        BY <3>3, <4>1
      <4>3. \E j \in 1..Len(out) : out[j] = mapped[i]
        BY <3>5, <4>1, <4>2 DEF Collapsed
      <4> QED BY <3>8, <4>1, <4>2, <4>3
    <3>9. SingleDashes(out)
      BY <3>5 DEF Collapsed
    <3> HIDE DEF core, Bare
    <3>10. /\ core \in Seq(UnitSafe)
           /\ core = <<>> <=> \A i \in 1..Len(out) : out[i] \in {".", "-"}
           /\ core # <<>> =>
                /\ Len(core) \in Nat \ {0}
                /\ core[1] \notin {".", "-"}
                /\ core[Len(core)] \notin {".", "-"}
           /\ SingleDashes(core)
      BY <3>1, <3>5, <3>9, TrimmedIsInside
    <3> QED BY <3>7, <3>8, <3>10
  <2> QED BY <2>1, <2>2
<1> HIDE DEF core, Bare
<1>3. UnitNameOf(id) = CASE core = <<>> -> Unnamed("Empty")
                         [] Len(core) + AffixLen > MAX_UNIT_NAME_LEN -> Unnamed("TooLong")
                         [] OTHER -> Named(core)
  BY DEF UnitNameOf, core
<1>4. CASE core = <<>>
  <2>1. UnitNameOf(id) = Unnamed("Empty")
    <3>1. ~(Len(core) + AffixLen > MAX_UNIT_NAME_LEN)
      BY <1>4 DEF AffixLen, MAX_UNIT_NAME_LEN
    <3> QED BY <1>3, <1>4, <3>1
  <2> QED BY <1>2, <1>4, <2>1 DEF Unnamed, Bare
<1>5. CASE core # <<>> /\ Len(core) + AffixLen > MAX_UNIT_NAME_LEN
  <2>1. UnitNameOf(id) = Unnamed("TooLong")
    BY <1>3, <1>5
  <2> QED BY <1>2, <1>5, <2>1 DEF Unnamed, Bare
<1>6. CASE core # <<>> /\ ~(Len(core) + AffixLen > MAX_UNIT_NAME_LEN)
  <2>1. UnitNameOf(id) = Named(core)
    BY <1>3, <1>6
  <2>2. UnitNameOf(id).error = "none" /\ UnitNameOf(id).core = core
    BY <2>1 DEF Named
  <2>3. Len(core) \in 1..(MAX_UNIT_NAME_LEN - AffixLen)
    <3>1. \A n \in Nat \ {0} : ~(n + AffixLen > MAX_UNIT_NAME_LEN)
                                => n \in 1..(MAX_UNIT_NAME_LEN - AffixLen)
      BY DEF AffixLen, MAX_UNIT_NAME_LEN
    <3>2. Len(core) \in Nat \ {0}
      BY <1>2, <1>6
    <3> QED BY <1>6, <3>1, <3>2, Zenon
  <2> QED BY <1>2, <1>6, <2>2, <2>3 DEF Bare
<1> QED BY <1>4, <1>5, <1>6

-----------------------------------------------------------------------------
(* A scan: what it has read was so at some time since it began.            *)

\* What a port of ours changes hands through: somebody else, or nobody.
LEMMA OneHolder ==
  ASSUME UnitOK, WorldStep \/ Rivals, port \in Nat, port' \in Nat
  PROVE  port' = port
<1> USE NoneAssumption, ForeignAssumption
<1>1. CASE BindsPort \/ ClosesPort \/ ForeignBinds \/ ForeignLeaves
  BY <1>1 DEF BindsPort, ClosesPort, ForeignBinds, ForeignLeaves
<1>2. CASE ExecFails \/ ProxyCrashes \/ ProxyExits \/ StopsCleanly \/ StopFails
  BY <1>2 DEF ExecFails, ProxyCrashes, ProxyExits, StopsCleanly, StopFails, Ends, FreedBy
<1>3. CASE DispatchStart \/ ExecSucceeds \/ DispatchStop \/ Unloads \/ StartAges
  BY <1>3 DEF DispatchStart, ExecSucceeds, DispatchStop, Unloads, StartAges
<1>4. CASE Rivals
  BY <1>4 DEF Rivals, CreateUnit, QueueStop
<1> QED BY <1>1, <1>2, <1>3, <1>4 DEF WorldStep, ManagerStep

\* What a step of the world keeps.
LEMMA RivalWorldOK == ASSUME UnitOK, WorldStep \/ Rivals PROVE UnitOK'
BY WorldStepOK, CreateUnitOK, QueueStopOK DEF Rivals

ScanTyped ==
  scan \in [probe : {"none", "open", "closed", "unreachable"},
            listener : Nat \cup {Foreign, None},
            main_pid : Nat \cup {None}, failed : BOOLEAN]

\* The port's holders since the scan began include the present one, whoever was
\* seen to listen, and nobody if the port was seen closed; while all of them
\* are processes of ours there is one, and MainPID was its.
ScanOK ==
  /\ UnitOK
  /\ ScanTyped
  /\ pc \in Scanning =>
       /\ port \in holders
       /\ holders \subseteq Nat => holders = {port}
       /\ pc # "probe" => scan.probe # "none"
       /\ scan.probe = "closed" => None \in holders
       /\ scan.listener # None => scan.listener \in holders
  /\ pc \in {"attribute", "get_unit", "get_service"} => ~scan.failed
  /\ pc = "classify" /\ scan.probe = "open" /\ ~scan.failed /\ holders \subseteq Nat =>
       scan.main_pid = port
  /\ pc \notin Scanning => scan = NoScan
  /\ pc = "probe" => scan = NoScan

\* At first nothing is scanned.
LEMMA ScanInit == Init => ScanOK
<1> SUFFICES ASSUME Init PROVE ScanOK
  OBVIOUS
<1>1. UnitOK
  BY NoneAssumption, AbsentAssumption DEF Init, UnitOK, UnitTypeOK, UnitConsistent
<1>2. pc \notin Scanning /\ pc \notin {"attribute", "get_unit", "get_service", "classify", "probe"}
  BY DEF Init, Scanning
<1>3. scan = NoScan /\ NoScan \in [probe : {"none", "open", "closed", "unreachable"},
            listener : Nat \cup {Foreign, None},
            main_pid : Nat \cup {None}, failed : BOOLEAN]
  BY DEF Init, NoScan
<1> QED BY <1>1, <1>2, <1>3 DEF ScanOK, ScanTyped

\* The steps that are no part of a scan.
LEMMA OutsideScan ==
  ASSUME ScanOK, UNCHANGED <<scan, unitVars>>, pc \notin Scanning, pc' \notin Scanning
  PROVE  ScanOK'
BY DEF ScanOK, ScanTyped, UnitOK, UnitTypeOK, UnitConsistent, MainPid, HasProcess, unitVars,
       Scanning

\* The world moves.
LEMMA ScanWorld == ASSUME ScanOK, World PROVE ScanOK'
<1>1. UnitOK' /\ scan' = scan /\ pc' = pc /\ pc \in Scanning /\ port \in holders
      /\ holders' = holders \cup {port'} /\ (WorldStep \/ Rivals)
  BY RivalWorldOK DEF World, ScanOK, cliVars
<1>2. holders' \subseteq Nat => holders' = {port'} /\ port' = port /\ holders \subseteq Nat
  <2>1. SUFFICES ASSUME holders' \subseteq Nat
                 PROVE  holders' = {port'} /\ port' = port /\ holders \subseteq Nat
    OBVIOUS
  <2>2. port' = port
    BY <1>1, <2>1, OneHolder DEF ScanOK
  <2>3. holders = {port}
    BY <1>1, <2>1 DEF ScanOK
  <2> QED BY <1>1, <2>1, <2>2, <2>3
<1> QED BY <1>1, <1>2 DEF ScanOK, ScanTyped

\* A scan begins.
LEMMA ScanBegins == ASSUME ScanOK, BeginScan PROVE ScanOK'
<1>1. CASE pc' = "probe" /\ NextWorld
  <2>1. UnitOK'
    BY <1>1, TurnToWorldOK DEF NextWorld
  <2>2. holders' = {port'}
    BY <1>1 DEF NextWorld
  <2>3. scan' = NoScan /\ ScanTyped'
    BY DEF BeginScan, ScanOK, ScanTyped, Scanning
  <2> QED BY <1>1, <2>1, <2>2, <2>3 DEF ScanOK, NoScan, Scanning
<1>2. CASE UNCHANGED <<pc, holders, unitVars>>
  BY <1>2, OutsideScan DEF BeginScan, Scanning
<1> QED BY <1>1, <1>2 DEF BeginScan

\* The port is probed.
LEMMA ScanProbes == ASSUME ScanOK, ProbeTcp PROVE ScanOK'
<1>1. UNCHANGED <<holders, unitVars>> /\ pc = "probe" /\ pc' = "attribute" /\ scan = NoScan
  BY DEF ProbeTcp, Learn, SameWorld, ScanOK
<1>2. PICK answer \in {"open", "closed", "unreachable"} :
        /\ scan' = [NoScan EXCEPT !.probe = answer]
        /\ answer = "closed" => port = None
  BY <1>1 DEF ProbeTcp, Learn
<1>3. UnitOK'
  BY <1>1 DEF ScanOK, UnitOK, UnitTypeOK, UnitConsistent, MainPid, HasProcess, unitVars
<1> QED BY <1>1, <1>2, <1>3 DEF ScanOK, ScanTyped, NoScan, Scanning, unitVars

\* While it is scanned nothing but the world moves the Unit.
LEMMA SameUnitOK == ASSUME UnitOK, UNCHANGED unitVars PROVE UnitOK'
BY DEF UnitOK, UnitTypeOK, UnitConsistent, MainPid, HasProcess, unitVars

\* A port that is a process of ours is the MainPID of a unit that is there.
LEMMA OurPort == ASSUME UnitOK, port \in Nat PROVE MainPid = port /\ unit # Absent
BY NoneAssumption DEF UnitOK, UnitConsistent, MainPid, HasProcess

\* Its listener is looked for.
LEMMA ScanAttributes == ASSUME ScanOK, AttributeListener PROVE ScanOK'
<1>1. UNCHANGED <<holders, unitVars>> /\ pc = "attribute"
  BY DEF AttributeListener, SameWorld
<1>2. PICK listener \in {port, None} : scan' = [scan EXCEPT !.listener = listener]
  BY DEF AttributeListener, ListenersSeen, Learn
<1>3. pc' = IF scan.probe = "open" THEN "get_unit" ELSE "classify"
  BY DEF AttributeListener, Learn
<1>4. UnitOK' /\ port \in Nat \cup {Foreign, None}
  BY <1>1, SameUnitOK DEF ScanOK, UnitOK, UnitTypeOK
<1>5. ScanTyped' /\ scan'.probe = scan.probe /\ scan'.listener \in {port, None}
      /\ scan'.failed = scan.failed
  BY <1>2, <1>4 DEF ScanOK, ScanTyped
<1>6. pc' \in Scanning /\ pc \in Scanning /\ pc' # "probe"
  BY <1>1, <1>3 DEF Scanning
<1> QED BY <1>1, <1>3, <1>4, <1>5, <1>6 DEF ScanOK, unitVars

\* The manager is asked for the Unit.
LEMMA ScanAsksUnit == ASSUME ScanOK, ShowUnit PROVE ScanOK'
<1>1. UNCHANGED <<holders, unitVars>> /\ pc = "get_unit"
  BY DEF ShowUnit, SameWorld
<1>2. UnitOK'
  BY <1>1, SameUnitOK DEF ScanOK
<1>3. pc \in Scanning /\ pc # "probe"
  BY <1>1 DEF Scanning
<1>4. CASE unit = Absent /\ pc' = "classify" /\ scan' = scan
  <2>1. ~(holders \subseteq Nat)
    BY <1>3, <1>4, OurPort DEF ScanOK
  <2> QED BY <1>1, <1>2, <1>3, <1>4, <2>1 DEF ScanOK, ScanTyped, unitVars, Scanning
<1>5. CASE pc' = "get_service" /\ scan' = scan
  BY <1>1, <1>2, <1>3, <1>5 DEF ScanOK, ScanTyped, unitVars, Scanning
<1>6. CASE pc' = "classify" /\ scan' = [scan EXCEPT !.failed = TRUE]
  <2>1. /\ ScanTyped' /\ scan'.probe = scan.probe /\ scan'.listener = scan.listener
        /\ scan'.failed
    BY <1>6 DEF ScanOK, ScanTyped
  <2> QED BY <1>1, <1>2, <1>3, <1>6, <2>1 DEF ScanOK, unitVars, Scanning
<1> QED BY <1>4, <1>5, <1>6 DEF ShowUnit, CallFails, Learn

\* And for its MainPID.
LEMMA ScanAsksService == ASSUME ScanOK, ShowService PROVE ScanOK'
<1>1. UNCHANGED <<holders, unitVars>> /\ pc = "get_service" /\ pc' = "classify"
  BY DEF ShowService, SameWorld, Learn, CallFails
<1>2. UnitOK' /\ MainPid \in Nat \cup {None}
  BY <1>1, SameUnitOK DEF ScanOK, UnitOK, UnitTypeOK, MainPid, HasProcess, Units
<1>3. pc \in Scanning /\ pc # "probe"
  BY <1>1 DEF Scanning
<1>4. CASE scan' = [scan EXCEPT !.main_pid = MainPid]
  <2>1. /\ ScanTyped' /\ scan'.probe = scan.probe /\ scan'.listener = scan.listener
        /\ scan'.failed = scan.failed /\ scan'.main_pid = MainPid
    BY <1>2, <1>4 DEF ScanOK, ScanTyped
  <2>2. holders \subseteq Nat => MainPid = port
    BY <1>3, OurPort DEF ScanOK
  <2> QED BY <1>1, <1>2, <1>3, <2>1, <2>2 DEF ScanOK, unitVars, Scanning
<1>5. CASE scan' = [scan EXCEPT !.failed = TRUE]
  <2>1. /\ ScanTyped' /\ scan'.probe = scan.probe /\ scan'.listener = scan.listener
        /\ scan'.failed
    BY <1>5 DEF ScanOK, ScanTyped
  <2> QED BY <1>1, <1>2, <1>3, <2>1 DEF ScanOK, unitVars, Scanning
<1> QED BY <1>4, <1>5 DEF ShowService, CallFails, Learn, OurMainPid

\* The scan ends.
LEMMA ScanEnds == ASSUME ScanOK, ClassifyPort PROVE ScanOK'
<1>1. UnitOK'
  BY NoneAssumption, AbsentAssumption
     DEF ClassifyPort, ClearWorld, UnitOK, UnitTypeOK, UnitConsistent
<1>2. pc' = "ports" /\ scan' = NoScan
  BY DEF ClassifyPort
<1> QED BY <1>1, <1>2 DEF ScanOK, ScanTyped, NoScan, Scanning

\* Every step of an invocation, and of the world, keeps what a scan has read true.
LEMMA ScanStep == ASSUME ScanOK, [Next]_vars PROVE ScanOK'
<1>1. CASE LoadConfig
  BY <1>1, OutsideScan DEF LoadConfig, Exit, Scanning
<1>2. CASE LogsStep
  BY <1>2, OutsideScan DEF LogsStep, ValidateLines, Dump, Exit, Scanning
<1>3. CASE ProxyBinCheck \/ SystemdUserCheck \/ AdcCheck \/ JournalUserCheck \/ PortsCheck
  BY <1>3, OutsideScan
     DEF ProxyBinCheck, SystemdUserCheck, AdcCheck, JournalUserCheck, PortsCheck, Report,
         RestOfDoctor, Scanning
<1>4. CASE PrintReport
  BY <1>4, OutsideScan DEF PrintReport, Exit, Scanning
<1>5. CASE BeginScan \/ ProbeTcp \/ AttributeListener \/ ShowUnit \/ ShowService
             \/ ClassifyPort
  BY <1>5, ScanBegins, ScanProbes, ScanAttributes, ScanAsksUnit, ScanAsksService, ScanEnds
<1>6. CASE World
  BY <1>6, ScanWorld
<1>7. CASE UNCHANGED vars
  <2>1. UnitOK'
    BY <1>7, SameUnitOK DEF ScanOK, vars
  <2> QED BY <1>7, <2>1 DEF ScanOK, ScanTyped, vars, cliVars, unitVars
<1> QED BY <1>1, <1>2, <1>3, <1>4, <1>5, <1>6, <1>7 DEF Next, DoctorStep

\* What is known of a scan holds throughout.
LEMMA ScanInvariance == Spec => []ScanOK
BY ScanInit, ScanStep, PTL DEF Spec

\* A port that somebody else has held throughout its scan is reported
\* (src/commands/doctor.rs:139).
THEOREM ForeignHolderIsReported == Spec => ForeignIsReported
<1>1. ASSUME ScanOK, [Next]_vars
      PROVE  [pc = "classify" /\ pc' = "ports" /\ holders = {Foreign}
                => turn \in conflicts']_vars
  <2>1. SUFFICES ASSUME pc = "classify", pc' = "ports", holders = {Foreign}
                 PROVE  turn \in conflicts'
    OBVIOUS
  <2>2. ClassifyPort
    BY <1>1, <2>1
       DEF Next, LogsStep, DoctorStep, LoadConfig, ValidateLines, Dump, ProxyBinCheck,
           SystemdUserCheck, AdcCheck, JournalUserCheck, BeginScan, ProbeTcp,
           AttributeListener, ShowUnit, ShowService, PortsCheck, PrintReport, World, cliVars,
           vars
  <2>3. /\ scan.probe \in {"open", "closed", "unreachable"} /\ scan.probe # "closed"
        /\ scan.listener \in {None, Foreign} /\ scan.main_pid # Foreign
    BY <1>1, <2>1, ForeignAssumption DEF ScanOK, ScanTyped, Scanning
  <2>4. IsConflict
    BY <2>3 DEF IsConflict, IsOurs
  <2> QED BY <2>2, <2>4 DEF ClassifyPort
<1> QED BY <1>1, ScanInvariance, PTL DEF Spec, ForeignIsReported

-----------------------------------------------------------------------------
(* Types.                                                                  *)

\* What parse ends in is a Config or one of its errors.
LEMMA ParseTyped == ASSUME NEW doc \in Documents PROVE Parse(doc) \in Configs
<1>1. CASE Kept(doc)
  <2>1. doc.proxy_bin \in Optional(Texts)
    BY DEF Documents
  <2>2. DEFAULT_PROXY_BIN \in Texts
    BY StringsAssumption, 15 \in Nat, TRUE \in BOOLEAN, Zenon DEF DEFAULT_PROXY_BIN, Texts
  <2>3. ProxyBinOrDefault(doc.proxy_bin) \in Texts
    BY <2>1, <2>2 DEF ProxyBinOrDefault, Optional
  <2>4. Loaded(ProxyBinOrDefault(doc.proxy_bin), Merged(doc))
          \in [error : {"none"}, proxy_bin : Texts, connections : Seq(Connections)]
    BY <2>3, MergedTyped DEF Loaded
  <2> QED BY <1>1, <2>4, ParseIsExact DEF Configs
<1>2. CASE ~Kept(doc)
  <2>1. UniquenessError(doc.connections) \in ConfigErrors
    BY DEF UniquenessError, ConfigErrors
  <2>2. \/ Parse(doc) \in {Refuse(e) : e \in ConfigErrors}
        \/ Parse(doc) = Loaded(ProxyBinOrDefault(doc.proxy_bin), Merged(doc))
    BY <2>1 DEF Parse, ConfigErrors
  <2>3. Parse(doc).error # "none"
    BY <1>2, ParseIsExact
  <2> QED BY <2>2, <2>3 DEF Configs, Loaded
<1> QED BY <1>1, <1>2

\* So is what an invocation holds.
LEMMA ConfigTyped == ASSUME ConfigOK PROVE config \in Configs
<1>1. Refuse("Io") \in Configs /\ Refuse("Json") \in Configs /\ NotLoaded \in Configs
  BY DEF Configs, ConfigErrors
<1> QED BY <1>1, ParseTyped DEF ConfigOK

PcTyped ==
  pc \in {"arguments", "load", "journal", "proxy_bin", "systemd_user", "adc",
          "journal_user", "ports", "print", "exited"} \cup Scanning

ReportTyped ==
  /\ checks \in Seq(Rows)
  /\ turn \in Nat \ {0}
  /\ conflicts \subseteq 1..(turn - 1)
  /\ exit \in {0, 2, 3, None}

\* The length of a row's texts is one.
LEMMA RowTyped ==
  ASSUME NEW id \in {"config", "proxy_bin", "systemd_user", "adc", "journal_user", "ports"},
         NEW status \in {"pass", "warn", "fail"}, NEW words \in {OwnText, OuterText}
  PROVE  Row(id, status, words) \in Rows
<1>1. words \in Nat
  BY DEF OwnText, OuterText
<1>2. \A len \in Nat : ClampUtf8(len) \in Nat
  BY DEF ClampUtf8, MAX_DETAIL_LEN
<1>3. ClampUtf8(words) \in Nat /\ ClampUtf8(3 * OwnText) \in Nat
  BY <1>1, <1>2 DEF OwnText
<1> QED BY <1>3 DEF Row, Rows

\* A check adds a row.
LEMMA ReportStep ==
  ASSUME ReportTyped, UNCHANGED <<turn, conflicts, exit>>,
         pc \in {"proxy_bin", "systemd_user", "adc", "journal_user", "ports"},
         NEW status \in {"pass", "warn", "fail"}, NEW words \in {OwnText, OuterText},
         NEW next \in {"systemd_user", "adc", "journal_user", "ports", "print"},
         Report(status, words, next)
  PROVE  ReportTyped' /\ PcTyped'
<1>1. Row(pc, status, words) \in Rows
  BY RowTyped
<1>2. checks' \in Seq(Rows)
  BY <1>1 DEF Report, ReportTyped
<1> QED BY <1>2 DEF Report, ReportTyped, PcTyped

\* The report begins empty.
LEMMA ReportInit == Init => ReportTyped /\ PcTyped
BY DEF Init, ReportTyped, PcTyped

\* Steps that leave the report alone keep its types.
LEMMA ReportStays ==
  ASSUME ReportTyped, UNCHANGED <<checks, turn, conflicts, exit>>
  PROVE  ReportTyped'
BY DEF ReportTyped

\* The Connections looked at are the ones before the next.
LEMMA CountedOn ==
  ASSUME NEW n \in Nat \ {0}, NEW S \in SUBSET (1..(n - 1))
  PROVE  n + 1 \in Nat \ {0} /\ S \cup {n} \subseteq 1..((n + 1) - 1)
OBVIOUS

\* The report and the place of the invocation keep their types.
LEMMA ReportInvariance == Spec => [](ReportTyped /\ PcTyped)
<1>1. ASSUME ReportTyped, PcTyped, [Next]_vars PROVE ReportTyped' /\ PcTyped'
  <2>1. CASE LoadConfig
    <3>1. \A status \in {"pass", "fail"} : Row("config", status, OuterText) \in Rows
      BY RowTyped
    <3>2. checks' \in Seq(Rows)
      <4>1. CASE request.command = "doctor"
        <5>1. PICK row \in Rows : checks' = <<row>>
          BY <2>1, <3>1, <4>1 DEF LoadConfig
        <5> QED BY <5>1
      <4>2. CASE request.command # "doctor"
        BY <1>1, <2>1, <4>2 DEF LoadConfig, ReportTyped
      <4> QED BY <4>1, <4>2
    <3> QED BY <1>1, <2>1, <3>2 DEF LoadConfig, Exit, ReportTyped, PcTyped
  <2>2. CASE LogsStep
    BY <1>1, <2>2 DEF LogsStep, ValidateLines, Dump, Exit, ReportTyped, PcTyped
  <2>3. CASE ProxyBinCheck
    BY <1>1, <2>3, ReportStep DEF ProxyBinCheck, RestOfDoctor
  <2>4. CASE SystemdUserCheck \/ JournalUserCheck
    BY <1>1, <2>4, ReportStep DEF SystemdUserCheck, JournalUserCheck, RestOfDoctor
  <2>5. CASE AdcCheck
    BY <1>1, <2>5, ReportStep DEF AdcCheck, RestOfDoctor
  <2>6. CASE PortsCheck
    BY <1>1, <2>6, ReportStep DEF PortsCheck, PortsStatus, RestOfDoctor
  <2>7. CASE PrintReport
    BY <1>1, <2>7 DEF PrintReport, Exit, ReportTyped, PcTyped
  <2>8. CASE BeginScan
    <3>0. \/ UNCHANGED <<turn, conflicts>>
          \/ conflicts' = conflicts \cup {turn} /\ turn' = turn + 1
      BY <2>8 DEF BeginScan
    <3>1. PcTyped'
      BY <1>1, <2>8 DEF BeginScan, PcTyped, Scanning
    <3>2. CASE UNCHANGED <<turn, conflicts>>
      BY <1>1, <2>8, <3>1, <3>2 DEF BeginScan, ReportTyped
    <3>3. CASE conflicts' = conflicts \cup {turn} /\ turn' = turn + 1
      <4>1. turn + 1 \in Nat \ {0} /\ conflicts \cup {turn} \subseteq 1..((turn + 1) - 1)
        <5>1. turn \in Nat \ {0} /\ conflicts \in SUBSET (1..(turn - 1))
          BY <1>1 DEF ReportTyped
        <5> QED BY <5>1, CountedOn
      <4> QED BY <1>1, <2>8, <3>1, <3>3, <4>1 DEF BeginScan, ReportTyped
    <3> QED BY <3>0, <3>1, <3>2, <3>3
  <2>9. CASE ProbeTcp \/ AttributeListener \/ ShowUnit \/ ShowService
    BY <1>1, <2>9, ReportStays
       DEF ProbeTcp, AttributeListener, ShowUnit, ShowService, CallFails, Learn, RestOfScan,
           PcTyped, Scanning
  <2>10. CASE ClassifyPort
    BY <1>1, <2>10 DEF ClassifyPort, ReportTyped, PcTyped
  <2>11. CASE World \/ UNCHANGED vars
    BY <1>1, <2>11 DEF World, vars, cliVars, ReportTyped, PcTyped
  <2> QED BY <1>1, <2>1, <2>2, <2>3, <2>4, <2>5, <2>6, <2>7, <2>8, <2>9, <2>10, <2>11
             DEF Next, DoctorStep
<1> QED BY <1>1, ReportInit, PTL DEF Spec

\* The type invariant (src/model.rs:340, src/commands/doctor.rs).
THEOREM DiagnosisTypeCorrect == Spec => []TypeOK
<1>1. ASSUME ConfigOK, ScanOK, ReportTyped, PcTyped PROVE TypeOK
  BY <1>1, ConfigTyped DEF ScanOK, ScanTyped, UnitOK, ReportTyped, PcTyped, TypeOK
<1> QED BY <1>1, ConfigInvariance, ScanInvariance, ReportInvariance, PTL

\* A port that our own process has held throughout its scan is not
\* (src/commands/doctor.rs:139).
THEOREM OurHolderIsNotReported == Spec => OursIsNotReported
<1> DEFINE Known == scan.probe # "unreachable" /\ scan.listener # None /\ ~scan.failed
<1>1. ASSUME ScanOK, TypeOK, [Next]_vars
      PROVE  [/\ pc = "classify" /\ pc' = "ports"
              /\ holders # {} /\ holders \subseteq Nat
              /\ scan.probe # "unreachable" /\ scan.listener # None /\ ~scan.failed
              => turn \notin conflicts']_vars
  <2>1. SUFFICES ASSUME pc = "classify", pc' = "ports", holders \subseteq Nat, Known
                 PROVE  turn \notin conflicts'
    OBVIOUS
  <2>2. ClassifyPort
    BY <1>1, <2>1
       DEF Next, LogsStep, DoctorStep, LoadConfig, ValidateLines, Dump, ProxyBinCheck,
           SystemdUserCheck, AdcCheck, JournalUserCheck, BeginScan, ProbeTcp,
           AttributeListener, ShowUnit, ShowService, PortsCheck, PrintReport, World, cliVars,
           vars
  <2>3. scan.listener = port
    BY <1>1, <2>1 DEF ScanOK, Scanning
  <2>4. scan.probe = "open" => scan.main_pid = port
    BY <1>1, <2>1 DEF ScanOK
  <2>5. ~IsConflict
    BY <2>1, <2>3, <2>4 DEF IsConflict, IsOurs
  <2>6. turn \notin conflicts
    BY <1>1 DEF TypeOK
  <2> QED BY <2>2, <2>5, <2>6 DEF ClassifyPort
<1> QED BY <1>1, ScanInvariance, DiagnosisTypeCorrect, PTL DEF Spec, OursIsNotReported

-----------------------------------------------------------------------------
(* doctor's report.                                                        *)

\* The first n rows of the order are there, each with texts that have been cut to
\* length; the first tells of the config and the last of the ports.
RowsOK(n) ==
  /\ checks \in Seq(Rows)
  /\ Len(checks) = n
  /\ \A i \in 1..n : /\ checks[i].id = CheckOrder[i]
                     /\ checks[i].detail <= MAX_DETAIL_LEN
                     /\ checks[i].hint <= MAX_DETAIL_LEN
  /\ n >= 1 => (checks[1].status = "fail" <=> config.error # "none")
  /\ n = 6 => checks[6].status = PortsStatus

\* doctor has the rows of the checks it has passed, and its exit code is the
\* report's.
DoctorOK ==
  IF request.command = "doctor"
    THEN /\ pc \in {"load", "proxy_bin", "systemd_user", "adc", "journal_user", "ports",
                    "print", "exited"} \cup Scanning
         /\ pc = "load" => RowsOK(0)
         /\ pc = "proxy_bin" => RowsOK(1)
         /\ pc = "systemd_user" => RowsOK(2)
         /\ pc = "adc" => RowsOK(3)
         /\ pc = "journal_user" => RowsOK(4)
         /\ pc \in {"ports"} \cup Scanning => RowsOK(5)
         /\ pc \in {"print", "exited"} => RowsOK(6)
         /\ pc = "exited" => exit = IF AllChecksOk THEN 0 ELSE 3
    ELSE pc \in {"arguments", "load", "journal", "exited"}

\* How long a row is when it is printed.
RowLen(row) == ROW_BYTES + ESCAPED_BYTE * (row.detail + row.hint)

SumsRows(f) ==
  f = [s \in SUBSET (DOMAIN checks) |->
         IF s = {} THEN 0
         ELSE LET x == Max(s) IN
              f[s \ {x}] + ROW_BYTES + ESCAPED_BYTE * (checks[x].detail + checks[x].hint)]

LEMMA JsonLenIsAFold == JsonLen = DOCUMENT_BYTES + (CHOOSE f : SumsRows(f))[DOMAIN checks]
BY Zenon DEF JsonLen, FoldLeft, MapThenFoldSet, SumsRows

\* Six rows whose texts have been cut to length fit.
LEMMA ReportLength ==
  ASSUME checks \in Seq(Rows), Len(checks) = 6,
         \A i \in 1..Len(checks) :
           checks[i].detail <= MAX_DETAIL_LEN /\ checks[i].hint <= MAX_DETAIL_LEN
  PROVE  JsonLen \in Nat /\ JsonLen <= DOCTOR_MAX_BYTES
<1> DEFINE w == [i \in 1..6 |-> RowLen(checks[i])]
           most == ROW_BYTES + ESCAPED_BYTE * (2 * MAX_DETAIL_LEN)
           F == CHOOSE f : SumsRows(f)
<1>1. /\ DOMAIN checks = 1..6
      /\ \A i \in 1..6 : checks[i].detail \in Nat /\ checks[i].hint \in Nat
  <2>1. \A i \in 1..6 : checks[i] \in Rows
    BY EntryOf, Zenon
  <2>2. \A row \in Rows : row.detail \in Nat /\ row.hint \in Nat
    BY DEF Rows
  <2>3. DOMAIN checks = 1..6
    OBVIOUS
  <2> QED BY <2>1, <2>2, <2>3, Zenon
<1>2. ASSUME NEW i \in 1..6 PROVE RowLen(checks[i]) \in Nat /\ RowLen(checks[i]) <= most
  <2>1. /\ checks[i].detail \in Nat /\ checks[i].hint \in Nat
        /\ checks[i].detail <= MAX_DETAIL_LEN /\ checks[i].hint <= MAX_DETAIL_LEN
    BY <1>1
  <2> QED BY <2>1 DEF RowLen, ROW_BYTES, ESCAPED_BYTE, MAX_DETAIL_LEN
<1>3. w \in [1..6 -> Nat] /\ \A i \in 1..6 : w[i] <= most /\ w[i] = RowLen(checks[i])
  BY <1>2
<1> HIDE DEF w
<1>4. PICK g \in [SUBSET (1..6) -> Nat] :
        \A S \in SUBSET (1..6) :
          g[S] = IF S = {} THEN 0 ELSE g[S \ {Max(S)}] + w[Max(S)]
  BY <1>3, 6 \in Nat, SumExists, Zenon
<1>5. ASSUME NEW total \in Nat, NEW S \in SUBSET (1..6), S # {}
      PROVE  total + w[Max(S)] = total + ROW_BYTES + ESCAPED_BYTE *
                                   (checks[Max(S)].detail + checks[Max(S)].hint)
  <2>1. Max(S) \in 1..6
    BY <1>5, MaxIsGreatest
  <2>2. PICK d \in Nat, h \in Nat : d = checks[Max(S)].detail /\ h = checks[Max(S)].hint
    BY <1>1, <2>1, Zenon
  <2>3. w[Max(S)] = ROW_BYTES + ESCAPED_BYTE * (d + h)
    BY <1>3, <2>1, <2>2, Zenon DEF RowLen
  <2>4. total + (ROW_BYTES + ESCAPED_BYTE * (d + h)) = total + ROW_BYTES + ESCAPED_BYTE * (d + h)
    BY DEF ROW_BYTES, ESCAPED_BYTE
  <2> QED BY <2>2, <2>3, <2>4, Zenon
<1>6. SumsRows(g)
  <2>1. \A S \in SUBSET (1..6) : g[S \ {Max(S)}] \in Nat
    OBVIOUS
  <2>2. ASSUME NEW S \in SUBSET (1..6)
        PROVE  g[S] = IF S = {} THEN 0
                      ELSE LET x == Max(S) IN
                           g[S \ {x}] + ROW_BYTES
                             + ESCAPED_BYTE * (checks[x].detail + checks[x].hint)
    BY <1>4, <1>5, <2>1
  <2>3. g = [s \in SUBSET (1..6) |-> g[s]]
    OBVIOUS
  <2> QED BY <1>1, <2>2, <2>3 DEF SumsRows
<1>7. SumsRows(F)
  BY <1>6, Zenon
<1>8. F[{}] = 0 /\ \A k \in 1..6 : F[1..(k - 1)] \in Nat =>
                                       F[1..k] = F[(1..k) \ {Max(1..k)}] + w[Max(1..k)]
  <2>1. F = [s \in SUBSET (1..6) |->
               IF s = {} THEN 0
               ELSE LET x == Max(s) IN
                    F[s \ {x}] + ROW_BYTES + ESCAPED_BYTE * (checks[x].detail + checks[x].hint)]
    BY <1>1, <1>7 DEF SumsRows
  <2> HIDE DEF F
  <2>2. {} \in SUBSET (1..6)
    OBVIOUS
  <2>3. ASSUME NEW k \in 1..6, F[1..(k - 1)] \in Nat
        PROVE  F[1..k] = F[(1..k) \ {Max(1..k)}] + w[Max(1..k)]
    <3>0. k \in Nat \ {0} /\ 1..k \in SUBSET (1..6)
      OBVIOUS
    <3>1. 1..k \in SUBSET (1..6) /\ 1..k # {} /\ (1..k) \ {Max(1..k)} = 1..(k - 1)
      BY <3>0, MaxOfPrefix, Zenon
    <3>2. F[1..k] = F[1..(k - 1)] + ROW_BYTES
                      + ESCAPED_BYTE * (checks[Max(1..k)].detail + checks[Max(1..k)].hint)
      BY <2>1, <3>1
    <3> QED BY <1>5, <2>3, <3>1, <3>2
  <2> QED BY <2>1, <2>2, <2>3
<1> HIDE DEF F
<1>9. most \in Nat /\ 120 + 6 * most <= DOCTOR_MAX_BYTES
  BY DEF ROW_BYTES, ESCAPED_BYTE, MAX_DETAIL_LEN, DOCTOR_MAX_BYTES
<1> HIDE DEF most
<1>10. F[1..6] \in Nat /\ F[1..6] <= 6 * most
  <2>1. /\ 6 \in Nat /\ w \in [1..6 -> Nat] /\ most \in Nat
        /\ \A i \in 1..6 : w[i] <= most
    BY <1>3, <1>9
  <2> QED BY <1>8, <2>1, SumIsBounded, Zenon
<1>11. F[1..6] \in Nat /\ 120 + F[1..6] \in Nat /\ 120 + F[1..6] <= DOCTOR_MAX_BYTES
  BY <1>9, <1>10 DEF DOCTOR_MAX_BYTES
<1>12. JsonLen = 120 + F[1..6]
  BY <1>1, JsonLenIsAFold, Zenon DEF F, DOCUMENT_BYTES
<1> QED BY <1>11, <1>12

\* doctor's report begins empty.
LEMMA DoctorInit == Init => DoctorOK
<1> SUFFICES ASSUME Init PROVE DoctorOK
  OBVIOUS
<1>1. checks = <<>> /\ checks \in Seq(Rows) /\ Len(checks) = 0
  BY DEF Init
<1> QED BY <1>1 DEF Init, DoctorOK, RowsOK, Scanning

\* A row's texts are cut to length.
LEMMA RowFits ==
  ASSUME NEW id \in {"config", "proxy_bin", "systemd_user", "adc", "journal_user", "ports"},
         NEW status \in {"pass", "warn", "fail"}, NEW words \in {OwnText, OuterText}
  PROVE  LET row == Row(id, status, words) IN
         /\ row \in Rows /\ row.id = id /\ row.status = status
         /\ row.detail <= MAX_DETAIL_LEN /\ row.hint <= MAX_DETAIL_LEN
<1>1. words \in Nat /\ 3 * OwnText \in Nat
  BY DEF OwnText, OuterText
<1>2. \A len \in Nat : ClampUtf8(len) <= MAX_DETAIL_LEN
  BY DEF ClampUtf8, MAX_DETAIL_LEN
<1>3. 0 <= MAX_DETAIL_LEN
  BY DEF MAX_DETAIL_LEN
<1> QED BY <1>1, <1>2, <1>3, RowTyped DEF Row

\* A check adds the row that comes next.
LEMMA ReportAddsNext ==
  ASSUME NEW k \in 1..5, RowsOK(k), UNCHANGED <<config, conflicts>>,
         pc = CheckOrder[k + 1],
         NEW status \in {"pass", "warn", "fail"}, NEW words \in {OwnText, OuterText},
         NEW next, Report(status, words, next),
         k = 5 => status = PortsStatus
  PROVE  RowsOK(k + 1)'
<1> DEFINE row == Row(pc, status, words)
<1>1. pc \in {"config", "proxy_bin", "systemd_user", "adc", "journal_user", "ports"}
  BY DEF CheckOrder
<1>2. /\ row \in Rows /\ row.id = CheckOrder[k + 1] /\ row.status = status
      /\ row.detail <= MAX_DETAIL_LEN /\ row.hint <= MAX_DETAIL_LEN
  BY <1>1, RowFits
<1>3. checks' = Append(checks, row)
  BY DEF Report
<1> HIDE DEF row
<1>4. /\ checks' \in Seq(Rows) /\ Len(checks') = k + 1
      /\ checks'[k + 1] = row /\ \A i \in 1..k : checks'[i] = checks[i]
      /\ Len(checks) = k
  BY <1>2, <1>3 DEF RowsOK
<1>5. ASSUME NEW i \in 1..(k + 1)
      PROVE  /\ checks'[i].id = CheckOrder[i]
             /\ checks'[i].detail <= MAX_DETAIL_LEN /\ checks'[i].hint <= MAX_DETAIL_LEN
  <2>1. CASE i = k + 1
    BY <1>2, <1>4, <2>1
  <2>2. CASE i \in 1..k
    BY <1>4, <2>2 DEF RowsOK
  <2> QED BY <2>1, <2>2
<1>6. checks'[1].status = "fail" <=> config'.error # "none"
  <2>1. checks'[1] = checks[1] /\ config' = config
    BY <1>4
  <2> QED BY <1>4, <2>1 DEF RowsOK
<1>7. k + 1 = 6 => checks'[6].status = PortsStatus'
  <2>1. PortsStatus' = PortsStatus
    BY DEF PortsStatus
  <2> QED BY <1>2, <1>4, <2>1
<1> QED BY <1>4, <1>5, <1>6, <1>7 DEF RowsOK

\* Steps that leave the report alone, before the last row is there or after.
LEMMA RowsStay ==
  ASSUME NEW n, RowsOK(n), UNCHANGED <<checks, config>>, n = 6 => UNCHANGED conflicts
  PROVE  RowsOK(n)'
BY DEF RowsOK, PortsStatus

\* doctor makes its checks in their order.
LEMMA DoctorStepsOK == ASSUME DoctorOK, [Next]_vars PROVE DoctorOK'
<1>1. request' = request
  BY DEF Next, LogsStep, DoctorStep, LoadConfig, ValidateLines, Dump, ProxyBinCheck,
         SystemdUserCheck, AdcCheck, JournalUserCheck, BeginScan, ProbeTcp,
         AttributeListener, ShowUnit, ShowService, ClassifyPort, PortsCheck, PrintReport,
         World, RestOfDoctor, RestOfScan, cliVars, vars
<1>2. CASE request.command # "doctor"
  <2>1. pc \in {"arguments", "load", "journal", "exited"}
    BY <1>2 DEF DoctorOK
  <2>2. LoadConfig \/ ValidateLines \/ Dump \/ UNCHANGED vars
    BY <2>1
       DEF Next, LogsStep, DoctorStep, ProxyBinCheck, SystemdUserCheck, AdcCheck,
           JournalUserCheck, BeginScan, ProbeTcp, AttributeListener, ShowUnit, ShowService,
           ClassifyPort, PortsCheck, PrintReport, World, Scanning
  <2> QED BY <1>1, <1>2, <2>1, <2>2
             DEF LoadConfig, ValidateLines, Dump, Exit, vars, cliVars, DoctorOK
<1>3. CASE request.command = "doctor"
  <2>1. pc \in {"load", "proxy_bin", "systemd_user", "adc", "journal_user", "ports",
                "print", "exited"} \cup Scanning
    BY <1>3 DEF DoctorOK
  <2>2. /\ CheckOrder[1] = "config" /\ CheckOrder[2] = "proxy_bin"
        /\ CheckOrder[3] = "systemd_user" /\ CheckOrder[4] = "adc"
        /\ CheckOrder[5] = "journal_user" /\ CheckOrder[6] = "ports"
    BY DEF CheckOrder
  <2>3. CASE LoadConfig
    <3> DEFINE row == Row("config", IF config'.error = "none" THEN "pass" ELSE "fail", OuterText)
    <3>1. /\ row \in Rows /\ row.id = "config"
          /\ row.status = IF config'.error = "none" THEN "pass" ELSE "fail"
          /\ row.detail <= MAX_DETAIL_LEN /\ row.hint <= MAX_DETAIL_LEN
      BY RowFits
    <3>2. checks' = <<row>> /\ pc' = "proxy_bin"
      BY <1>3, <2>3 DEF LoadConfig
    <3> HIDE DEF row
    <3>3. checks' \in Seq(Rows) /\ Len(checks') = 1 /\ checks'[1] = row
      BY <3>1, <3>2
    <3>4. checks'[1].status = "fail" <=> config'.error # "none"
      BY <3>1, <3>3
    <3>5. RowsOK(1)'
      BY <2>2, <3>1, <3>3, <3>4 DEF RowsOK
    <3> QED BY <1>1, <1>3, <3>2, <3>5 DEF DoctorOK, Scanning
  <2>4. CASE ProxyBinCheck
    <3>1. PICK status \in {"pass", "fail"} : Report(status, OuterText, "systemd_user")
      BY <2>4 DEF ProxyBinCheck
    <3>2. pc = "proxy_bin" /\ pc' = "systemd_user" /\ UNCHANGED <<config, conflicts>>
      BY <2>4, <3>1 DEF ProxyBinCheck, Report, RestOfDoctor
    <3>3. RowsOK(1) /\ 1 \in 1..5 /\ 1 + 1 = 2
      BY <1>3, <3>2 DEF DoctorOK
    <3>5. RowsOK(2)'
      BY <2>2, <3>1, <3>2, <3>3, ReportAddsNext
    <3> QED BY <1>1, <1>3, <3>2, <3>5 DEF DoctorOK, Scanning
  <2>5. CASE SystemdUserCheck
    <3>1. PICK status \in {"pass", "fail"}, words \in {OwnText, OuterText} :
            Report(status, words, "adc")
      BY <2>5 DEF SystemdUserCheck
    <3>2. pc = "systemd_user" /\ pc' = "adc" /\ UNCHANGED <<config, conflicts>>
      BY <2>5, <3>1 DEF SystemdUserCheck, Report, RestOfDoctor
    <3>3. RowsOK(2) /\ 2 \in 1..5 /\ 2 + 1 = 3
      BY <1>3, <3>2 DEF DoctorOK
    <3>5. RowsOK(3)'
      BY <2>2, <3>1, <3>2, <3>3, ReportAddsNext
    <3> QED BY <1>1, <1>3, <3>2, <3>5 DEF DoctorOK, Scanning
  <2>6. CASE AdcCheck
    <3>1. PICK status \in {"pass", "fail"} : Report(status, OuterText, "journal_user")
      BY <2>6 DEF AdcCheck
    <3>2. pc = "adc" /\ pc' = "journal_user" /\ UNCHANGED <<config, conflicts>>
      BY <2>6, <3>1 DEF AdcCheck, Report, RestOfDoctor
    <3>3. RowsOK(3) /\ 3 \in 1..5 /\ 3 + 1 = 4
      BY <1>3, <3>2 DEF DoctorOK
    <3>5. RowsOK(4)'
      BY <2>2, <3>1, <3>2, <3>3, ReportAddsNext
    <3> QED BY <1>1, <1>3, <3>2, <3>5 DEF DoctorOK, Scanning
  <2>7. CASE JournalUserCheck
    <3>1. PICK status \in {"pass", "fail"}, words \in {OwnText, OuterText} :
            Report(status, words, "ports")
      BY <2>7 DEF JournalUserCheck
    <3>2. pc = "journal_user" /\ pc' = "ports" /\ UNCHANGED <<config, conflicts>>
      BY <2>7, <3>1 DEF JournalUserCheck, Report, RestOfDoctor
    <3>3. RowsOK(4) /\ 4 \in 1..5 /\ 4 + 1 = 5
      BY <1>3, <3>2 DEF DoctorOK
    <3>5. RowsOK(5)'
      BY <2>2, <3>1, <3>2, <3>3, ReportAddsNext
    <3> QED BY <1>1, <1>3, <3>2, <3>5 DEF DoctorOK, Scanning
  <2>8. CASE PortsCheck
    <3>1. PICK words \in {OwnText, OuterText} : Report(PortsStatus, words, "print")
      BY <2>8 DEF PortsCheck
    <3>2. pc = "ports" /\ pc' = "print" /\ UNCHANGED <<config, conflicts>>
      BY <2>8, <3>1 DEF PortsCheck, Report, RestOfDoctor
    <3>3. RowsOK(5) /\ 5 \in 1..5 /\ 5 + 1 = 6
      BY <1>3, <3>2 DEF DoctorOK
    <3>4. PortsStatus \in {"pass", "warn", "fail"}
      BY DEF PortsStatus
    <3>5. RowsOK(6)'
      BY <2>2, <3>1, <3>2, <3>3, <3>4, ReportAddsNext
    <3> QED BY <1>1, <1>3, <3>2, <3>5 DEF DoctorOK, Scanning
  <2>9. CASE \/ BeginScan \/ ProbeTcp \/ AttributeListener \/ ShowUnit \/ ShowService
             \/ ClassifyPort \/ World
    <3>1. /\ pc \in {"ports"} \cup Scanning /\ pc' \in {"ports"} \cup Scanning
          /\ UNCHANGED <<checks, config>>
      BY <2>9
         DEF BeginScan, ProbeTcp, AttributeListener, ShowUnit, ShowService, ClassifyPort, World,
             CallFails, Learn, RestOfScan, cliVars, Scanning
    <3>2. RowsOK(5)'
      BY <1>3, <3>1, RowsStay DEF DoctorOK
    <3> QED BY <1>1, <1>3, <3>1, <3>2 DEF DoctorOK, Scanning
  <2>10. CASE PrintReport
    <3>1. pc = "print" /\ pc' = "exited" /\ UNCHANGED <<checks, config, conflicts>>
      BY <2>10 DEF PrintReport, Exit
    <3>2. PICK json \in BOOLEAN :
            exit' = IF AllChecksOk /\ (json => JsonLen <= DOCTOR_MAX_BYTES) THEN 0 ELSE 3
      BY <2>10 DEF PrintReport, Exit
    <3>3. RowsOK(6)
      BY <1>3, <3>1 DEF DoctorOK
    <3>4. JsonLen <= DOCTOR_MAX_BYTES
      BY <3>3, ReportLength DEF RowsOK
    <3>5. exit' = IF AllChecksOk THEN 0 ELSE 3
      BY <3>2, <3>4
    <3>6. RowsOK(6)' /\ AllChecksOk' = AllChecksOk
      BY <3>1, <3>3, RowsStay DEF AllChecksOk
    <3> QED BY <1>1, <1>3, <3>1, <3>5, <3>6 DEF DoctorOK, Scanning
  <2>11. CASE UNCHANGED vars
    <3>1. UNCHANGED <<request, pc, checks, config, conflicts, exit>>
      BY <2>11 DEF vars, cliVars
    <3>2. \A n : RowsOK(n) => RowsOK(n)'
      BY <3>1, RowsStay
    <3>3. AllChecksOk' = AllChecksOk
      BY <3>1 DEF AllChecksOk
    <3> QED BY <1>3, <3>1, <3>2, <3>3 DEF DoctorOK
  <2>12. ~LogsStep
    BY <2>1 DEF LogsStep, ValidateLines, Dump, Scanning
  <2> QED BY <2>3, <2>4, <2>5, <2>6, <2>7, <2>8, <2>9, <2>10, <2>11, <2>12
             DEF Next, DoctorStep
<1> QED BY <1>2, <1>3

\* The report is built in its order throughout.
LEMMA DoctorInvariance == Spec => []DoctorOK
BY DoctorInit, DoctorStepsOK, PTL DEF Spec

\* The report always fits under its cap (clamp_utf8 in src/model.rs,
\* write_doctor_json in src/cli.rs:534).
THEOREM ReportAlwaysFits == Spec => []ReportFits
<1>1. ASSUME DoctorOK, pc = "print" PROVE JsonLen <= DOCTOR_MAX_BYTES
  <2>1. RowsOK(6)
    BY <1>1 DEF DoctorOK, Scanning
  <2> QED BY <2>1, ReportLength DEF RowsOK
<1> QED BY <1>1, DoctorInvariance, PTL DEF ReportFits

\* doctor always ends in a whole report, and its exit code is the report's
\* (src/commands/doctor.rs:38, run_doctor in src/cli.rs:515).
THEOREM ReportComplete == Spec => []ReportIsWhole
<1>1. ASSUME DoctorOK PROVE ReportIsWhole
  <2>1. SUFFICES ASSUME request.command = "doctor", pc = "exited" PROVE ReportIsWhole
    BY DEF ReportIsWhole
  <2>2. RowsOK(6) /\ exit = IF AllChecksOk THEN 0 ELSE 3
    BY <1>1, <2>1 DEF DoctorOK
  <2>3. Len(checks) = 6 /\ \A i \in 1..6 : checks[i].id = CheckOrder[i]
    BY <2>2 DEF RowsOK
  <2>4. [i \in 1..Len(checks) |-> checks[i].id] = CheckOrder
    BY <2>3 DEF CheckOrder
  <2> QED BY <2>2, <2>3, <2>4 DEF RowsOK, AllChecksOk, PortsStatus, ReportIsWhole
<1> QED BY <1>1, DoctorInvariance, PTL

-----------------------------------------------------------------------------
(* logs.                                                                   *)

\* An id that the config has is found, and has a Unit name.
LEMMA FoundResolves ==
  ASSUME NEW doc \in Documents, Kept(doc), NEW loaded, loaded.connections = Merged(doc)
  PROVE  ResolvesUnit(loaded) <=> \E i \in 1..Len(loaded.connections) :
                                    loaded.connections[i].id = request.id
<1> DEFINE found == {i \in 1..Len(loaded.connections) : loaded.connections[i].id = request.id}
<1>1. CASE found = {}
  <2>1. ById(loaded, request.id) = 0
    BY <1>1 DEF ById
  <2> QED BY <1>1, <2>1 DEF ResolvesUnit
<1>2. CASE found # {}
  <2>1. PICK i \in 1..Len(loaded.connections) : loaded.connections[i].id = request.id
    BY <1>2
  <2>2. found = {i}
    BY <2>1, IdsInUse
  <2>3. Min({i}) = i
    BY <2>1 DEF Min
  <2>4. ById(loaded, request.id) = i /\ i # 0
    <3>1. ById(loaded, request.id) = Min(found)
      BY <1>2, Zenon DEF ById
    <3>2. ById(loaded, request.id) = i
      BY <2>2, <2>3, <3>1, Zenon
    <3>3. i # 0
      BY <2>1
    <3> QED BY <3>2, <3>3
  <2>5. UnitNameOf(loaded.connections[i].id).error = "none"
    BY <2>1, IdsInUse, ValidIdIsItsUnit DEF Named
  <2> QED BY <2>1, <2>4, <2>5 DEF ResolvesUnit
<1> QED BY <1>1, <1>2

\* Where logs stands, and why.
LogsOK ==
  request.command = "logs" =>
    LET usable == /\ ~(request.lines < 1)
                  /\ config.error = "none"
                  /\ \E i \in 1..Len(config.connections) :
                       config.connections[i].id = request.id IN
    /\ pc \in {"arguments", "load", "journal", "exited"}
    /\ pc = "load" => ~(request.lines < 1)
    /\ pc = "journal" => usable
    /\ pc = "exited" => (exit = 2 <=> ~usable)

\* logs begins with its arguments, or is not what was asked for.
LEMMA LogsInit == Init => LogsOK
BY DEF Init, LogsOK

\* logs is the only command that looks at the journal, and doctor the only one
\* that does anything else once the config is read.
LEMMA LogsStepsOK == ASSUME ConfigOK, ConfigOK', LogsOK, [Next]_vars PROVE LogsOK'
<1> SUFFICES ASSUME request'.command = "logs" PROVE LogsOK'
  BY DEF LogsOK
<1>1. request' = request
  BY DEF Next, LogsStep, DoctorStep, LoadConfig, ValidateLines, Dump, ProxyBinCheck,
         SystemdUserCheck, AdcCheck, JournalUserCheck, BeginScan, ProbeTcp,
         AttributeListener, ShowUnit, ShowService, ClassifyPort, PortsCheck, PrintReport,
         World, RestOfDoctor, RestOfScan, cliVars, vars
<1>2. pc \in {"arguments", "load", "journal", "exited"}
  BY <1>1 DEF LogsOK
<1> DEFINE names == \E i \in 1..Len(config.connections) :
                      config.connections[i].id = request.id
<1>3. CASE ValidateLines
  <2>1. config' = config /\ config.error # "none"
    BY <1>3 DEF ValidateLines, ConfigOK, NotLoaded, Refuse
  <2> QED BY <1>1, <1>3, <2>1 DEF ValidateLines, Exit, LogsOK
<1>4. CASE LoadConfig
  <2>1. config'.error = "none" => (ResolvesUnit(config') <=> names')
    <3>1. SUFFICES ASSUME config'.error = "none" PROVE ResolvesUnit(config') <=> names'
      OBVIOUS
    <3>2. config' = Load(file) /\ file \in Files
      BY <1>4 DEF LoadConfig, ConfigOK
    <3>3. file \in Documents /\ config' = Parse(file)
      BY <3>1, <3>2, LoadOutcome DEF Refuse
    <3>4. Kept(file) /\ config'.connections = Merged(file)
      BY <3>1, <3>3, ParseIsExact DEF Loaded
    <3> QED BY <1>1, <3>3, <3>4, FoundResolves
  <2> QED BY <1>1, <1>4, <2>1 DEF LoadConfig, Exit, LogsOK
<1>5. CASE Dump
  BY <1>1, <1>5 DEF Dump, Exit, LogsOK
<1>6. CASE UNCHANGED vars
  BY <1>6 DEF vars, cliVars, LogsOK
<1> QED
  BY <1>1, <1>2, <1>3, <1>4, <1>5, <1>6
     DEF Next, LogsStep, DoctorStep, ProxyBinCheck, SystemdUserCheck, AdcCheck,
         JournalUserCheck, BeginScan, ProbeTcp, AttributeListener, ShowUnit, ShowService,
         ClassifyPort, PortsCheck, PrintReport, World, Scanning

\* Where logs stands is known throughout.
LEMMA LogsInvariance == Spec => []LogsOK
BY LogsInit, LogsStepsOK, ConfigInvariance, PTL DEF Spec

\* logs answers a usage error for what cannot be shown, and only for that
\* (run_logs, src/cli.rs:449).
THEOREM LogsExitIsEarned == Spec => []LogsExitTellsWhy
<1>1. ASSUME LogsOK PROVE LogsExitTellsWhy
  BY <1>1 DEF LogsOK, LogsExitTellsWhy
<1> QED BY <1>1, LogsInvariance, PTL

=============================================================================
