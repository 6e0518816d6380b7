------------------------------- MODULE Config -------------------------------
(***************************************************************************)
(* connections.json: what is read, checked, merged and refused, in the     *)
(* order in which it is (src/config.rs). Operators only.                   *)
(*                                                                         *)
(* A text is its value, its length in bytes, whether it is printable       *)
(* ASCII, and whether it has the shape its field asks for: no leading dash *)
(* (group), three segments (instance), an IP literal (address, which the   *)
(* config does not ask for but doctor does). An id is a sequence of        *)
(* characters. A document that serde refuses (not JSON, an unknown or      *)
(* missing key, a port that is no u16) is malformed.                       *)
(***************************************************************************)
EXTENDS Integers, SequencesExt, UnitName

CONSTANT Unset   \* an optional field that is absent

MAX_NAME_LEN == 64
MAX_GROUP_LEN == 32
MAX_INSTANCE_LEN == 256
MAX_ADDRESS_LEN == 253
MAX_PROXY_BIN_LEN == 4095
MAX_EXTRA_ARGS_COUNT == 16
MAX_EXTRA_ARGS_TOTAL_LEN == 2048
MAX_CONNECTIONS == 32
MIN_UNPRIVILEGED_PORT == 1024
RESERVED_PORTS == {1433, 3306, 5432}

Texts == [text : STRING, len : Nat, printable : BOOLEAN, shaped : BOOLEAN]

\* Three segments are not nothing.
Instances == {t \in Texts : t.shaped => t.len > 0}

Ports == 0..65535

Optional(S) == {Unset} \cup S

RawDefaults == [address        : Optional(Texts),
                private_ip     : Optional(BOOLEAN),
                auto_iam_authn : Optional(BOOLEAN),
                extra_args     : Optional(Seq(Texts)),
                enabled        : Optional(BOOLEAN)]

RawConnections == [id             : Seq(STRING),
                   name           : Texts,
                   group          : Texts,
                   instance       : Instances,
                   port           : Ports,
                   address        : Optional(Texts),
                   private_ip     : Optional(BOOLEAN),
                   auto_iam_authn : Optional(BOOLEAN),
                   extra_args     : Optional(Seq(Texts)),
                   enabled        : Optional(BOOLEAN)]

Documents == [kind        : {"document"},
              version     : Int,
              proxy_bin   : Optional(Texts),
              defaults    : RawDefaults,
              connections : Seq(RawConnections)]

Unreadable == [kind |-> "unreadable"]
Malformed  == [kind |-> "malformed"]

Files == {Unreadable, Malformed} \cup Documents

Connections == [id             : Seq(STRING),
                name           : Texts,
                group          : Texts,
                instance       : Instances,
                port           : Ports,
                address        : Texts,
                private_ip     : BOOLEAN,
                auto_iam_authn : BOOLEAN,
                extra_args     : Seq(Texts),
                enabled        : BOOLEAN]

ConfigErrors == {"Io", "Json", "UnsupportedVersion", "EmptyProxyBin", "InvalidProxyBin",
                 "InvalidDefaults", "InvalidConnection", "DuplicateId", "DuplicatePort",
                 "DuplicateInstance", "TooManyConnections"}

\* What loading ends in: an error, or a Config.
Refuse(error) == [error |-> error]

Loaded(bin, connections) ==
  [error |-> "none", proxy_bin |-> bin, connections |-> connections]

-----------------------------------------------------------------------------
(* One field at a time.                                                    *)

BoundedAscii(value, max) == value.printable /\ value.len <= max

ValidateName(name) == name.len > 0 /\ BoundedAscii(name, MAX_NAME_LEN)

ValidateGroup(group) ==
  group.len > 0 /\ group.shaped /\ BoundedAscii(group, MAX_GROUP_LEN)

ValidateAddress(address) == address.len > 0 /\ BoundedAscii(address, MAX_ADDRESS_LEN)

\* The rule of src/model.rs once more, in a function of its own.
ValidateId(id) ==
  /\ Len(id) \in 1..64
  /\ id[1] \in Alphanumerics
  /\ \A i \in 2..Len(id) : id[i] \in IdSafe

ValidateInstance(instance) ==
  BoundedAscii(instance, MAX_INSTANCE_LEN) /\ instance.shaped

TotalLen(args) == FoldLeft(LAMBDA total, arg : total + arg.len, 0, args)

ValidateExtraArgs(args) ==
  /\ Len(args) <= MAX_EXTRA_ARGS_COUNT
  /\ \A i \in 1..Len(args) : args[i].printable
  /\ TotalLen(args) <= MAX_EXTRA_ARGS_TOTAL_LEN

ValidatePort(port) == port >= MIN_UNPRIVILEGED_PORT /\ port \notin RESERVED_PORTS

IfSet(value, Valid(_)) == value # Unset => Valid(value)

\* Mutant: what a connection inherits is not looked at.
DefaultsAreTrusted(defaults) == TRUE

ValidateDefaults(defaults) ==
  /\ IfSet(defaults.address, ValidateAddress)
  /\ IfSet(defaults.extra_args, ValidateExtraArgs)

ValidateRawConnection(raw) ==
  /\ ValidateId(raw.id)
  /\ ValidateName(raw.name)
  /\ ValidateGroup(raw.group)
  /\ ValidateInstance(raw.instance)
  /\ ValidatePort(raw.port)
  /\ IfSet(raw.address, ValidateAddress)
  /\ IfSet(raw.extra_args, ValidateExtraArgs)

-----------------------------------------------------------------------------
(* Merge: the connection's own value, else the file's, else the built-in.  *)

DEFAULT_ADDRESS == [text |-> "127.0.0.1", len |-> 9, printable |-> TRUE, shaped |-> TRUE]

DEFAULT_PROXY_BIN ==
  [text |-> "cloud-sql-proxy", len |-> 15, printable |-> TRUE, shaped |-> TRUE]

\* What the provers do not know of the built-in texts.
ASSUME StringsAssumption == {DEFAULT_ADDRESS.text, DEFAULT_PROXY_BIN.text} \subseteq STRING

Pick(own, inherited, builtin) ==
  CASE own # Unset                      -> own
    [] own = Unset /\ inherited # Unset -> inherited
    [] OTHER                            -> builtin

MergeConnection(defaults, raw) ==
  [raw EXCEPT !.address        = Pick(@, defaults.address, DEFAULT_ADDRESS),
              !.private_ip     = Pick(@, defaults.private_ip, FALSE),
              !.auto_iam_authn = Pick(@, defaults.auto_iam_authn, FALSE),
              !.extra_args     = Pick(@, defaults.extra_args, <<>>),
              !.enabled        = Pick(@, defaults.enabled, TRUE)]

-----------------------------------------------------------------------------
(* The whole document.                                                     *)

\* The i-th connection has the field of one before it.
RepeatsId(cs, i) == \E j \in 1..(i - 1) : cs[j].id = cs[i].id
RepeatsPort(cs, i) == \E j \in 1..(i - 1) : cs[j].port = cs[i].port
RepeatsInstance(cs, i) == \E j \in 1..(i - 1) : cs[j].instance = cs[i].instance

Repeats(cs) ==
  {i \in 1..Len(cs) : RepeatsId(cs, i) \/ RepeatsPort(cs, i) \/ RepeatsInstance(cs, i)}

\* check_uniqueness: the first connection that repeats anything, and of what it
\* repeats the id before the port before the instance.
UniquenessError(cs) ==
  LET first == Min(Repeats(cs)) IN
  CASE RepeatsId(cs, first) -> "DuplicateId"
    [] RepeatsPort(cs, first) /\ ~RepeatsId(cs, first) -> "DuplicatePort"
    [] OTHER -> "DuplicateInstance"

ProxyBinOrDefault(bin) == IF bin = Unset THEN DEFAULT_PROXY_BIN ELSE bin

\* Mutant: the cap is what the document may not reach.
CountBelowCap(cs) == Len(cs) < MAX_CONNECTIONS

CheckConnectionCount(cs) == Len(cs) <= MAX_CONNECTIONS

Merged(doc) ==
  [i \in 1..Len(doc.connections) |-> MergeConnection(doc.defaults, doc.connections[i])]

\* parse: the first rule that a document breaks.
Parse(doc) ==
  CASE doc.version # 1 -> Refuse("UnsupportedVersion")
    [] doc.version = 1 /\ ~ValidateDefaults(doc.defaults) -> Refuse("InvalidDefaults")
    [] OTHER ->
         IF \E i \in 1..Len(doc.connections) : ~ValidateRawConnection(doc.connections[i])
           THEN Refuse("InvalidConnection")
         ELSE IF ~CheckConnectionCount(doc.connections) THEN Refuse("TooManyConnections")
         ELSE IF Repeats(doc.connections) # {}
           THEN Refuse(UniquenessError(doc.connections))
         ELSE IF doc.proxy_bin # Unset /\ doc.proxy_bin.len = 0 THEN Refuse("EmptyProxyBin")
         ELSE IF ~BoundedAscii(ProxyBinOrDefault(doc.proxy_bin), MAX_PROXY_BIN_LEN)
           THEN Refuse("InvalidProxyBin")
         ELSE Loaded(ProxyBinOrDefault(doc.proxy_bin), Merged(doc))

Load(file) ==
  CASE file.kind = "unreadable" -> Refuse("Io")
    [] file.kind = "malformed"  -> Refuse("Json")
    [] OTHER                    -> Parse(file)

\* by_id: where the Connection is, or 0.
ById(config, id) ==
  LET found == {i \in 1..Len(config.connections) : config.connections[i].id = id} IN
  IF found = {} THEN 0 ELSE Min(found)

=============================================================================
