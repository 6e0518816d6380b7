---------------------------- MODULE MCDiagnosis ----------------------------
(***************************************************************************)
(* Bounds for Diagnosis. The documents are one valid one and what becomes  *)
(* of it when one or two of its fields are put at, or one past, the limit  *)
(* of a rule; logs is asked of every one, doctor of those that do not load *)
(* and of a few that do. A name on PATH is searched for in two places.     *)
(***************************************************************************)
EXTENDS Diagnosis

Text(text, len) == [text |-> text, len |-> len, printable |-> TRUE, shaped |-> TRUE]
Misshapen(len) == [Text("x", len) EXCEPT !.shaped = FALSE]
Unprintable == [Text("x", 5) EXCEPT !.printable = FALSE]

Repeat(c, n) == [i \in 1..n |-> c]

Connection(id, instance, p) ==
  [id |-> id, name |-> Text("n", 5), group |-> Text("fe", 2),
   instance |-> Text(instance, 20), port |-> p, address |-> Unset,
   private_ip |-> Unset, auto_iam_authn |-> Unset, extra_args |-> Unset, enabled |-> Unset]

Defaults == [address |-> Unset, private_ip |-> Unset, auto_iam_authn |-> Unset,
             extra_args |-> Unset, enabled |-> Unset]

First  == Connection(<<"a", "-", "b">>, "i1", 15432)
Second == Connection(<<"a", "-", "-", "b">>, "i2", 15433)

Document(connections) ==
  [kind |-> "document", version |-> 1, proxy_bin |-> Unset, defaults |-> Defaults,
   connections |-> connections]

Base == Document(<<First, Second>>)

Addresses == {Text("", 0), Text("x", 253), Text("x", 254), Unprintable, Misshapen(9)}

Args == {Repeat(Text("x", 1), 16), Repeat(Text("x", 1), 17), Repeat(Text("x", 1024), 2),
         <<Text("x", 2049)>>, <<Unprintable>>}

\* The first Connection with one field changed.
Changed ==
  {[First EXCEPT !.id = id] :
     id \in {<<>>, Repeat("a", 64), Repeat("a", 65), <<"-", "a">>, <<"_">>,
             <<"a", ".">>, <<"a", "/">>}}
  \cup {[First EXCEPT !.name = t] :
     t \in {Text("", 0), Text("x", 64), Text("x", 65), Unprintable}}
  \cup {[First EXCEPT !.group = t] :
     t \in {Text("", 0), Text("x", 32), Text("x", 33), Misshapen(5)}}
  \cup {[First EXCEPT !.instance = t] :
     t \in {Text("x", 256), Text("x", 257), Misshapen(5), Second.instance}}
  \cup {[First EXCEPT !.port = p] :
     p \in {0, 1023, 1024, 3306, 65535, Second.port}}
  \cup {[First EXCEPT !.address = t] : t \in Addresses}
  \cup {[First EXCEPT !.extra_args = a] : a \in Args}
  \cup {[First EXCEPT !.enabled = FALSE, !.private_ip = TRUE], Second}

Many(n) == Document([i \in 1..n |-> Connection(Repeat("a", i), ToString(i), 20000 + i)])

Documents1 ==
  {Document(<<c, Second>>) : c \in Changed} \cup {Document(<<Second, c>>) : c \in Changed}
  \cup {[Base EXCEPT !.defaults.address = t] : t \in Addresses}
  \cup {[Base EXCEPT !.defaults.extra_args = a] : a \in Args}
  \cup {[Base EXCEPT !.defaults.enabled = FALSE, !.connections[1].enabled = TRUE]}
  \cup {[Base EXCEPT !.proxy_bin = t] :
          t \in {Text("", 0), Text("x", 4095), Text("x", 4096), Unprintable}}
  \cup {[Base EXCEPT !.version = 2], Base, Many(0), Many(32), Many(33)}

\* Two rules broken at once.
Documents2 ==
  {[Many(33) EXCEPT !.connections[33].port = 0],
   [Many(33) EXCEPT !.connections[33].port = 20001],
   [Base EXCEPT !.version = 2, !.connections[1].port = 0],
   [Base EXCEPT !.connections[2] = First, !.proxy_bin = Text("", 0)],
   Document(<<First, [Second EXCEPT !.port = First.port, !.instance = First.instance]>>),
   \* the two ids would make one Unit name if the dot were let through
   Document(<<Connection(<<"a">>, "i1", 15432), Connection(<<"a", ".">>, "i2", 15433)>>)}

MCFiles == {Unreadable, Malformed} \cup Documents1 \cup Documents2

\* What doctor scans: nothing, one Connection, two, one that cannot be probed.
Scanned == {Many(0), Document(<<First>>),
            Document(<<[First EXCEPT !.address = Misshapen(9)], Second>>)}

Refused == {f \in MCFiles : Load(f).error # "none"}

Logs(id, lines) == [command |-> "logs", id |-> id, lines |-> lines, wordy |-> FALSE]
Doctor(wordy) == [command |-> "doctor", id |-> <<>>, lines |-> 0, wordy |-> wordy]

MCRequests ==
  {Logs(id, lines) : id \in {First.id, <<"a">>, <<"z">>}, lines \in {0, 1}} \X MCFiles
  \cup {Doctor(wordy) : wordy \in BOOLEAN} \X (Scanned \cup Refused)

MCSearches ==
  [absolute : {FALSE}, at : {<<x, y>> : x, y \in {"absent", "plain", "executable"}}]
  \cup [absolute : {TRUE}, at : {<<x>> : x \in {"absent", "plain", "executable"}}]

=============================================================================
