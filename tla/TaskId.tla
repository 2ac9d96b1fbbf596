------------------------------- MODULE TaskId -------------------------------
(***************************************************************************)
(* The identity of a ping task: TaskID (tasks/manager.go) and the FNV hash *)
(* it is computed with (tasks/fnv.go).  Strings are sequences of bytes, so *)
(* that what runs together without a separator is seen to run together.    *)
(* The hash itself is taken to be injective on the bytes it is fed: a hash *)
(* value is the sequence of those bytes.                                   *)
(***************************************************************************)
EXTENDS Integers, Sequences, FiniteSets

SeparatorByte == 255

\* The bytes of "__addr__".
AddrName == <<95, 95, 97, 100, 100, 114, 95, 95>>

hashNew == <<>>

hashAdd(h, s) == h \o s

hashAddByte(h, b) == Append(h, b)

\* The order of sort.Strings: where they first differ, s ends or has the
\* smaller byte.
Before(s, t) ==
  \E i \in DOMAIN t :
    /\ \A h \in 1 .. i - 1 : h \in DOMAIN s /\ s[h] = t[h]
    /\ i \in DOMAIN s => s[i] < t[i]

\* The sorted names.
LabelNames(labels) ==
  CHOOSE names \in [1 .. Cardinality(DOMAIN labels) -> DOMAIN labels] :
    \A i, j \in DOMAIN names : i < j => Before(names[i], names[j])

FieldsUnseparated(h, name, value) == hashAdd(hashAdd(h, name), value)

\* A name and its value, each closed by the separator.
Fields(h, name, value) ==
  hashAddByte(hashAdd(hashAddByte(hashAdd(h, name), SeparatorByte), value),
              SeparatorByte)

\* The loop over the names: the hash after each of them.
LabelSums(names, labels) ==
  LET sum[i \in 0 .. Len(names)] ==
        IF i = 0 THEN hashNew
        ELSE Fields(sum[i - 1], names[i], labels[names[i]])
  IN sum

\* "labels" is a function from names to values.  Without any label the
\* address is not hashed either.
TaskID(addr, labels) ==
  LET names == LabelNames(labels)
  IN IF labels = <<>> THEN hashNew
     ELSE Fields(LabelSums(names, labels)[Len(names)], AddrName, addr)

=============================================================================
