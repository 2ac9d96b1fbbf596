------------------------------ MODULE Resolve ------------------------------
(***************************************************************************)
(* resolvePeers (cluster/cluster.go): the addresses this daemon tries for  *)
(* the peers it is configured with, looked up before memberlist is created *)
(* and again at every refresh.  The resolver is external: a name may have  *)
(* another answer each time it is asked, and a lookup may fail.            *)
(***************************************************************************)
EXTENDS Naturals, FiniteSets

CONSTANTS
  Addrs,    \* "host:port" strings
  Literal,  \* those whose host is an IP; the others are textual
  Known,    \* the configured peers, Peer.knownPeers
  Answers   \* the sets of addresses a lookup of each may come back with

ASSUME ResolveAssumption ==
  /\ Literal \subseteq Addrs
  /\ Known \subseteq Addrs /\ IsFiniteSet(Known)
  /\ Answers \in [Known -> SUBSET SUBSET Literal]
  /\ \A k \in Known \cap Literal : Answers[k] = {{k}}

\* removeMyAddr.
Strip(ips, my) == ips \ {my}

\* What the retry loop may end with after an empty first answer: it strips
\* this daemon's own address and with waitIfEmpty asks until one is left.
AskedAgain(k, my, waitIfEmpty) ==
  {ips \in {Strip(answer, my) : answer \in Answers[k]} : waitIfEmpty => ips # {}}

\* A lookup that fails at once leaves the configured string ("Assume direct
\* address"); an answer that is not empty is taken as it is.
Found(k, my, waitIfEmpty) ==
  {ips \in Answers[k] : ips # {}}
    \cup {ips \in AskedAgain(k, my, waitIfEmpty) : {} \in Answers[k]}
    \cup {ips \in {{k}} : k \notin Literal}

\* The outcomes of resolvePeers, by configured peer.
Resolutions(my, waitIfEmpty) ==
  LET Outcomes == [k \in Known |-> Found(k, my, waitIfEmpty)] IN
  {found \in [Known -> UNION {Outcomes[k] : k \in Known}] :
     \A k \in Known : found[k] \in Outcomes[k]}

\* It fails as a whole when a lookup fails in the retry loop.
MayFail == \E k \in Known : {} \in Answers[k]

\* How often an address occurs in the list it returns.
Occurrences(found, a) == Cardinality({k \in Known : a \in found[k]})

=============================================================================
