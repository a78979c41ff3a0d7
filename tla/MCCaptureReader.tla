-------------------------- MODULE MCCaptureReader --------------------------
(* Layouts for CaptureReader: a PCAP and several PCAPNG files, each cut at  *)
(* every offset, and two short captures read side by side.                  *)
EXTENDS CaptureReader

Laid(kind, id, body, rest) == [kind |-> kind, id |-> id, body |-> body, rest |-> rest, mismatch |-> FALSE]
Broken(b) == [b EXCEPT !.mismatch = TRUE]
Global == Laid("global", 0, 0, 0)
Pcap(n) == Laid("pcap", 0, n, 0)
Section(n) == Laid("section", 0, 0, n)
Described1 == Laid("interface", 1, 2, 0)
Described2 == Laid("interface", 2, 4, 0)
Enhanced(id, n, m) == Laid("enhanced", id, n, m)
Simple(n, m) == Laid("simple", 0, n, m)
Other(n) == Laid("other", 0, n, 0)
Invalid == Laid("invalid", 0, 0, 0)

Layouts ==
    {<<Global, Pcap(a), Pcap(b), Pcap(1)>> : a \in {0, 7}, b \in {1, 3}}
    \cup {<<Section(0), Described1, Enhanced(0, a, b), Section(1), Described2, Simple(1, 1)>> : a \in {2, 7}, b \in {0, 3}}
    \cup {<<Section(3), Described1, Described2, Other(1), Enhanced(1, 4, 0)>>,
          <<Section(0), Described1, Simple(3, 0), Section(0), Enhanced(0, 1, 0)>>,
          <<Section(0), Described1, Enhanced(0, 1, 0), Invalid, Enhanced(0, 1, 0)>>,
          <<Section(0), Described1, Enhanced(0, 1, 0), Broken(Enhanced(0, 1, 0))>>,
          <<Section(0), Described1, Enhanced(0, 1, 0), Described1, Described2>>}

Given(f, access, n) == [blocks |-> f, access |-> access, written |-> n]
Accesses == {"local", "remote", "unbuffered", "pipe"}

\* One file of every layout, cut at every offset.
Alone ==
    UNION {{[files |-> [r1 |-> Given(f, access, n)], defer |-> FALSE] :
              access \in Accesses, n \in 0 .. Length(f)} : f \in Layouts}
\* Two files read side by side, by a scan that drains streams or one that does not.
Short == <<Global, Pcap(1)>>
Together ==
    {[files |-> [r1 |-> Given(<<Global, Pcap(1), Pcap(3)>>, a, n), r2 |-> Given(Short, b, m)],
      defer |-> defer] :
        a \in {"local", "remote"}, n \in {11, 15, 18}, b \in {"local", "pipe"}, m \in {10, 11},
        defer \in BOOLEAN}
AllInputs == Alone \cup Together
============================================================================
