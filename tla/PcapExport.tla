----------------------------- MODULE PcapExport -----------------------------
(***************************************************************************)
(* What COPY ... TO (FORMAT PCAP) promises about its destination: the file *)
(* a reader finds there is the one that was there before, or everything    *)
(* one successful export wrote.  Failures leave it alone, and of several   *)
(* exports the last one to be published stays.  Publication is not durable:*)
(* a crash may bring back what the destination held before, but nothing    *)
(* that it never held.                                                     *)
(***************************************************************************)
CONSTANTS
    Copies,         \* COPY statements with the same destination
    Images,         \* the captures they may stand for
    Before          \* what may be at the destination beforehand

VARIABLES
    image,          \* image[c]: the capture statement c stands for
    destination,    \* the content a reader of the destination sees
    held,           \* what the destination may hold after a crash
    running         \* the statements that are being executed

evars == <<image, destination, held, running>>

Init ==
    /\ image \in [Copies -> Images] /\ running = {}
    /\ destination \in Before /\ held = {destination}

Begin(c) == c \notin running /\ running' = running \cup {c} /\ UNCHANGED <<image, destination, held>>

Succeed(c) ==
    /\ c \in running /\ running' = running \ {c}
    /\ destination' = image[c] /\ held' = held \cup {image[c]}
    /\ UNCHANGED image

Fail(c) == c \in running /\ running' = running \ {c} /\ UNCHANGED <<image, destination, held>>

Crash ==
    /\ running' = {}
    /\ destination' \in held /\ held' = {destination'}
    /\ UNCHANGED image

Next == Crash \/ \E c \in Copies : Begin(c) \/ Succeed(c) \/ Fail(c)

Spec == Init /\ [][Next]_evars
============================================================================
