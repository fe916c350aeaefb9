------------------------------ MODULE AtomicBook ------------------------------
(***************************************************************************)
(* What the split store of the P6 book promises: a load that ends while its  *)
(* process holds the lease returns the book as it then stands, although it    *)
(* takes several Redis commands, reuses strings read before the lease was     *)
(* taken, and other processes wrote in between.                             *)
(***************************************************************************)
CONSTANTS
    Procs, None, Keys, Versions,
    Whole      \* the keys every load returns

VARIABLES
    owner,     \* who holds the lease
    book,      \* key -> version stored
    loaded,    \* process -> what its last load under the lease returned
    unsure,    \* keys written by a save that got no answer
    strays     \* keys of which a load may return an old version

Init ==
    /\ owner = None
    /\ book \in [Keys -> Versions]
    /\ loaded = [p \in Procs |-> None]
    /\ unsure = {} /\ strays = {}

(* The lease is taken, released or runs out; who was unsure may be gone.       *)
Turn ==
    /\ owner' \in Procs \cup {None}
    /\ unsure' \subseteq unsure
    /\ UNCHANGED <<book, loaded, strays>>

(* Of the keys a save writes, or one before it wrote without an answer, some   *)
(* may stray.                                                               *)
Write ==
    /\ owner # None
    /\ book' \in [Keys -> Versions]
    /\ LET doubtful == unsure \cup {k \in Keys : book'[k] # book[k]}
       IN unsure' \subseteq doubtful /\ strays \subseteq strays' /\ strays' \ strays \subseteq doubtful
    /\ UNCHANGED <<owner, loaded>>

(* A process whose lease ran out during its load may get anything: it can    *)
(* no longer save.                                                          *)
Load(p) ==
    /\ \A q \in Procs \ {p} : loaded'[q] = loaded[q]
    /\ owner = p =>
          /\ Whole \subseteq DOMAIN loaded'[p]
          /\ \A k \in DOMAIN loaded'[p] \ strays : loaded'[p][k] = book[k]
    /\ UNCHANGED <<owner, book, unsure, strays>>

Next == Turn \/ Write \/ \E p \in Procs : Load(p)

Spec == Init /\ [][Next]_<<owner, book, loaded, unsure, strays>>
=============================================================================
