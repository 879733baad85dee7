--------------------------- MODULE AddressSpaces ---------------------------
(***************************************************************************)
(* What the page tables promise (paging.h): one address space per process  *)
(* and one of the kernel.  The upper half is the kernel's and every space  *)
(* shows it as the kernel sees it, whenever it was mapped; what is below   *)
(* belongs to one space alone.                                             *)
(***************************************************************************)
EXTENDS Integers

CONSTANTS KernelStart, KernelPages,
          Kernel, Processes,
          Frames,          \* the physical pages of programs
          Regions,         \* <<first, pages, physical>>: what the kernel maps
          LowPages         \* the pages it maps to themselves
VARIABLES spaces,          \* the kernel and the processes that have a space
          view             \* <<space, page, physical page, whether programs may use it>>

OfKernel(page) == page >= KernelStart

Init == /\ spaces = {Kernel}
        /\ view = {<<Kernel, KernelStart + i, i, FALSE>> : i \in 0 .. KernelPages - 1}

\* A page shows one thing, and no frame is shown to programs twice, in one
\* space or in two.
Apart(v) == \A m, n \in v : \/ m = n
                            \/ m[1] # n[1] /\ ~(m[4] /\ n[4])
                            \/ m[2] # n[2] /\ ~(m[4] /\ n[4] /\ m[3] = n[3])
                            \/ m[3] # n[3] /\ m[1] # n[1]

\* The process p gets frames where it had nothing.
MapUser(p, old, new) ==
    /\ p \in spaces /\ spaces' = spaces
    /\ old \subseteq new
    /\ \A m \in new \ old : m[1] = p /\ ~OfKernel(m[2]) /\ m[3] \in Frames /\ m[4]
    /\ Apart(new)

\* A new process sees the kernel and one page of its own.
NewSpace(p, old, new) ==
    /\ p \notin spaces /\ spaces' = spaces \cup {p}
    /\ LET shared == {m \in old : m[1] = Kernel /\ OfKernel(m[2])}
           own == new \ (old \cup {<<p, m[2], m[3], m[4]>> : m \in shared})
       IN /\ \A m \in shared : <<p, m[2], m[3], m[4]>> \in new
          /\ old \subseteq new
          /\ \E m \in own : own = {m} /\ m[1] = p /\ m[4] /\ m[3] \in Frames
    /\ Apart(new)

\* Every space that is there sees a region that the kernel maps.
MapKernel(first, n, phys, old, new) ==
    LET region == first .. first + n - 1
    IN /\ spaces' = spaces
       /\ new = {m \in old : m[2] \notin region}
                  \cup {<<s, page, phys + page - first, FALSE>> :
                          s \in spaces, page \in region}

\* A low page, which only the kernel's own space shows.
MapIdentity(page, old, new) ==
    /\ spaces' = spaces
    /\ new = {m \in old : m[1] # Kernel \/ m[2] # page} \cup {<<Kernel, page, page, FALSE>>}

Changes(old, new) ==
    \/ new = old /\ spaces' = spaces
    \/ \E p \in Processes : NewSpace(p, old, new) \/ MapUser(p, old, new)
    \/ \E r \in Regions : MapKernel(r[1], r[2], r[3], old, new)
    \/ \E page \in LowPages : MapIdentity(page, old, new)

Next == \E old \in {view}, new \in {view'} : Changes(old, new)

Spec == Init /\ [][Next]_<<spaces, view>>
=============================================================================
