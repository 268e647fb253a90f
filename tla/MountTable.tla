----------------------------- MODULE MountTable -----------------------------
(***************************************************************************)
(* The kernel's mount table as koob OS uses it: mount(2) in its four forms *)
(* (new, move, make shared, and through /proc/mounts a question) and       *)
(* umount(2).  The kernel is not koob OS code; this is what mounts.go,     *)
(* cgroups.go, squashfs-init and sysutil.go rely on.                       *)
(*                                                                         *)
(* A table is the sequence of mounts in the order they were made.  A path  *)
(* is the sequence of its names, so the root is <<>>.  A lookup ends in    *)
(* the latest mount that is at the path or above it.                       *)
(***************************************************************************)
EXTENDS Naturals, Sequences, SequencesExt, FiniteSets, FiniteSetsExt

CONSTANTS
    Singletons   \* file systems with one instance: the kernel does not stack
                 \* them on themselves (EBUSY)

Root == <<>>

\* The mount in which a lookup of p ends; the root is always mounted.
Lookup(t, p) == Max({i \in DOMAIN t : IsPrefix(t[i].at, p)})

\* Mount i cannot be reached: a later one is over it or over a directory
\* above it.
Covered(t, i) == \E j \in DOMAIN t : j > i /\ IsPrefix(t[j].at, t[i].at)

IsMountPoint(t, p) == t[Lookup(t, p)].at = p

FsAt(t, p) == t[Lookup(t, p)].fs

Below(t, p) == {i \in DOMAIN t : IsPrefix(p, t[i].at)}

Reachable(t, p) == {i \in Below(t, p) : ~Covered(t, i)}

CanMount(t, p, fs) == ~(IsMountPoint(t, p) /\ FsAt(t, p) = fs /\ fs \in Singletons)

\* A mount made below a shared mount is shared.
Mounted(t, p, fs) ==
    Append(t, [at |-> p, fs |-> fs, shared |-> t[Lookup(t, p)].shared])

\* MS_SHARED wants a mount point; with MS_REC also what is mounted below it.
Shared(t, p, rec) ==
    LET chosen == IF rec THEN Reachable(t, p) ELSE {Lookup(t, p)}
    IN [i \in DOMAIN t |-> [t[i] EXCEPT !.shared = @ \/ i \in chosen]]

\* The mounts of a table whose places are in S, in their order.
Rank(S, i) == Cardinality({j \in S : j <= i})
Picked(t, S) == [n \in 1..Cardinality(S) |-> t[CHOOSE i \in S : Rank(S, i) = n]]

Without(t, gone) == Picked(t, DOMAIN t \ gone)

\* umount(2) of p: EBUSY while something is mounted below.
CanUnmount(t, p) == IsMountPoint(t, p) /\ Reachable(t, p) = {Lookup(t, p)}
Unmounted(t, p) == Without(t, {Lookup(t, p)})

Rebased(m, from, to) == [m EXCEPT !.at = to \o SubSeq(@, Len(from) + 1, Len(@))]

\* The tree at `from` hangs below `to` afterwards.
Moved(t, from, to) ==
    LET tree == Picked(t, Reachable(t, from))
    IN Without(t, Reachable(t, from)) \o [i \in DOMAIN tree |-> Rebased(tree[i], from, to)]

\* What a process sees whose root directory is `top`.
Chrooted(t, top) ==
    LET inside == Picked(t, Below(t, top))
    IN [i \in DOMAIN inside |-> Rebased(inside[i], top, Root)]
=============================================================================
