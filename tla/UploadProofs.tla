----------------------------- MODULE UploadProofs ---------------------------
(***************************************************************************)
(* Proofs about background uploads and their ownership ledger, for any     *)
(* number of uploads, user actions, crashes and failed writes: which files *)
(* of a user are left alone, the picture in use is there, a record names   *)
(* the place of its file, and a file the store made keeps its record.      *)
(***************************************************************************)
EXTENDS UploadStore, FiniteSetTheorems, TLAPS

-----------------------------------------------------------------------------
(* What the properties rest on.  The file an upload made is somewhere under *)
(* its names (Mine), was taken away by a user (Away), or is gone (Lost).    *)
(*   Placed   a file has one name, and the only file of the store among an  *)
(*            upload's names is the one it made;                            *)
(*   Tracks   a record that is not settled names the place of the file, and *)
(*            once the store has removed the file it names only the place   *)
(*            where it did so;                                              *)
(*   Memory   what the store knows at each point of a transaction, and that *)
(*            before a rename, and after it, both names are on disk;        *)
(*   Shown    the upload the configuration names is under its final name,   *)
(*            and at no point from where it would be moved.                 *)

InPlace(u, p) == made[u] # None /\ dir[u][p] = made[u] /\ owner[made[u]] = "store"
Mine(u) == \E p \in Places : InPlace(u, p)
Away(u) == u \in taken
Lost(u) == made[u] # None /\ ~Mine(u) /\ ~Away(u)

Placed ==
  /\ \A u \in Uploads, p \in Places : dir[u][p] # None =>
       /\ owner[dir[u][p]] \in {"store", "user"}
       /\ owner[dir[u][p]] = "store" => dir[u][p] = made[u]
  /\ \A u, v \in Uploads, p, q \in Places :
       dir[u][p] # None /\ dir[u][p] = dir[v][q] => u = v /\ p = q

\* A record that says where its file is: not settled, or empty.
Live(r) == r # None /\ (r.state # "committed" \/ r.inode = None)
Names(r) == IF r.inode = None THEN {"part"} ELSE r.paths

Tracks(u, r) ==
  /\ r # None => r.inode \in {None, made[u]}
  /\ Live(r) => \A p \in Places : InPlace(u, p) => p \in Names(r)
  /\ Owns(r) /\ Lost(u) => r.paths = {"quarantine"}

Pair(u) == {move[u].from, move[u].to}
Renames == {"prepare", "rename", "finish", "harden", "undo", "raised"}
Serving(u) == \/ uploadAt[u] \in {"reserved", "created", "bound", "staged", "promoted"}
              \/ uploadAt[u] \in Renames /\ moving[u] \in {"commit", "promote"}

\* Which names a rename is between.
Moves(u) ==
  /\ moving[u] = "commit" => /\ Pair(u) = {"part", "staged"}
                             /\ move[u].undo \/ move[u].to = "staged"
  /\ moving[u] = "promote" => /\ Pair(u) = {"staged", "final"}
                              /\ move[u].undo \/ move[u].to = "final"
  /\ moving[u] = "rollback" => Pair(u) = {"staged", "final"}
  /\ moving[u] = "quarantine" => /\ move[u].to = "quarantine" /\ move[u].from # "quarantine"
                                 /\ ~move[u].undo /\ uploadAt[u] \notin {"undo", "raised"}
                                 /\ uploadAt[u] = "prepare" => mem[u].paths = {move[u].from}
  /\ moving[u] # "none" /\ mem[u].paths \subseteq Pair(u)
  /\ uploadAt[u] \in {"rename", "finish"} => mem[u].paths = Pair(u)
  /\ uploadAt[u] = "harden" => mem[u].paths = {move[u].to}
  /\ uploadAt[u] = "undo" => ~move[u].undo

Memory(u) ==
  /\ uploadAt[u] \in {"new", "unmarked", "unlisted"} => mem[u] = None
  /\ uploadAt[u] = "unlisted" => disk[u] = None
  /\ uploadAt[u] \in {"new", "unmarked", "reserved"} => made[u] = None
  /\ uploadAt[u] \in {"reserved", "created"} => mem[u] = Begun /\ disk[u] = Begun
  /\ uploadAt[u] = "created" => Away(u) \/ InPlace(u, "part")
  /\ uploadAt[u] \in Renames \cup {"bound", "staged", "promoted", "rollback", "settle",
                                   "putback", "remove", "unlink"} => Owns(mem[u])
  /\ uploadAt[u] \in Renames => Moves(u)
  /\ uploadAt[u] = "bound" => mem[u].paths = {"part"}
  /\ uploadAt[u] = "staged" => mem[u].paths = {"staged"}
  /\ uploadAt[u] = "promoted" => mem[u].paths = {"final"}
  /\ uploadAt[u] = "rollback" => mem[u].paths \subseteq {"staged", "final"}
  /\ uploadAt[u] \in {"remove", "unlink"} => mem[u].paths = {"quarantine"}
  /\ uploadAt[u] = "unlink" =>
       dir[u]["quarantine"] = None \/ dir[u]["quarantine"] = mem[u].inode \/ u \in late
  /\ uploadAt[u] \in {"rename", "finish", "harden", "reconcile", "remove", "unlink", "drop"} =>
       disk[u] = mem[u]
  /\ uploadAt[u] \in {"forget", "dropped"} => mem[u] # None /\ mem[u].state = "committed"
  /\ uploadAt[u] \in {"discard", "failing", "cleanup", "reconcile", "drop", "dropped"} =>
       Live(mem[u])
  /\ uploadAt[u] = "drop" => mem[u].inode = None \/ ~Mine(u)
  /\ uploadAt[u] = "recover" => disk[u] # None /\ mem[u] = Recovered(disk[u])
  /\ uploadAt[u] = "adopt" =>
       mem[u] # None /\ (mem[u].state = "committed" \/ (Owns(mem[u]) /\ active = u))
  /\ Serving(u) => mem[u].state = "active" /\ Served
  /\ Owns(disk[u]) /\ Mine(u) => Owns(mem[u])

Shown(u) ==
  active = u => /\ made[u] # None
                /\ Away(u) \/ InPlace(u, "final")
                /\ up /\ ~Away(u) =>
                     /\ uploadAt[u] \in {"settle", "forget", "rest", "recover", "adopt"}
                     /\ uploadAt[u] \in {"settle", "forget", "rest"} =>
                          mem[u] = None \/ mem[u].state # "cleanup"

File(u) ==
  /\ uploadAt[u] = "new" => made[u] = None /\ disk[u] = None
  /\ Away(u) => made[u] # None /\ ~Mine(u)
  /\ Tracks(u, mem[u]) /\ Tracks(u, disk[u])
  /\ up => Memory(u)
  /\ Shown(u)

FileInv ==
  /\ UploadTypes /\ Placed
  /\ ~up => \A u \in Uploads : mem[u] = None
  /\ \A u \in Uploads : File(u)

-----------------------------------------------------------------------------
(* Records.                                                                 *)

LEMMA SmallSets ==
  /\ \A p \in Places : {p} \in SUBSET Places /\ Cardinality({p}) \in {1, 2}
  /\ \A p, q \in Places : p # q => {p, q} \in SUBSET Places /\ Cardinality({p, q}) \in {1, 2}
  /\ \A ps \in SUBSET Places, qs \in SUBSET Places :
       Cardinality(ps) \in {1, 2} /\ qs \subseteq ps /\ qs # {} => Cardinality(qs) \in {1, 2}
  <1>1. \A p : Cardinality({p}) = 1 /\ IsFiniteSet({p})
    BY FS_Singleton
  <1>2. ASSUME NEW p, NEW q, p # q PROVE Cardinality({p, q}) = 2
    <2>1. Cardinality({p} \cup {q}) = Cardinality({p}) + 1
      BY <1>1, <1>2, FS_AddElement
    <2>2. {p} \cup {q} = {p, q} /\ Cardinality({p}) = 1
      BY <1>1
    <2> QED
      BY <2>1, <2>2
  <1>3. IsFiniteSet(Places)
    <2>1. IsFiniteSet({} \cup {"part"} \cup {"staged"} \cup {"final"} \cup {"quarantine"})
      BY FS_EmptySet, FS_AddElement
    <2>2. Places = {} \cup {"part"} \cup {"staged"} \cup {"final"} \cup {"quarantine"}
      BY DEF Places
    <2> QED
      BY <2>1, <2>2
  <1>4. ASSUME NEW ps \in SUBSET Places, NEW qs \in SUBSET Places,
               Cardinality(ps) \in {1, 2}, qs \subseteq ps, qs # {}
        PROVE  Cardinality(qs) \in {1, 2}
    <2>1. IsFiniteSet(ps) /\ IsFiniteSet(qs)
      BY <1>3, FS_Subset
    <2>2. Cardinality(qs) <= Cardinality(ps) /\ Cardinality(qs) \in Nat
      BY <1>4, <2>1, FS_Subset, FS_CardinalityType
    <2>3. Cardinality(qs) # 0
      BY <1>4, <2>1, FS_EmptySet
    <2> QED
      BY <1>4, <2>2, <2>3
  <1> QED
    BY <1>1, <1>2, <1>4

\* What the record operations change, and what they leave.
LEMMA Edits ==
  ASSUME NEW r \in Record
  PROVE  /\ \A ps \in SUBSET Places : Cardinality(ps) \in {1, 2} =>
              /\ [r EXCEPT !.paths = ps] \in Record /\ [r EXCEPT !.paths = ps].paths = ps
              /\ [r EXCEPT !.paths = ps].inode = r.inode
              /\ [r EXCEPT !.paths = ps].state = r.state
         /\ /\ [r EXCEPT !.state = "cleanup"] \in Record
            /\ [r EXCEPT !.state = "cleanup"].paths = r.paths
            /\ [r EXCEPT !.state = "cleanup"].inode = r.inode
            /\ [r EXCEPT !.state = "cleanup"].state = "cleanup"
         /\ /\ Committed(r) \in Record /\ Committed(r).paths = r.paths
            /\ Committed(r).inode = r.inode /\ Committed(r).state = "committed"
         /\ /\ Emptied(r) \in Record /\ Emptied(r).inode = None
            /\ Emptied(r).state = "committed"
         /\ \A i \in Inodes :
              /\ [r EXCEPT !.paths = {"part"}, !.inode = i] \in Record
              /\ [r EXCEPT !.paths = {"part"}, !.inode = i].paths = {"part"}
              /\ [r EXCEPT !.paths = {"part"}, !.inode = i].inode = i
              /\ [r EXCEPT !.paths = {"part"}, !.inode = i].state = r.state
         /\ r # None
  <1>1. r.paths \in SUBSET Places /\ Cardinality(r.paths) \in {1, 2} /\ r.paths # {}
    BY FS_EmptySet DEF Record
  <1>2. ASSUME NEW ps \in SUBSET Places, Cardinality(ps) \in {1, 2}
        PROVE  /\ [r EXCEPT !.paths = ps] \in Record /\ [r EXCEPT !.paths = ps].paths = ps
               /\ [r EXCEPT !.paths = ps].inode = r.inode
               /\ [r EXCEPT !.paths = ps].state = r.state
    BY <1>2 DEF Record
  <1>3. /\ [r EXCEPT !.state = "cleanup"] \in Record
        /\ [r EXCEPT !.state = "cleanup"].paths = r.paths
        /\ [r EXCEPT !.state = "cleanup"].inode = r.inode
        /\ [r EXCEPT !.state = "cleanup"].state = "cleanup"
    BY DEF Record
  <1>4. /\ Committed(r) \in Record /\ Committed(r).paths = r.paths
        /\ Committed(r).inode = r.inode /\ Committed(r).state = "committed"
    BY DEF Record, Committed
  <1>5. /\ Emptied(r) \in Record /\ Emptied(r).inode = None /\ Emptied(r).state = "committed"
    <2>1. PICK p : p = CHOOSE q \in r.paths : TRUE
      OBVIOUS
    <2>2. p \in r.paths
      BY <1>1, <2>1
    <2>3. {p} \in SUBSET Places /\ Cardinality({p}) \in {1, 2}
      BY <1>1, <2>2, SmallSets
    <2>4. Emptied(r) = [Committed(r) EXCEPT !.inode = None, !.paths = {p}]
      BY <1>4, <2>1 DEF Emptied
    <2> QED
      BY <1>4, <2>3, <2>4 DEF Record
  <1>6. ASSUME NEW i \in Inodes
        PROVE  /\ [r EXCEPT !.paths = {"part"}, !.inode = i] \in Record
               /\ [r EXCEPT !.paths = {"part"}, !.inode = i].paths = {"part"}
               /\ [r EXCEPT !.paths = {"part"}, !.inode = i].inode = i
               /\ [r EXCEPT !.paths = {"part"}, !.inode = i].state = r.state
    <2>1. {"part"} \in SUBSET Places /\ Cardinality({"part"}) \in {1, 2}
      BY SmallSets DEF Places
    <2> QED
      BY <2>1 DEF Record
  <1> QED
    BY <1>2, <1>3, <1>4, <1>5, <1>6, NoneIsNoRecord

LEMMA Marked ==
  ASSUME NEW r \in Record
  PROVE  /\ [r EXCEPT !.state = "cleanup"] \in Record /\ r # None
         /\ [r EXCEPT !.state = "cleanup"].inode = r.inode
         /\ [r EXCEPT !.state = "cleanup"].state = "cleanup"
  BY Edits

LEMMA Begins ==
  /\ Begun \in Record /\ Begun # None
  /\ Begun.inode = None /\ Begun.paths = {"part"} /\ Begun.state = "active"
  <1>1. {"part"} \in SUBSET Places /\ Cardinality({"part"}) \in {1, 2}
    BY SmallSets DEF Places
  <1> QED
    BY <1>1, NoneIsNoRecord DEF Begun, Record

\* Reconciling a record keeps its inode and its state, and changes its names only to
\* those that hold the inode.
LEMMA Reconciling ==
  ASSUME NEW u, mem[u] \in Record
  PROVE  /\ Reconciled(u) \in Record /\ Reconciled(u).inode = mem[u].inode
         /\ Reconciled(u).state = mem[u].state
         /\ Reconciled(u).paths = IF Matches(u) = {} THEN mem[u].paths ELSE Matches(u)
         /\ Matches(u) \subseteq mem[u].paths
         /\ \A p \in mem[u].paths : p \in Matches(u) <=>
              mem[u].inode # None /\ dir[u][p] = mem[u].inode
  <1>1. /\ Matches(u) \subseteq mem[u].paths
        /\ \A p \in mem[u].paths : p \in Matches(u) <=>
             mem[u].inode # None /\ dir[u][p] = mem[u].inode
    BY DEF Matches
  <1>2. mem[u].paths \in SUBSET Places /\ Cardinality(mem[u].paths) \in {1, 2}
    BY DEF Record
  <1>3. CASE Matches(u) = {}
    BY <1>1, <1>3 DEF Reconciled
  <1>4. CASE Matches(u) # {}
    <2>1. Matches(u) \in SUBSET Places /\ Cardinality(Matches(u)) \in {1, 2}
      BY <1>1, <1>2, <1>4, SmallSets
    <2>2. Reconciled(u) = [mem[u] EXCEPT !.paths = Matches(u)]
      BY <1>4 DEF Reconciled
    <2>3. /\ [mem[u] EXCEPT !.paths = Matches(u)] \in Record
          /\ [mem[u] EXCEPT !.paths = Matches(u)].paths = Matches(u)
          /\ [mem[u] EXCEPT !.paths = Matches(u)].inode = mem[u].inode
          /\ [mem[u] EXCEPT !.paths = Matches(u)].state = mem[u].state
      BY <2>1 DEF Record
    <2> QED
      BY <1>1, <1>4, <2>2, <2>3
  <1> QED
    BY <1>3, <1>4

-----------------------------------------------------------------------------
(* What a step of one upload leaves alone.                                  *)

\* A step of upload u: another upload keeps its files, records and labels, an inode that
\* changes hands was free or one of u's, and the configuration comes to name u or nothing.
Elsewhere(u) ==
  \A v \in Uploads : v # u =>
    /\ dir'[v] = dir[v] /\ disk'[v] = disk[v] /\ uploadAt'[v] = uploadAt[v]
    /\ moving'[v] = moving[v] /\ move'[v] = move[v] /\ made'[v] = made[v]
    /\ (v \in taken' <=> v \in taken) /\ (v \in late' <=> v \in late)
    /\ mem'[v] = mem[v] \/ (mem'[v] = None /\ ~up')

HandsOver(u) ==
  \A i \in Inodes : \/ owner'[i] = owner[i] \/ owner[i] = "free"
                    \/ owner'[i] = "free" /\ \E p \in Places : dir[u][p] = i

Names1(u) == active' = active \/ (Served /\ active' \in {u, None})

StepOf(u) ==
  /\ Elsewhere(u) /\ HandsOver(u) /\ Names1(u)
  /\ up' => up
  /\ Served /\ up' => Served'

LEMMA PlacesStay ==
  ASSUME FileInv, NEW u \in Uploads, NEW v \in Uploads, v # u, StepOf(u)
  PROVE  /\ \A p \in Places : InPlace(v, p)' <=> InPlace(v, p)
         /\ Mine(v)' <=> Mine(v)
         /\ Away(v)' <=> Away(v)
         /\ Lost(v)' <=> Lost(v)
  <1>0. /\ dir'[v] = dir[v] /\ made'[v] = made[v] /\ made[v] \in Inodes \cup {None}
        /\ \A p \in Places : dir[v][p] \in Inodes \cup {None}
    BY DEF StepOf, Elsewhere, FileInv, UploadTypes, LedgerTypeOK
  <1>1. /\ \A p \in Places : dir[v][p] # None => owner[dir[v][p]] \in {"store", "user"}
        /\ \A p \in Places : dir[u][p] # None => owner[dir[u][p]] \in {"store", "user"}
        /\ \A p, q \in Places : dir[v][p] # None => dir[v][p] # dir[u][q]
    BY DEF FileInv, Placed
  <1>2. \A i \in Inodes : \/ owner'[i] = owner[i] \/ owner[i] = "free"
                          \/ owner'[i] = "free" /\ \E p \in Places : dir[u][p] = i
    BY DEF StepOf, HandsOver
  <1>3. ASSUME NEW p \in Places PROVE InPlace(v, p)' <=> InPlace(v, p)
    <2>1. dir[v][p] # None => owner'[dir[v][p]] = owner[dir[v][p]]
      BY <1>0, <1>1, <1>2
    <2> QED
      BY <1>0, <2>1 DEF InPlace
  <1>4. Mine(v)' <=> Mine(v)
    BY <1>3 DEF Mine
  <1>5. Away(v)' <=> Away(v)
    BY DEF StepOf, Elsewhere, Away
  <1> QED
    BY <1>0, <1>3, <1>4, <1>5 DEF Lost

LEMMA OthersStay ==
  ASSUME FileInv, NEW u \in Uploads, StepOf(u)
  PROVE  \A v \in Uploads : v # u => File(v)'
  <1> SUFFICES ASSUME NEW v \in Uploads, v # u PROVE File(v)'
    OBVIOUS
  <1>0. /\ File(v) /\ (~up => mem[v] = None)
        /\ dir'[v] = dir[v] /\ disk'[v] = disk[v] /\ uploadAt'[v] = uploadAt[v]
        /\ moving'[v] = moving[v] /\ move'[v] = move[v] /\ made'[v] = made[v]
        /\ mem'[v] = mem[v] \/ (mem'[v] = None /\ ~up')
        /\ (v \in late' <=> v \in late)
        /\ up' => up
    BY DEF FileInv, StepOf, Elsewhere
  <1>1. /\ \A p \in Places : InPlace(v, p)' <=> InPlace(v, p)
        /\ Mine(v)' <=> Mine(v)
        /\ Away(v)' <=> Away(v)
        /\ Lost(v)' <=> Lost(v)
    BY PlacesStay
  <1>2. Tracks(v, disk[v])'
    <2>1. Tracks(v, disk[v])
      BY <1>0 DEF File
    <2> QED
      BY <1>0, <1>1, <2>1 DEF Tracks
  <1>3. Tracks(v, mem[v])'
    <2>1. CASE mem'[v] = None
      BY <2>1 DEF Tracks, Live, Owns
    <2>2. CASE mem'[v] = mem[v]
      <3>1. Tracks(v, mem[v])
        BY <1>0 DEF File
      <3> QED
        BY <1>0, <1>1, <2>2, <3>1 DEF Tracks
    <2> QED
      BY <1>0, <2>1, <2>2
  <1>4. ASSUME up' PROVE Memory(v)'
    <2>1. Memory(v) /\ mem'[v] = mem[v] /\ up
      BY <1>0, <1>4 DEF File
    <2>2. Serving(v)' => Served'
      <3>1. Serving(v)' <=> Serving(v)
        BY <1>0 DEF Serving
      <3>2. Served => Served'
        BY <1>4 DEF StepOf
      <3> QED
        BY <2>1, <3>1, <3>2 DEF Memory
    <2>3. uploadAt[v] = "adopt" => active' = active
      BY DEF StepOf, Names1, Served
    <2>4. Moves(v)' <=> Moves(v)
      BY <1>0, <2>1 DEF Moves, Pair
    <2>5. Serving(v)' => mem'[v].state = "active"
      BY <1>0, <2>1 DEF Memory, Serving
    <2>6. InPlace(v, "part")' <=> InPlace(v, "part")
      BY <1>1 DEF Places
    <2> QED
      BY <1>0, <1>1, <2>1, <2>2, <2>3, <2>4, <2>5, <2>6 DEF Memory
  <1>5. Shown(v)'
    <2>1. active' = v => active = v
      BY StoreAssumption DEF StepOf, Names1
    <2>2. InPlace(v, "final")' <=> InPlace(v, "final")
      BY <1>1 DEF Places
    <2>3. Shown(v)
      BY <1>0 DEF File
    <2> QED
      BY <1>0, <1>1, <2>1, <2>2, <2>3 DEF Shown
  <1>6. Away(v)' => made'[v] # None /\ ~Mine(v)'
    BY <1>0, <1>1 DEF File
  <1> QED
    BY <1>0, <1>2, <1>3, <1>4, <1>5, <1>6 DEF File

-----------------------------------------------------------------------------
(* Bookkeeping: the steps that write records and move labels, and no file.  *)

\* The record of upload u is m in memory and d on disk; no other record changes.
Writes(u, m, d) ==
  /\ mem' \in [Uploads -> Record \cup {None}] /\ mem'[u] = m
  /\ disk' \in [Uploads -> Record \cup {None}] /\ disk'[u] = d
  /\ \A v \in Uploads : v # u => mem'[v] = mem[v] /\ disk'[v] = disk[v]
  /\ faults' \in 0..MaxFaults

\* The transaction of u goes to label l; no file is touched.
Steps(u, l) ==
  /\ up /\ up' = up /\ dir' = dir /\ owner' = owner
  /\ made' = made /\ taken' = taken
  /\ late' \subseteq Uploads /\ \A v \in Uploads : v # u => (v \in late' <=> v \in late)
  /\ crashes' = crashes /\ users' = users
  /\ l \in Labels /\ l # "new" /\ uploadAt' = [uploadAt EXCEPT ![u] = l]
  /\ l \in {"recover", "adopt"} => uploadAt[u] \in {"recover", "adopt"}
  /\ moving' \in [Uploads -> Stages] /\ move' \in [Uploads -> Move]
  /\ \A v \in Uploads : v # u => moving'[v] = moving[v] /\ move'[v] = move[v]
  /\ Names1(u) /\ active' \in Uploads \cup {None} /\ activated' \subseteq Uploads

LEMMA Known ==
  ASSUME FileInv, NEW u \in Uploads
  PROVE  /\ mem[u] \in Record \cup {None} /\ disk[u] \in Record \cup {None}
         /\ uploadAt[u] \in Labels /\ moving[u] \in Stages /\ move[u] \in Move
         /\ made[u] \in Inodes \cup {None}
         /\ \A p \in Places : dir[u][p] \in Inodes \cup {None}
         /\ Tracks(u, mem[u]) /\ Tracks(u, disk[u]) /\ Shown(u)
         /\ up => Memory(u)
         /\ uploadAt[u] = "new" => made[u] = None /\ disk[u] = None
         /\ Away(u) => made[u] # None /\ ~Mine(u)
         /\ mem \in [Uploads -> Record \cup {None}] /\ disk \in [Uploads -> Record \cup {None}]
         /\ faults \in 0..MaxFaults
  BY DEF FileInv, UploadTypes, LedgerTypeOK, File

\* A call that failed and changed nothing.
LEMMA OnlyFaults ==
  ASSUME FileInv, faults' \in 0..MaxFaults, UNCHANGED <<dir, owner, mem, disk, store>>
  PROVE  FileInv'
  <1>0. UNCHANGED <<dir, owner, mem, disk, uploadAt, moving, move, active, activated, made,
                    taken, late, up, crashes, users>>
    BY DEF store
  <1>1. UploadTypes' /\ Placed' /\ (~up' => \A u \in Uploads : mem'[u] = None)
    BY <1>0 DEF FileInv, UploadTypes, LedgerTypeOK, Placed
  <1>2. ASSUME NEW u \in Uploads PROVE File(u)'
    <2>1. File(u)
      BY DEF FileInv
    <2>2. /\ Tracks(u, mem[u])' /\ Tracks(u, disk[u])'
          /\ Away(u)' => made'[u] # None /\ ~Mine(u)'
      BY <1>0, <2>1 DEF File, Tracks, InPlace, Mine, Away, Lost
    <2>3. up' => Memory(u)'
      BY <1>0, <2>1 DEF File, Memory, Moves, Pair, Serving, Served, InPlace, Mine, Away
    <2>4. Shown(u)'
      BY <1>0, <2>1 DEF File, Shown, InPlace, Away
    <2> QED
      BY <1>0, <2>1, <2>2, <2>3, <2>4 DEF File
  <1> QED
    BY <1>1, <1>2 DEF FileInv

LEMMA Persisting ==
  ASSUME FileInv, NEW u \in Uploads
  PROVE  /\ UNCHANGED <<mem, disk, faults>> => Writes(u, mem[u], disk[u])
         /\ \A r \in Record \cup {None} : Saved(u, r) => Writes(u, r, r)
         /\ \A k, r \in Record \cup {None} : SaveFails(u, k, r) =>
              Writes(u, k, disk[u]) \/ Writes(u, k, r)
         /\ Forgotten(u) => Writes(u, None, None)
         /\ ForgetFails(u) => Writes(u, mem[u], disk[u]) \/ Writes(u, mem[u], None)
         /\ Fault /\ UNCHANGED <<mem, disk>> => Writes(u, mem[u], disk[u])
  <1>0. /\ mem \in [Uploads -> Record \cup {None}] /\ disk \in [Uploads -> Record \cup {None}]
        /\ faults \in 0..MaxFaults /\ MaxFaults \in Nat
    BY Known, LedgerAssumption
  <1>1. Fault => faults' \in 0..MaxFaults
    BY <1>0 DEF Fault
  <1>2. UNCHANGED <<mem, disk, faults>> => Writes(u, mem[u], disk[u])
    BY <1>0 DEF Writes
  <1>7. Fault /\ UNCHANGED <<mem, disk>> => Writes(u, mem[u], disk[u])
    BY <1>0, <1>1 DEF Writes
  <1>3. ASSUME NEW r \in Record \cup {None}, Saved(u, r) PROVE Writes(u, r, r)
    BY <1>0, <1>3 DEF Writes, Saved
  <1>4. ASSUME NEW k \in Record \cup {None}, NEW r \in Record \cup {None}, SaveFails(u, k, r)
        PROVE  Writes(u, k, disk[u]) \/ Writes(u, k, r)
    <2>1. mem' = [mem EXCEPT ![u] = k] /\ faults' \in 0..MaxFaults
      BY <1>1, <1>4 DEF SaveFails
    <2>2. CASE disk' = disk
      BY <1>0, <2>1, <2>2 DEF Writes
    <2>3. CASE disk' = [disk EXCEPT ![u] = r]
      BY <1>0, <2>1, <2>3 DEF Writes
    <2> QED
      BY <1>4, <2>2, <2>3 DEF SaveFails
  <1>5. Forgotten(u) => Writes(u, None, None)
    BY <1>0 DEF Writes, Forgotten
  <1>6. ASSUME ForgetFails(u) PROVE Writes(u, mem[u], disk[u]) \/ Writes(u, mem[u], None)
    <2>1. mem' = mem /\ faults' \in 0..MaxFaults
      BY <1>1, <1>6 DEF ForgetFails
    <2>2. CASE disk' = disk
      BY <1>0, <2>1, <2>2 DEF Writes
    <2>3. CASE disk' = [disk EXCEPT ![u] = None]
      BY <1>0, <2>1, <2>3 DEF Writes
    <2> QED
      BY <1>6, <2>2, <2>3 DEF ForgetFails
  <1> QED
    BY <1>2, <1>3, <1>4, <1>5, <1>6, <1>7

LEMMA Reconciles ==
  ASSUME FileInv, NEW u \in Uploads, mem[u] \in Record
  PROVE  /\ ReconcileSaves(u) =>
              \/ Reconciled(u) = mem[u] /\ Writes(u, Reconciled(u), disk[u])
              \/ Writes(u, Reconciled(u), Reconciled(u))
         /\ ReconcileFails(u) =>
              \/ Writes(u, Reconciled(u), disk[u]) \/ Writes(u, Reconciled(u), Reconciled(u))
  <1>1. Reconciled(u) \in Record
    BY Reconciling
  <1>2. CASE Reconciled(u) = mem[u]
    BY <1>1, <1>2, Persisting DEF ReconcileSaves, ReconcileFails
  <1>3. CASE Reconciled(u) # mem[u]
    BY <1>1, <1>3, Persisting DEF ReconcileSaves, ReconcileFails
  <1> QED
    BY <1>2, <1>3

\* The bookkeeping of a step that leaves the rename alone.
LEMMA Resting ==
  ASSUME FileInv, NEW u \in Uploads, NEW l \in Labels, l \notin {"new", "recover"},
         l = "adopt" => uploadAt[u] \in {"recover", "adopt"},
         up, Goes(u, l), UNCHANGED <<dir, owner>>, Rest(u)
  PROVE  Steps(u, l) /\ active' = active /\ moving' = moving /\ move' = move
  BY DEF Steps, Goes, Rest, Names1, FileInv, UploadTypes

\* No step moves the file that the configuration names.
LEMMA Hidden ==
  ASSUME FileInv, NEW u \in Uploads, NEW l, Steps(u, l), active' = active,
         uploadAt[u] \notin {"settle", "forget", "rest", "recover", "adopt"}
  PROVE  Shown(u)' /\ (active = u => Away(u))
  <1>1. active = u => made[u] # None /\ Away(u)
    BY Known DEF Shown, Steps
  <1> QED
    BY <1>1 DEF Shown, Steps, Away

LEMMA Bookkeeping ==
  ASSUME FileInv, NEW u \in Uploads, NEW l, NEW m, NEW d, Steps(u, l), Writes(u, m, d),
         Tracks(u, m), Tracks(u, d), Memory(u)', Shown(u)'
  PROVE  FileInv'
  <1>1. UploadTypes'
    <2>1. LedgerTypeOK'
      BY DEF FileInv, UploadTypes, LedgerTypeOK, Steps, Writes
    <2>2. uploadAt' \in [Uploads -> Labels]
      BY DEF FileInv, UploadTypes, Steps
    <2> QED
      BY <2>1, <2>2 DEF FileInv, UploadTypes, Steps
  <1>2. Placed'
    BY DEF FileInv, Placed, Steps
  <1>3. up'
    BY DEF Steps
  <1>4. StepOf(u)
    <2>1. Elsewhere(u)
      <3>1. uploadAt \in [Uploads -> Labels]
        BY DEF FileInv, UploadTypes
      <3> QED
        <4>1. ASSUME NEW v \in Uploads, v # u
              PROVE  /\ dir'[v] = dir[v] /\ disk'[v] = disk[v] /\ uploadAt'[v] = uploadAt[v]
                     /\ moving'[v] = moving[v] /\ move'[v] = move[v] /\ made'[v] = made[v]
                     /\ (v \in taken' <=> v \in taken) /\ (v \in late' <=> v \in late)
                     /\ mem'[v] = mem[v]
          BY <3>1, <4>1 DEF Steps, Writes
        <4> QED
          BY <4>1 DEF Elsewhere
    <2>2. HandsOver(u)
      BY DEF HandsOver, Steps
    <2>3. Served => Served'
      <3>1. uploadAt \in [Uploads -> Labels]
        BY DEF FileInv, UploadTypes
      <3> QED
        BY <3>1 DEF Served, Steps
    <2> QED
      BY <2>1, <2>2, <2>3 DEF StepOf, Steps
  <1>5. \A v \in Uploads : v # u => File(v)'
    BY <1>4, OthersStay
  <1>6. File(u)'
    <2>1. uploadAt'[u] # "new"
      BY DEF Steps, FileInv, UploadTypes
    <2>2. Away(u)' => made'[u] # None /\ ~Mine(u)'
      <3>1. Away(u) => made[u] # None /\ ~Mine(u)
        BY Known
      <3> QED
        BY <3>1 DEF Steps, InPlace, Mine, Away
    <2>3. Tracks(u, mem[u])' /\ Tracks(u, disk[u])'
      <3>1. mem'[u] = m /\ disk'[u] = d
        BY DEF Writes
      <3> QED
        BY <3>1 DEF Steps, Tracks, InPlace, Mine, Away, Lost
    <2> QED
      BY <2>1, <2>2, <2>3 DEF File
  <1> QED
    BY <1>1, <1>2, <1>3, <1>5, <1>6 DEF FileInv

-----------------------------------------------------------------------------
(* What the records that are written track.                                 *)

\* An unwritten or settled record, and one that only changes its state.
LEMMA TracksPlain ==
  ASSUME FileInv, NEW u \in Uploads
  PROVE  /\ Tracks(u, None)
         /\ \A r \in Record : Tracks(u, r) => Tracks(u, Committed(r))
         /\ \A r \in Record : Tracks(u, r) /\ Live(r) =>
                               Tracks(u, [r EXCEPT !.state = "cleanup"])
         /\ (\A p \in Places : InPlace(u, p) => p = "part") => Tracks(u, Begun)
  <1>1. Tracks(u, None)
    BY DEF Tracks, Live, Owns
  <1>2. ASSUME NEW r \in Record, Tracks(u, r) PROVE Tracks(u, Committed(r))
    <2>1. /\ Committed(r).paths = r.paths /\ Committed(r).inode = r.inode
          /\ Committed(r).state = "committed" /\ r # None
      BY Edits
    <2> QED
      BY <1>2, <2>1 DEF Tracks, Live, Owns, Names
  <1>3. ASSUME NEW r \in Record, Tracks(u, r), Live(r)
        PROVE  Tracks(u, [r EXCEPT !.state = "cleanup"])
    <2>1. PICK r2 : r2 = [r EXCEPT !.state = "cleanup"]
      OBVIOUS
    <2>2. r2.paths = r.paths /\ r2.inode = r.inode /\ r2.state = "cleanup" /\ r # None
      BY <2>1, Edits
    <2>3. Tracks(u, r2)
      BY <1>3, <2>2 DEF Tracks, Live, Owns, Names
    <2> QED
      BY <2>1, <2>3
  <1>4. ASSUME \A p \in Places : InPlace(u, p) => p = "part" PROVE Tracks(u, Begun)
    BY <1>4, Begins DEF Tracks, Live, Owns, Names
  <1> QED
    BY <1>1, <1>2, <1>3, <1>4

\* The terminal record of an upload whose file is gone.
LEMMA TracksEmptied ==
  ASSUME FileInv, NEW u \in Uploads, NEW r \in Record, Tracks(u, r), Live(r),
         r.inode = None \/ ~Mine(u)
  PROVE  Tracks(u, Emptied(r))
  <1>1. Emptied(r).inode = None /\ Emptied(r).state = "committed"
    BY Edits
  <1>2. \A p \in Places : InPlace(u, p) => p = "part"
    BY DEF Tracks, Names, Mine
  <1> QED
    BY <1>1, <1>2 DEF Tracks, Live, Owns, Names

LEMMA TracksReconciled ==
  ASSUME FileInv, NEW u \in Uploads, mem[u] \in Record
  PROVE  Tracks(u, Reconciled(u)) /\ (Live(Reconciled(u)) <=> Live(mem[u]))
                                  /\ (Owns(Reconciled(u)) <=> Owns(mem[u]))
  <1>1. /\ Reconciled(u) \in Record /\ Reconciled(u).inode = mem[u].inode
        /\ Reconciled(u).state = mem[u].state
        /\ Reconciled(u).paths = IF Matches(u) = {} THEN mem[u].paths ELSE Matches(u)
        /\ \A p \in mem[u].paths : p \in Matches(u) <=>
             mem[u].inode # None /\ dir[u][p] = mem[u].inode
        /\ Matches(u) \subseteq mem[u].paths
    BY Reconciling
  <1>2. Tracks(u, mem[u]) /\ mem[u] # None /\ Reconciled(u) # None
    BY <1>1, Known, NoneIsNoRecord
  <1>3. (Live(Reconciled(u)) <=> Live(mem[u])) /\ (Owns(Reconciled(u)) <=> Owns(mem[u]))
    BY <1>1, <1>2 DEF Live, Owns
  <1>4. CASE Matches(u) = {}
    BY <1>1, <1>2, <1>3, <1>4 DEF Tracks, Names
  <1>5. CASE Matches(u) # {}
    <2>1. mem[u].inode = made[u] /\ made[u] # None
      BY <1>1, <1>2, <1>5 DEF Tracks
    <2>2. ASSUME Live(Reconciled(u)), NEW p \in Places, InPlace(u, p)
          PROVE  p \in Names(Reconciled(u))
      <3>1. p \in mem[u].paths
        BY <1>2, <1>3, <2>1, <2>2 DEF Tracks, Names
      <3> QED
        BY <1>1, <1>5, <2>1, <2>2, <3>1 DEF InPlace, Names
    <2>3. Owns(Reconciled(u)) /\ Lost(u) => Reconciled(u).paths = {"quarantine"}
      <3>1. Owns(Reconciled(u)) /\ Lost(u) => mem[u].paths = {"quarantine"}
        BY <1>2, <1>3 DEF Tracks
      <3> QED
        BY <1>1, <1>5, <3>1
    <2> QED
      BY <1>1, <1>2, <1>3, <2>1, <2>2, <2>3 DEF Tracks
  <1> QED
    BY <1>3, <1>4, <1>5

\* Before a rename: the names it is between.
LEMMA TracksBoth ==
  ASSUME FileInv, NEW u \in Uploads, NEW r \in Record, Tracks(u, r), Owns(r),
         r.paths # {"quarantine"}, NEW ps \in SUBSET Places, Cardinality(ps) \in {1, 2},
         r.paths \subseteq ps
  PROVE  Tracks(u, [r EXCEPT !.paths = ps])
  <1>1. PICK r2 : r2 = [r EXCEPT !.paths = ps]
    OBVIOUS
  <1>2. r2.paths = ps /\ r2.inode = r.inode /\ r2.state = r.state /\ r # None
    BY <1>1, NoneIsNoRecord DEF Record
  <1>3. ~Lost(u)
    BY DEF Tracks
  <1>4. Tracks(u, r2)
    BY <1>2, <1>3 DEF Tracks, Live, Owns, Names
  <1> QED
    BY <1>1, <1>4

\* After it: the name where the inode is.
LEMMA TracksHere ==
  ASSUME FileInv, NEW u \in Uploads, NEW r \in Record, Tracks(u, r), Owns(r),
         r.paths # {"quarantine"}, NEW p \in Places, dir[u][p] = r.inode
  PROVE  Tracks(u, [r EXCEPT !.paths = {p}])
  <1>1. PICK r2 : r2 = [r EXCEPT !.paths = {p}]
    OBVIOUS
  <1>2. {p} \in SUBSET Places /\ Cardinality({p}) \in {1, 2}
    BY SmallSets
  <1>3. r2.paths = {p} /\ r2.inode = r.inode /\ r2.state = r.state /\ r # None
    BY <1>1, <1>2, NoneIsNoRecord DEF Record
  <1>4. ~Lost(u)
    BY DEF Tracks
  <1>5. r.inode = made[u] /\ made[u] # None
    BY DEF Tracks, Owns
  <1>6. \A q \in Places : InPlace(u, q) => q = p
    BY <1>5 DEF InPlace, FileInv, Placed
  <1>7. Tracks(u, r2)
    BY <1>3, <1>4, <1>5, <1>6 DEF Tracks, Live, Owns, Names
  <1> QED
    BY <1>1, <1>7

LEMMA TracksBound ==
  ASSUME FileInv, NEW u \in Uploads, NEW r \in Record, InPlace(u, "part")
  PROVE  /\ dir[u]["part"] \in Inodes
         /\ Tracks(u, [r EXCEPT !.paths = {"part"}, !.inode = dir[u]["part"]])
  <1>1. PICK r2 : r2 = [r EXCEPT !.paths = {"part"}, !.inode = dir[u]["part"]]
    OBVIOUS
  <1>2. "part" \in Places /\ dir[u]["part"] = made[u] /\ made[u] \in Inodes /\ made[u] # None
    BY Known DEF InPlace, Places
  <1>3. r2.paths = {"part"} /\ r2.inode = made[u] /\ r2.state = r.state /\ r # None
    BY <1>1, <1>2, NoneIsNoRecord DEF Record
  <1>4. ~Lost(u)
    BY <1>2 DEF Lost, Mine
  <1>5. \A q \in Places : InPlace(u, q) => q = "part"
    BY <1>2 DEF InPlace, FileInv, Placed
  <1>6. Tracks(u, r2)
    BY <1>3, <1>4, <1>5 DEF Tracks, Live, Owns, Names
  <1> QED
    BY <1>1, <1>2, <1>6

-----------------------------------------------------------------------------
(* What the store knows after a step of bookkeeping.                        *)

LEMMA Remembered ==
  ASSUME FileInv, NEW u \in Uploads, NEW l, NEW m, NEW d, Steps(u, l), Writes(u, m, d)
  PROVE  /\ uploadAt'[u] = l /\ mem'[u] = m /\ disk'[u] = d /\ made'[u] = made[u]
         /\ (Mine(u)' <=> Mine(u)) /\ (Away(u)' <=> Away(u))
         /\ \A p \in Places : InPlace(u, p)' <=> InPlace(u, p)
         /\ Served /\ l \notin {"recover", "adopt"} => Served'
         /\ up' /\ l # "new"
  <1>1. uploadAt \in [Uploads -> Labels]
    BY DEF FileInv, UploadTypes
  <1>2. uploadAt'[u] = l /\ up' /\ l # "new" /\ made'[u] = made[u]
    BY <1>1 DEF Steps
  <1>3. mem'[u] = m /\ disk'[u] = d
    BY DEF Writes
  <1>4. (Mine(u)' <=> Mine(u)) /\ (Away(u)' <=> Away(u))
    BY DEF Steps, Mine, Away, InPlace
  <1>5. \A p \in Places : InPlace(u, p)' <=> InPlace(u, p)
    BY DEF Steps, InPlace
  <1>6. Served /\ l \notin {"recover", "adopt"} => Served'
    BY <1>1 DEF Steps, Served
  <1> QED
    BY <1>2, <1>3, <1>4, <1>5, <1>6

\* Labels that promise little.
LEMMA Idle ==
  ASSUME FileInv, NEW u \in Uploads, NEW l, NEW m, NEW d, Steps(u, l), Writes(u, m, d),
         l \in {"rest", "cleanup", "discard", "failing", "forget", "dropped", "settle", "rollback",
                "putback"},
         l \in {"cleanup", "discard", "failing", "dropped"} => Live(m),
         l \in {"forget", "dropped"} => m # None /\ m.state = "committed",
         l \in {"settle", "rollback", "putback"} => Owns(m),
         l = "rollback" => m.paths \subseteq {"staged", "final"},
         Owns(d) /\ Mine(u) => Owns(m)
  PROVE  Memory(u)'
  <1>1. /\ uploadAt'[u] = l /\ mem'[u] = m /\ disk'[u] = d
        /\ (Mine(u)' <=> Mine(u))
    BY Remembered
  <1>2. ~Serving(u)'
    BY <1>1 DEF Serving, Renames
  <1>3. l \notin Renames
    BY DEF Renames
  <1> QED
    BY <1>1, <1>2, <1>3 DEF Memory

LEMMA KeepReserve ==
  ASSUME FileInv, NEW u \in Uploads, Reserve(u) \/ ReserveRaises(u) PROVE FileInv'
  <1>0. /\ up /\ Served /\ uploadAt[u] = "new" /\ mem[u] = None /\ disk[u] = None /\ made[u] = None
        /\ UNCHANGED <<dir, owner>> /\ Rest(u)
    BY Known DEF Reserve, ReserveRaises, At, Memory, ledger
  <1>1. Begun \in Record
    BY Begins
  <1>2. Tracks(u, Begun) /\ Tracks(u, None)
    BY <1>0, TracksPlain DEF InPlace
  <1>3. ~Owns(None) /\ ~Owns(Begun)
    BY Begins DEF Owns
  <1>4. ASSUME NEW l \in {"reserved", "unmarked"}, Goes(u, l)
        PROVE  Steps(u, l) /\ Shown(u)'
    <2>1. Steps(u, l) /\ active' = active
      BY <1>0, <1>4, Resting DEF Labels
    <2> QED
      BY <1>0, <2>1, Hidden
  <1>5. ASSUME Saved(u, Begun), Goes(u, "reserved") PROVE FileInv'
    <2>1. Steps(u, "reserved") /\ Shown(u)' /\ Writes(u, Begun, Begun)
      BY <1>1, <1>4, <1>5, Persisting
    <2>2. Memory(u)'
      <3>1. /\ uploadAt'[u] = "reserved" /\ mem'[u] = Begun /\ disk'[u] = Begun
            /\ made'[u] = None /\ Served'
        BY <1>0, <2>1, Remembered
      <3> QED
        BY <3>1, <1>3, Begins DEF Memory, Serving, Renames
    <2> QED
      BY <1>2, <2>1, <2>2, Bookkeeping
  <1>6. ASSUME Goes(u, "unmarked"), NEW d \in {None, Begun}, Writes(u, None, d) PROVE FileInv'
    <2>1. Steps(u, "unmarked") /\ Shown(u)'
      BY <1>4, <1>6
    <2>2. Memory(u)'
      <3>1. /\ uploadAt'[u] = "unmarked" /\ mem'[u] = None /\ disk'[u] = d
            /\ made'[u] = None
        BY <1>0, <1>6, <2>1, Remembered
      <3> QED
        BY <3>1, <1>3 DEF Memory, Serving, Renames
    <2> QED
      BY <1>2, <1>6, <2>1, <2>2, Bookkeeping
  <1>7. CASE Reserve(u)
    <2>1. CASE SaveFails(u, None, Begun) /\ Goes(u, "unmarked")
      BY <1>0, <1>1, <1>6, <2>1, Persisting
    <2> QED
      BY <1>5, <1>7, <2>1 DEF Reserve
  <1>8. CASE ReserveRaises(u)
    <2>1. Writes(u, None, None)
      BY <1>0, <1>8, Persisting DEF ReserveRaises, ledger
    <2> QED
      BY <1>6, <1>8, <2>1 DEF ReserveRaises
  <1> QED
    BY <1>7, <1>8

LEMMA KeepCreateFails ==
  ASSUME FileInv, NEW u \in Uploads, CreateRaises(u) \/ CreateCollides(u) PROVE FileInv'
  <1>0. /\ up /\ uploadAt[u] = "reserved" /\ mem[u] = Begun /\ disk[u] = Begun /\ made[u] = None
        /\ UNCHANGED <<dir, owner>> /\ Rest(u)
    BY Known DEF CreateRaises, CreateCollides, At, Memory
  <1>1. Begun \in Record /\ Committed(Begun) \in Record /\ Tracks(u, Begun)
    <2>1. Tracks(u, mem[u]) /\ Begun \in Record
      BY Known, Begins
    <2> QED
      BY <1>0, <2>1, Edits
  <1>2. Tracks(u, Committed(Begun)) /\ ~Mine(u)
    BY <1>0, <1>1, TracksPlain DEF Mine, InPlace
  <1>3. /\ Committed(Begun) # None /\ Committed(Begun).state = "committed"
        /\ Live(Begun)
    BY <1>1, Begins, Edits DEF Live
  <1>4. ASSUME NEW l \in {"forget", "cleanup"}, Goes(u, l)
        PROVE  Steps(u, l) /\ Shown(u)'
    <2>1. Steps(u, l) /\ active' = active
      BY <1>0, <1>4, Resting DEF Labels
    <2> QED
      BY <1>0, <2>1, Hidden
  <1>5. ASSUME NEW d \in {Begun, Committed(Begun)}, Writes(u, Begun, d), Goes(u, "cleanup")
        PROVE  FileInv'
    <2>1. Steps(u, "cleanup") /\ Shown(u)'
      BY <1>4, <1>5
    <2>2. Memory(u)'
      BY <1>2, <1>3, <1>5, <2>1, Idle
    <2> QED
      BY <1>1, <1>2, <1>5, <2>1, <2>2, Bookkeeping
  <1>6. ASSUME Saved(u, Committed(Begun)), Goes(u, "forget") PROVE FileInv'
    <2>1. Steps(u, "forget") /\ Shown(u)' /\ Writes(u, Committed(Begun), Committed(Begun))
      BY <1>1, <1>4, <1>6, Persisting
    <2>2. Memory(u)'
      BY <1>2, <1>3, <2>1, Idle
    <2> QED
      BY <1>2, <2>1, <2>2, Bookkeeping
  <1>7. CASE CreateRaises(u)
    <2>1. Writes(u, Begun, Begun)
      BY <1>0, <1>7, Persisting DEF CreateRaises
    <2> QED
      BY <1>5, <1>7, <2>1 DEF CreateRaises
  <1>8. CASE CreateCollides(u)
    <2>1. CASE SaveFails(u, Begun, Committed(Begun)) /\ Goes(u, "cleanup")
      BY <1>0, <1>1, <1>5, <2>1, Persisting
    <2> QED
      BY <1>0, <1>6, <1>8, <2>1 DEF CreateCollides
  <1> QED
    BY <1>7, <1>8

LEMMA KeepBind ==
  ASSUME FileInv, NEW u \in Uploads, Bind(u), ~Away(u) PROVE FileInv'
  <1>0. /\ up /\ uploadAt[u] = "created" /\ mem[u] = Begun /\ disk[u] = Begun
        /\ InPlace(u, "part") /\ Served
        /\ UNCHANGED <<dir, owner>> /\ Rest(u)
    <2>1. /\ up /\ uploadAt[u] = "created" /\ mem[u] = Begun /\ disk[u] = Begun
          /\ InPlace(u, "part") /\ Served
      BY Known DEF Bind, At, Memory, Serving
    <2>2. made' = made
      <3>1. made \in [Uploads -> Inodes \cup {None}]
        BY DEF FileInv, UploadTypes
      <3> QED
        BY <2>1, <3>1 DEF Bind, InPlace
    <2> QED
      BY <2>1, <2>2 DEF Bind, Rest
  <1>1. PICK r : r = [mem[u] EXCEPT !.paths = {"part"}, !.inode = dir[u]["part"]]
    OBVIOUS
  <1>2. Begun \in Record /\ Tracks(u, Begun) /\ ~Owns(Begun) /\ Begun.state = "active"
    BY <1>0, Begins, Known DEF Owns
  <1>3. dir[u]["part"] \in Inodes /\ Tracks(u, r)
    BY <1>0, <1>1, <1>2, TracksBound
  <1>4. /\ r \in Record /\ r # None /\ r.paths = {"part"} /\ r.inode = dir[u]["part"]
        /\ r.state = "active"
    <2>1. {"part"} \in SUBSET Places /\ Cardinality({"part"}) \in {1, 2}
      BY SmallSets DEF Places
    <2> QED
      BY <1>0, <1>1, <1>2, <1>3, <2>1, NoneIsNoRecord DEF Record
  <1>5. Owns(r) /\ Live(r)
    BY <1>3, <1>4, LedgerAssumption DEF Owns, Live
  <1>6. ASSUME NEW l \in {"bound", "cleanup"}, Goes(u, l)
        PROVE  Steps(u, l) /\ Shown(u)'
    <2>1. Steps(u, l) /\ active' = active
      BY <1>0, <1>6, Resting DEF Labels
    <2> QED
      BY <1>0, <2>1, Hidden
  <1>7. ASSUME Saved(u, r), Goes(u, "bound") PROVE FileInv'
    <2>1. Steps(u, "bound") /\ Shown(u)' /\ Writes(u, r, r)
      BY <1>4, <1>6, <1>7, Persisting
    <2>2. Memory(u)'
      <3>1. uploadAt'[u] = "bound" /\ mem'[u] = r /\ disk'[u] = r /\ Served'
        BY <1>0, <2>1, Remembered
      <3> QED
        BY <3>1, <1>4, <1>5 DEF Memory, Serving, Renames
    <2> QED
      BY <1>3, <2>1, <2>2, Bookkeeping
  <1>8. ASSUME SaveFails(u, r, r), Goes(u, "cleanup") PROVE FileInv'
    <2>1. Steps(u, "cleanup") /\ Shown(u)'
      BY <1>6, <1>8
    <2>2. PICK d \in {Begun, r} : Writes(u, r, d)
      BY <1>0, <1>4, <1>8, Persisting
    <2>3. Memory(u)'
      BY <1>5, <2>1, <2>2, Idle
    <2> QED
      BY <1>2, <1>3, <2>1, <2>2, <2>3, Bookkeeping
  <1> QED
    BY <1>1, <1>7, <1>8 DEF Bind

\* Where the user has taken the file and put one of his own there.
LEMMA KeepBindTaken ==
  ASSUME FileInv, NEW u \in Uploads, Bind(u), Away(u) PROVE FileInv'
  <1>0. /\ up /\ uploadAt[u] = "created" /\ mem[u] = Begun /\ disk[u] = Begun /\ Served
        /\ made[u] # None /\ ~Mine(u) /\ dir[u]["part"] \in Inodes
        /\ made' = [made EXCEPT ![u] = dir[u]["part"]]
        /\ UNCHANGED <<dir, owner, moving, move, active, activated, taken, late, up, crashes, users>>
    BY Known DEF Bind, At, Memory, Serving, Places
  <1>1. PICK r : r = [mem[u] EXCEPT !.paths = {"part"}, !.inode = dir[u]["part"]]
    OBVIOUS
  <1>2. /\ r \in Record /\ r # None /\ r.paths = {"part"} /\ r.inode = dir[u]["part"]
        /\ r.state = "active" /\ Begun # None /\ Begun.inode = None /\ Begun \in Record
    <2>1. Begun \in Record /\ Begun # None /\ Begun.inode = None /\ Begun.state = "active"
      BY Begins
    <2>2. {"part"} \in SUBSET Places /\ Cardinality({"part"}) \in {1, 2}
      BY SmallSets DEF Places
    <2> QED
      BY <1>0, <1>1, <2>1, <2>2, NoneIsNoRecord DEF Record
  <1>3. Owns(r) /\ Live(r) /\ ~Owns(Begun)
    BY <1>0, <1>2, LedgerAssumption DEF Owns, Live
  <1>4. /\ made' \in [Uploads -> Inodes \cup {None}] /\ made'[u] = dir[u]["part"]
        /\ made'[u] # None /\ \A v \in Uploads : v # u => made'[v] = made[v]
    BY <1>0, LedgerAssumption DEF FileInv, UploadTypes
  <1>5. \A p \in Places : dir[u][p] # None => owner[dir[u][p]] = "user"
    <2>1. SUFFICES ASSUME NEW p \in Places, dir[u][p] # None, owner[dir[u][p]] = "store"
                   PROVE  FALSE
      BY DEF FileInv, Placed
    <2>2. dir[u][p] = made[u]
      BY <2>1 DEF FileInv, Placed
    <2> QED
      BY <1>0, <2>1, <2>2 DEF Mine, InPlace
  <1>6. Placed'
    BY <1>0, <1>4, <1>5 DEF FileInv, Placed
  <1>7. ~Mine(u)' /\ Away(u)' /\ ~Lost(u)' /\ \A p \in Places : ~InPlace(u, p)'
    <2>1. \A p \in Places : ~InPlace(u, p)'
      BY <1>0, <1>4, <1>5 DEF InPlace
    <2> QED
      BY <1>0, <2>1 DEF Mine, Away, Lost
  <1>8. ASSUME NEW l \in {"bound", "cleanup"}, Goes(u, l), NEW d \in {Begun, r},
               Writes(u, r, d), l = "bound" => d = r
        PROVE  FileInv'
    <2>1. /\ uploadAt' \in [Uploads -> Labels] /\ uploadAt'[u] = l
          /\ \A v \in Uploads : v # u => uploadAt'[v] = uploadAt[v]
      BY <1>8 DEF Goes, Labels, FileInv, UploadTypes
    <2>2. UploadTypes'
      BY <1>0, <1>4, <1>8, <2>1 DEF FileInv, UploadTypes, LedgerTypeOK, Writes
    <2>3. Served'
      BY <1>0, <1>8, <2>1 DEF Served
    <2>4. \A v \in Uploads : v # u => File(v)'
      <3>1. Elsewhere(u)
        BY <1>0, <1>4, <1>8, <2>1 DEF Elsewhere, Writes
      <3>2. StepOf(u)
        BY <1>0, <2>3, <3>1 DEF StepOf, HandsOver, Names1
      <3> QED
        BY <3>2, OthersStay
    <2>5. mem'[u] = r /\ disk'[u] = d
      BY <1>8 DEF Writes
    <2>6. Tracks(u, mem[u])' /\ Tracks(u, disk[u])'
      <3>1. Tracks(u, mem[u])'
        BY <1>2, <1>4, <1>7, <2>5 DEF Tracks
      <3>2. Tracks(u, disk[u])'
        BY <1>2, <1>4, <1>7, <1>8, <2>5 DEF Tracks
      <3> QED
        BY <3>1, <3>2
    <2>7. Memory(u)'
      BY <1>2, <1>3, <1>7, <1>8, <2>1, <2>3, <2>5 DEF Memory, Serving, Renames
    <2>8. Shown(u)'
      BY <1>0, <1>4, <1>7, Known DEF Shown
    <2>9. File(u)'
      BY <1>4, <1>7, <1>8, <2>1, <2>6, <2>7, <2>8 DEF File
    <2> QED
      BY <1>0, <1>6, <2>2, <2>4, <2>9 DEF FileInv
  <1>9. CASE Saved(u, r) /\ Goes(u, "bound")
    BY <1>2, <1>8, <1>9, Persisting
  <1>10. CASE SaveFails(u, r, r) /\ Goes(u, "cleanup")
    BY <1>0, <1>2, <1>8, <1>10, Persisting
  <1> QED
    BY <1>1, <1>9, <1>10 DEF Bind

\* The file has gone: its record is cleaned up.
LEMMA KeepBindRaises ==
  ASSUME FileInv, NEW u \in Uploads, BindRaises(u) PROVE FileInv'
  <1>0. /\ up /\ uploadAt[u] = "created" /\ mem[u] = Begun /\ disk[u] = Begun
        /\ Goes(u, "cleanup") /\ UNCHANGED ledger /\ Rest(u)
    BY Known DEF BindRaises, At, Memory
  <1>1. Steps(u, "cleanup") /\ active' = active
    BY <1>0, Resting DEF Labels, ledger
  <1>2. Writes(u, mem[u], disk[u]) /\ Tracks(u, mem[u]) /\ Tracks(u, disk[u])
    BY <1>0, Persisting, Known DEF ledger
  <1>3. Live(mem[u])
    BY <1>0, Begins DEF Live
  <1>4. Memory(u)'
    BY <1>0, <1>1, <1>2, <1>3, Idle
  <1>5. Shown(u)'
    BY <1>0, <1>1, Hidden
  <1> QED
    BY <1>1, <1>2, <1>4, <1>5, Bookkeeping

-----------------------------------------------------------------------------
(* A rename begins, and what the trial of an upload decides.                *)

LEMMA Starting ==
  ASSUME FileInv, NEW u \in Uploads, NEW s \in Stages, NEW from \in Places, NEW to \in Places,
         Starts(u, s, from, to), up,
         UNCHANGED <<dir, owner, active, activated, made, taken, late, up, crashes, users>>
  PROVE  /\ Steps(u, "prepare") /\ active' = active
         /\ moving'[u] = s /\ move'[u] \in Move
         /\ move'[u].from = from /\ move'[u].to = to /\ move'[u].undo = FALSE
  <1>1. /\ moving \in [Uploads -> Stages] /\ move \in [Uploads -> Move]
        /\ active \in Uploads \cup {None} /\ activated \subseteq Uploads
        /\ late \subseteq Uploads
    BY DEF FileInv, UploadTypes
  <1>2. /\ moving' = [moving EXCEPT ![u] = s]
        /\ move' = [move EXCEPT ![u] = [from |-> from, to |-> to, undo |-> FALSE]]
        /\ uploadAt' = [uploadAt EXCEPT ![u] = "prepare"]
    BY DEF Starts, Goes
  <1>3. [from |-> from, to |-> to, undo |-> FALSE] \in Move
    BY DEF Move
  <1>4. /\ moving' \in [Uploads -> Stages] /\ move' \in [Uploads -> Move]
        /\ \A v \in Uploads : v # u => moving'[v] = moving[v] /\ move'[v] = move[v]
        /\ moving'[u] = s /\ move'[u] = [from |-> from, to |-> to, undo |-> FALSE]
    BY <1>1, <1>2, <1>3
  <1> QED
    BY <1>1, <1>2, <1>3, <1>4 DEF Steps, Labels, Names1

\* What a rename between e.from and e.to needs before it.
LEMMA Prepared ==
  ASSUME FileInv, NEW u \in Uploads, NEW m, NEW d, NEW e \in Move,
         Steps(u, "prepare"), Writes(u, m, d), Owns(m), Owns(d) /\ Mine(u) => Owns(m),
         move'[u] = e, m.paths \subseteq {e.from, e.to}, moving'[u] # "none",
         moving'[u] = "commit" => {e.from, e.to} = {"part", "staged"} /\ (e.undo \/ e.to = "staged"),
         moving'[u] = "promote" => {e.from, e.to} = {"staged", "final"} /\ (e.undo \/ e.to = "final"),
         moving'[u] = "rollback" => {e.from, e.to} = {"staged", "final"},
         moving'[u] = "quarantine" => /\ e.to = "quarantine" /\ e.from # "quarantine"
                                      /\ ~e.undo /\ m.paths = {e.from},
         moving'[u] \in {"commit", "promote"} => m.state = "active" /\ Served
  PROVE  Memory(u)'
  <1>1. /\ uploadAt'[u] = "prepare" /\ mem'[u] = m /\ disk'[u] = d
        /\ (Mine(u)' <=> Mine(u)) /\ (Served => Served')
    BY Remembered
  <1>2. Pair(u)' = {e.from, e.to}
    BY DEF Pair
  <1>3. Moves(u)'
    BY <1>1, <1>2 DEF Moves
  <1>4. Serving(u)' => m.state = "active" /\ Served'
    BY <1>1 DEF Serving, Renames
  <1> QED
    BY <1>1, <1>3, <1>4 DEF Memory, Renames

LEMMA KeepCommitStaged ==
  ASSUME FileInv, NEW u \in Uploads, CommitStaged(u) PROVE FileInv'
  <1>0. /\ up /\ uploadAt[u] = "bound" /\ Owns(mem[u]) /\ mem[u].paths = {"part"}
        /\ mem[u].state = "active" /\ Served
        /\ Starts(u, "commit", "part", "staged")
        /\ UNCHANGED <<dir, owner, active, activated, made, taken, late, up, crashes, users>>
    BY Known DEF CommitStaged, At, Memory, Serving, ledger
  <1>1. /\ Steps(u, "prepare") /\ active' = active
        /\ moving'[u] = "commit" /\ move'[u] \in Move
        /\ move'[u].from = "part" /\ move'[u].to = "staged" /\ move'[u].undo = FALSE
    <2>1. "commit" \in Stages /\ "part" \in Places /\ "staged" \in Places
      BY DEF Stages, Places
    <2> QED
      BY <1>0, <2>1, Starting
  <1>2. Writes(u, mem[u], disk[u]) /\ Tracks(u, mem[u]) /\ Tracks(u, disk[u])
    BY Persisting, Known DEF CommitStaged, ledger
  <1>3. Shown(u)'
    BY <1>0, <1>1, Hidden
  <1>4. PICK e \in Move : e = move'[u]
    BY <1>1
  <1>5. Memory(u)'
    BY <1>0, <1>1, <1>2, <1>4, Prepared
  <1> QED
    BY <1>1, <1>2, <1>3, <1>5, Bookkeeping

LEMMA KeepPromote ==
  ASSUME FileInv, NEW u \in Uploads, Promote(u) PROVE FileInv'
  <1>0. /\ up /\ uploadAt[u] = "staged" /\ Owns(mem[u]) /\ mem[u].paths = {"staged"}
        /\ mem[u].state = "active" /\ Served
        /\ UNCHANGED <<ledger, active, activated, made, taken, late, up, crashes, users>>
    BY Known DEF Promote, At, Memory, Serving, Renames
  <1>1. Writes(u, mem[u], disk[u]) /\ Tracks(u, mem[u]) /\ Tracks(u, disk[u])
    BY <1>0, Persisting, Known DEF ledger
  <1>2. CASE Starts(u, "promote", "staged", "final")
    <2>1. /\ Steps(u, "prepare") /\ active' = active
          /\ moving'[u] = "promote" /\ move'[u] \in Move
          /\ move'[u].from = "staged" /\ move'[u].to = "final" /\ move'[u].undo = FALSE
      <3>1. "promote" \in Stages /\ "final" \in Places /\ "staged" \in Places
        BY DEF Stages, Places
      <3> QED
        BY <1>0, <1>2, <3>1, Starting DEF ledger
    <2>2. Shown(u)'
      BY <1>0, <2>1, Hidden
    <2>3. PICK e \in Move : e = move'[u]
      BY <2>1
    <2>4. Memory(u)'
      BY <1>0, <1>1, <2>1, <2>3, Prepared
    <2> QED
      BY <1>1, <2>1, <2>2, <2>4, Bookkeeping
  <1>3. CASE Goes(u, "rollback") /\ UNCHANGED <<moving, move>>
    <2>1. Steps(u, "rollback") /\ active' = active
      BY <1>0, <1>3, Resting DEF Labels, Rest, ledger
    <2>2. Shown(u)'
      BY <1>0, <2>1, Hidden
    <2>3. Memory(u)'
      BY <1>0, <1>1, <2>1, Idle
    <2> QED
      BY <1>1, <2>1, <2>2, <2>3, Bookkeeping
  <1> QED
    BY <1>2, <1>3 DEF Promote

\* Reject(), ApplyFails(), ActivationRaises().
LEMMA KeepGiveUp ==
  ASSUME FileInv, NEW u \in Uploads, Reject(u) \/ ApplyFails(u) \/ ActivationRaises(u)
  PROVE  FileInv'
  <1>0. /\ up /\ uploadAt[u] \in {"bound", "staged", "promoted"} /\ Owns(mem[u])
        /\ UNCHANGED <<dir, owner, mem, disk, faults>> /\ Rest(u)
    BY Known DEF Reject, ApplyFails, ActivationRaises, At, Memory, ledger
  <1>1. PICK l \in {"cleanup", "discard", "rollback"} :
          Goes(u, l) /\ (l = "rollback" => mem[u].paths \subseteq {"staged", "final"})
    BY Known DEF Reject, ApplyFails, ActivationRaises, At, Memory
  <1>2. Writes(u, mem[u], disk[u]) /\ Tracks(u, mem[u]) /\ Tracks(u, disk[u])
    BY <1>0, Persisting, Known
  <1>3. Steps(u, l) /\ active' = active
    BY <1>0, <1>1, Resting DEF Labels
  <1>4. Shown(u)'
    BY <1>0, <1>3, Hidden
  <1>5. Live(mem[u])
    BY <1>0 DEF Owns, Live
  <1>6. Memory(u)'
    BY <1>0, <1>1, <1>2, <1>3, <1>5, Idle
  <1> QED
    BY <1>2, <1>3, <1>4, <1>6, Bookkeeping

LEMMA KeepActivate ==
  ASSUME FileInv, NEW u \in Uploads, ActivateUpload(u) PROVE FileInv'
  <1>0. /\ up /\ uploadAt[u] = "promoted" /\ Owns(mem[u]) /\ mem[u].paths = {"final"}
        /\ mem[u].state = "active" /\ Served
        /\ active' = u /\ Goes(u, "settle")
        /\ UNCHANGED <<ledger, moving, move, activated, made, taken, late, up, crashes, users>>
    BY Known DEF ActivateUpload, At, Memory, Serving
  <1>1. Writes(u, mem[u], disk[u]) /\ Tracks(u, mem[u]) /\ Tracks(u, disk[u])
    BY <1>0, Persisting, Known DEF ledger
  <1>2. Steps(u, "settle")
    BY <1>0 DEF Steps, Goes, Names1, FileInv, UploadTypes, ledger, Labels
  <1>3. Memory(u)'
    BY <1>0, <1>1, <1>2, Idle
  <1>4. made[u] # None /\ (Away(u) \/ InPlace(u, "final"))
    <2>1. made[u] # None /\ ~Lost(u)
      BY <1>0, <1>1 DEF Tracks, Owns
    <2>2. ASSUME ~Away(u) PROVE InPlace(u, "final")
      <3>1. PICK p \in Places : InPlace(u, p)
        BY <2>1, <2>2 DEF Lost, Mine
      <3>2. p \in Names(mem[u]) /\ mem[u].inode # None
        BY <1>0, <1>1, <3>1 DEF Tracks, Live, Owns
      <3> QED
        BY <1>0, <3>1, <3>2 DEF Names
    <2> QED
      BY <2>1, <2>2
  <1>5. Shown(u)'
    <2>1. /\ uploadAt'[u] = "settle" /\ mem'[u] = mem[u] /\ made'[u] = made[u]
          /\ (Away(u)' <=> Away(u)) /\ (InPlace(u, "final")' <=> InPlace(u, "final"))
      BY <1>1, <1>2, Remembered DEF Places
    <2> QED
      BY <1>0, <1>4, <2>1 DEF Shown
  <1> QED
    BY <1>1, <1>2, <1>3, <1>5, Bookkeeping

LEMMA KeepRollback ==
  ASSUME FileInv, NEW u \in Uploads, RollbackPromotion(u) PROVE FileInv'
  <1>0. /\ up /\ uploadAt[u] = "rollback" /\ Owns(mem[u])
        /\ mem[u].paths \subseteq {"staged", "final"}
        /\ UNCHANGED <<ledger, active, activated, made, taken, late, up, crashes, users>>
    BY Known DEF RollbackPromotion, At, Memory, Renames
  <1>1. Writes(u, mem[u], disk[u]) /\ Tracks(u, mem[u]) /\ Tracks(u, disk[u])
    BY <1>0, Persisting, Known DEF ledger
  <1>2. CASE Starts(u, "rollback", "final", "staged")
    <2>1. /\ Steps(u, "prepare") /\ active' = active
          /\ moving'[u] = "rollback" /\ move'[u] \in Move
          /\ move'[u].from = "final" /\ move'[u].to = "staged" /\ move'[u].undo = FALSE
      <3>1. "rollback" \in Stages /\ "final" \in Places /\ "staged" \in Places
        BY DEF Stages, Places
      <3> QED
        BY <1>0, <1>2, <3>1, Starting DEF ledger
    <2>2. Shown(u)'
      BY <1>0, <2>1, Hidden
    <2>3. PICK e \in Move : e = move'[u]
      BY <2>1
    <2>4. Memory(u)'
      BY <1>0, <1>1, <2>1, <2>3, Prepared
    <2> QED
      BY <1>1, <2>1, <2>2, <2>4, Bookkeeping
  <1>3. CASE Goes(u, "discard") /\ UNCHANGED <<moving, move>>
    <2>1. Steps(u, "discard") /\ active' = active
      BY <1>0, <1>3, Resting DEF Labels, Rest, ledger
    <2>2. Shown(u)'
      BY <1>0, <2>1, Hidden
    <2>3. Live(mem[u])
      BY <1>0 DEF Live, Owns
    <2>4. Memory(u)'
      BY <1>0, <1>1, <2>1, <2>3, Idle
    <2> QED
      BY <1>1, <2>1, <2>2, <2>4, Bookkeeping
  <1> QED
    BY <1>2, <1>3 DEF RollbackPromotion

-----------------------------------------------------------------------------
(* The steps of a rename that write.                                        *)

LEMMA Renaming ==
  ASSUME FileInv, NEW u \in Uploads, NEW l \in Renames \ {"prepare"}, NEW m, NEW d,
         Steps(u, l), Writes(u, m, d), uploadAt[u] \in Renames, Moves(u), Owns(m),
         moving'[u] = moving[u], move'[u] = move[u],
         m.paths \subseteq Pair(u),
         l \in {"rename", "finish"} => m.paths = Pair(u),
         l = "harden" => m.paths = {move[u].to},
         l = "undo" => ~move[u].undo,
         l \in {"undo", "raised"} => moving[u] # "quarantine",
         l \in {"rename", "finish", "harden"} => d = m,
         Serving(u) => m.state = "active"
  PROVE  Memory(u)'
  <1>1. /\ uploadAt'[u] = l /\ mem'[u] = m /\ disk'[u] = d
        /\ (Mine(u)' <=> Mine(u))
    BY Remembered
  <1>2. Pair(u)' = Pair(u)
    BY DEF Pair
  <1>3. l # "prepare" /\ l \in {"rename", "finish", "harden", "undo", "raised"}
    BY DEF Renames
  <1>4. Moves(u)'
    BY <1>1, <1>2, <1>3 DEF Moves
  <1>5. Serving(u)' => m.state = "active" /\ Served'
    <2>1. Serving(u)' => Serving(u)
      BY <1>1, <1>3 DEF Serving
    <2>2. Serving(u) => Served
      BY Known DEF Memory, Steps
    <2> QED
      BY <1>3, <2>1, <2>2, Remembered
  <1> QED
    BY <1>1, <1>3, <1>4, <1>5 DEF Memory, Renames

\* What is known in the middle of a rename.
LEMMA InRename ==
  ASSUME FileInv, NEW u \in Uploads, up, uploadAt[u] \in Renames
  PROVE  /\ Moves(u) /\ Owns(mem[u]) /\ Live(mem[u]) /\ mem[u] \in Record
         /\ mem[u].paths \subseteq Pair(u)
         /\ move[u].from \in Places /\ move[u].to \in Places /\ move[u].undo \in BOOLEAN
         /\ moving[u] \in {"commit", "promote", "rollback", "quarantine"}
         /\ move[u].from # move[u].to
         /\ Pair(u) \in SUBSET Places /\ Cardinality(Pair(u)) \in {1, 2}
         /\ moving[u] = "promote" => Pair(u) = {"staged", "final"}
         /\ Serving(u) => mem[u].state = "active" /\ Served
         /\ moving[u] \in {"commit", "promote"} => Serving(u)
  <1>1. Moves(u) /\ Owns(mem[u]) /\ mem[u] \in Record /\ moving[u] \in Stages /\ move[u] \in Move
    BY Known DEF Memory, Owns
  <1>2. moving[u] \in {"commit", "promote", "rollback", "quarantine"}
    BY <1>1 DEF Moves, Stages
  <1>3. move[u].from # move[u].to
    BY <1>1, <1>2 DEF Moves, Pair
  <1>4. move[u].from \in Places /\ move[u].to \in Places /\ move[u].undo \in BOOLEAN
    BY <1>1 DEF Move
  <1>5. Pair(u) \in SUBSET Places /\ Cardinality(Pair(u)) \in {1, 2}
    BY <1>3, <1>4, SmallSets DEF Pair
  <1>6. Serving(u) => mem[u].state = "active" /\ Served
    BY Known DEF Memory
  <1>7. Live(mem[u])
    BY <1>1 DEF Owns, Live
  <1>8. moving[u] \in {"commit", "promote"} => Serving(u)
    BY DEF Serving
  <1> QED
    BY <1>1, <1>2, <1>3, <1>4, <1>5, <1>6, <1>7, <1>8 DEF Moves

LEMMA KeepPrepare ==
  ASSUME FileInv, NEW u \in Uploads, PrepareRename(u) PROVE FileInv'
  <1>0. /\ up /\ uploadAt[u] = "prepare" /\ uploadAt[u] \in Renames
        /\ UNCHANGED <<dir, owner>> /\ Rest(u)
    BY DEF PrepareRename, At, Renames
  <1>1. /\ Moves(u) /\ Owns(mem[u]) /\ Live(mem[u]) /\ mem[u] \in Record
        /\ mem[u].paths \subseteq Pair(u)
        /\ moving[u] \in {"commit", "promote", "rollback", "quarantine"}
        /\ Pair(u) \in SUBSET Places /\ Cardinality(Pair(u)) \in {1, 2}
        /\ Serving(u) => mem[u].state = "active"
    BY <1>0, InRename
  <1>2. mem[u].paths # {"quarantine"}
    BY <1>0, <1>1 DEF Moves
  <1>3. PICK r : r = [mem[u] EXCEPT !.paths = {move[u].from, move[u].to}]
    OBVIOUS
  <1>4. /\ r \in Record /\ r.paths = Pair(u) /\ r.inode = mem[u].inode
        /\ r.state = mem[u].state
    BY <1>1, <1>3 DEF Record, Pair
  <1>5. Tracks(u, mem[u]) /\ Tracks(u, disk[u]) /\ Tracks(u, r)
    BY <1>1, <1>2, <1>3, Known, TracksBoth DEF Pair
  <1>6. Owns(r)
    BY <1>1, <1>4, NoneIsNoRecord DEF Owns
  <1>7. ASSUME NEW l \in {"rename", "raised", "failing"}, Goes(u, l)
        PROVE  /\ Steps(u, l) /\ Shown(u)' /\ moving'[u] = moving[u] /\ move'[u] = move[u]
    <2>1. Steps(u, l) /\ active' = active /\ moving' = moving /\ move' = move
      BY <1>0, <1>7, Resting DEF Labels
    <2> QED
      BY <1>0, <2>1, Hidden
  <1>8. ASSUME Saved(u, r), Goes(u, "rename") PROVE FileInv'
    <2>1. /\ Steps(u, "rename") /\ Shown(u)' /\ Writes(u, r, r)
          /\ moving'[u] = moving[u] /\ move'[u] = move[u]
      BY <1>4, <1>7, <1>8, Persisting
    <2>2. Memory(u)'
      <3>1. "rename" \in Renames \ {"prepare"}
        BY DEF Renames
      <3> QED
        BY <1>0, <1>1, <1>4, <1>6, <2>1, <3>1, Renaming
    <2> QED
      BY <1>5, <2>1, <2>2, Bookkeeping
  <1>9. ASSUME SaveFails(u, mem[u], r),
               Goes(u, IF moving[u] = "quarantine" THEN "failing" ELSE "raised")
        PROVE  FileInv'
    <2>1. PICK d \in {disk[u], r} : Writes(u, mem[u], d)
      BY <1>1, <1>4, <1>9, Persisting
    <2>2. Tracks(u, d)
      BY <1>5, <2>1
    <2>3. CASE moving[u] = "quarantine"
      <3>1. Steps(u, "failing") /\ Shown(u)'
        BY <1>7, <1>9, <2>3
      <3>2. Memory(u)'
        BY <1>1, <2>1, <3>1, Idle
      <3> QED
        BY <1>5, <2>1, <2>2, <3>1, <3>2, Bookkeeping
    <2>4. CASE moving[u] # "quarantine"
      <3>1. /\ Steps(u, "raised") /\ Shown(u)'
            /\ moving'[u] = moving[u] /\ move'[u] = move[u]
        BY <1>7, <1>9, <2>4
      <3>2. Memory(u)'
        <4>1. "raised" \in Renames \ {"prepare"}
          BY DEF Renames
        <4> QED
          BY <1>0, <1>1, <2>1, <2>4, <3>1, <4>1, Renaming
      <3> QED
        BY <1>5, <2>1, <2>2, <3>1, <3>2, Bookkeeping
    <2> QED
      BY <2>3, <2>4
  <1> QED
    BY <1>3, <1>8, <1>9 DEF PrepareRename

LEMMA KeepFinish ==
  ASSUME FileInv, NEW u \in Uploads, FinishRename(u) PROVE FileInv'
  <1>0. /\ up /\ uploadAt[u] = "finish" /\ uploadAt[u] \in Renames
        /\ UNCHANGED <<dir, owner>> /\ Rest(u)
    BY DEF FinishRename, At, Renames
  <1>1. /\ Moves(u) /\ Owns(mem[u]) /\ Live(mem[u]) /\ mem[u] \in Record
        /\ mem[u].paths = Pair(u) /\ move[u].from # move[u].to
        /\ move[u].to \in Places
        /\ moving[u] \in {"commit", "promote", "rollback", "quarantine"}
        /\ Serving(u) => mem[u].state = "active"
    BY <1>0, InRename DEF Moves
  <1>2. mem[u].paths # {"quarantine"}
    BY <1>1 DEF Pair
  <1>3. Tracks(u, mem[u]) /\ Tracks(u, disk[u])
    BY Known
  <1>4. ASSUME NEW l \in {"harden", "undo", "raised", "putback"}, Goes(u, l)
        PROVE  /\ Steps(u, l) /\ Shown(u)' /\ moving'[u] = moving[u] /\ move'[u] = move[u]
    <2>1. Steps(u, l) /\ active' = active /\ moving' = moving /\ move' = move
      BY <1>0, <1>4, Resting DEF Labels
    <2> QED
      BY <1>0, <2>1, Hidden
  <1>5. ASSUME NEW d, Writes(u, mem[u], d), Tracks(u, d), Goes(u, AfterRaise(u))
        PROVE  FileInv'
    <2>1. CASE moving[u] = "quarantine"
      <3>1. Steps(u, "putback") /\ Shown(u)'
        BY <1>4, <1>5, <2>1 DEF AfterRaise
      <3>2. Memory(u)'
        BY <1>1, <1>5, <3>1, Idle
      <3> QED
        BY <1>3, <1>5, <3>1, <3>2, Bookkeeping
    <2>2. CASE moving[u] # "quarantine"
      <3>1. PICK l \in {"undo", "raised"} : Goes(u, l) /\ (l = "undo" => ~move[u].undo)
        BY <1>5, <2>2 DEF AfterRaise
      <3>2. /\ Steps(u, l) /\ Shown(u)'
            /\ moving'[u] = moving[u] /\ move'[u] = move[u]
        BY <1>4, <3>1
      <3>3. Memory(u)'
        <4>1. l \in Renames \ {"prepare"}
          BY <3>1 DEF Renames
        <4> QED
          BY <1>0, <1>1, <1>5, <2>2, <3>1, <3>2, <4>1, Renaming
      <3> QED
        BY <1>3, <1>5, <3>2, <3>3, Bookkeeping
    <2> QED
      BY <2>1, <2>2
  <1>6. CASE dir[u][move[u].to] = mem[u].inode
    <2>1. PICK r : r = [mem[u] EXCEPT !.paths = {move[u].to}]
      OBVIOUS
    <2>2. {move[u].to} \in SUBSET Places /\ Cardinality({move[u].to}) \in {1, 2}
      BY <1>1, SmallSets
    <2>3. /\ r \in Record /\ r.paths = {move[u].to} /\ r.inode = mem[u].inode
          /\ r.state = mem[u].state
      BY <1>1, <2>1, <2>2 DEF Record
    <2>4. Tracks(u, r)
      BY <1>1, <1>2, <1>3, <1>6, <2>1, TracksHere
    <2>5. Owns(r) /\ r.paths \subseteq Pair(u)
      BY <1>1, <2>3, NoneIsNoRecord DEF Owns, Pair
    <2>6. ASSUME Saved(u, r), Goes(u, "harden") PROVE FileInv'
      <3>1. /\ Steps(u, "harden") /\ Shown(u)' /\ Writes(u, r, r)
            /\ moving'[u] = moving[u] /\ move'[u] = move[u]
        BY <1>4, <2>3, <2>6, Persisting
      <3>2. Memory(u)'
        <4>1. "harden" \in Renames \ {"prepare"}
          BY DEF Renames
        <4> QED
          BY <1>0, <1>1, <2>3, <2>5, <3>1, <4>1, Renaming
      <3> QED
        BY <2>4, <3>1, <3>2, Bookkeeping
    <2>7. ASSUME SaveFails(u, mem[u], r), Goes(u, AfterRaise(u)) PROVE FileInv'
      <3>1. PICK d \in {disk[u], r} : Writes(u, mem[u], d)
        BY <1>1, <2>3, <2>7, Persisting
      <3>2. Tracks(u, d)
        BY <1>3, <2>4, <3>1
      <3> QED
        BY <1>5, <2>7, <3>1, <3>2
    <2> QED
      BY <1>6, <2>1, <2>6, <2>7 DEF FinishRename
  <1>7. CASE dir[u][move[u].to] # mem[u].inode
    <2>1. Writes(u, mem[u], disk[u]) /\ Goes(u, AfterRaise(u))
      BY <1>7, Persisting DEF FinishRename
    <2> QED
      BY <1>3, <1>5, <2>1
  <1> QED
    BY <1>6, <1>7

LEMMA KeepHarden ==
  ASSUME FileInv, NEW u \in Uploads, Harden(u) PROVE FileInv'
  <1>0. /\ up /\ uploadAt[u] = "harden" /\ uploadAt[u] \in Renames
        /\ UNCHANGED <<dir, owner, mem, disk>> /\ Rest(u)
    BY DEF Harden, At, Renames
  <1>1. /\ Moves(u) /\ Owns(mem[u]) /\ Live(mem[u]) /\ mem[u] \in Record
        /\ mem[u].paths = {move[u].to} /\ mem[u].paths \subseteq Pair(u)
        /\ moving[u] \in {"commit", "promote", "rollback", "quarantine"}
        /\ moving[u] = "promote" => Pair(u) = {"staged", "final"}
        /\ Serving(u) => mem[u].state = "active" /\ Served
        /\ moving[u] \in {"commit", "promote"} => Serving(u)
        /\ disk[u] = mem[u]
    BY <1>0, InRename, Known DEF Moves, Memory
  <1>2. Tracks(u, mem[u]) /\ Tracks(u, disk[u])
    BY Known
  <1>3. Writes(u, mem[u], disk[u])
    BY <1>0, Persisting DEF Harden
  <1>4. ASSUME NEW l \in {"undo", "cleanup", "rollback", "discard", "staged", "promoted",
                          "remove"}, Goes(u, l)
        PROVE  /\ Steps(u, l) /\ Shown(u)' /\ moving'[u] = moving[u] /\ move'[u] = move[u]
    <2>1. Steps(u, l) /\ active' = active /\ moving' = moving /\ move' = move
      BY <1>0, <1>4, Resting DEF Labels
    <2> QED
      BY <1>0, <2>1, Hidden
  <1>5. ASSUME Goes(u, "undo"), ~move[u].undo, moving[u] # "quarantine" PROVE FileInv'
    <2>1. /\ Steps(u, "undo") /\ Shown(u)'
          /\ moving'[u] = moving[u] /\ move'[u] = move[u]
      BY <1>4, <1>5
    <2>2. Memory(u)'
      <3>1. "undo" \in Renames \ {"prepare"}
        BY DEF Renames
      <3> QED
        BY <1>0, <1>1, <1>3, <1>5, <2>1, <3>1, Renaming
    <2> QED
      BY <1>2, <1>3, <2>1, <2>2, Bookkeeping
  <1>6. ASSUME NEW l \in {"cleanup", "rollback", "discard"}, Goes(u, l),
               l = "rollback" => moving[u] = "promote"
        PROVE  FileInv'
    <2>1. Steps(u, l) /\ Shown(u)'
      BY <1>4, <1>6
    <2>2. Memory(u)'
      BY <1>1, <1>3, <1>6, <2>1, Idle
    <2> QED
      BY <1>2, <1>3, <2>1, <2>2, Bookkeeping
  <1>7. ASSUME NEW l \in {"staged", "promoted", "remove"}, Goes(u, l),
               l = "staged" => moving[u] = "commit" /\ ~move[u].undo,
               l = "promoted" => moving[u] = "promote" /\ ~move[u].undo,
               l = "remove" => moving[u] = "quarantine"
        PROVE  FileInv'
    <2>1. Steps(u, l) /\ Shown(u)'
      BY <1>4, <1>7
    <2>2. Memory(u)'
      <3>1. /\ uploadAt'[u] = l /\ mem'[u] = mem[u] /\ disk'[u] = disk[u]
            /\ (Served => Served')
        BY <1>3, <1>7, <2>1, Remembered
      <3>2. /\ l = "staged" => mem[u].paths = {"staged"}
            /\ l = "promoted" => mem[u].paths = {"final"}
            /\ l = "remove" => mem[u].paths = {"quarantine"}
        BY <1>1, <1>7 DEF Moves
      <3>3. l \in {"staged", "promoted"} => mem[u].state = "active" /\ Served
        BY <1>1, <1>7
      <3> QED
        BY <1>1, <3>1, <3>2, <3>3 DEF Memory, Serving, Renames
    <2> QED
      BY <1>2, <1>3, <2>1, <2>2, Bookkeeping
  <1>8. CASE move[u].undo
    <2>1. Goes(u, RaisedTo(u))
      BY <1>8 DEF Harden
    <2> QED
      BY <1>6, <2>1 DEF RaisedTo
  <1>9. CASE ~move[u].undo
    <2>1. CASE moving[u] # "quarantine" /\ Goes(u, "undo")
      BY <1>5, <1>9, <2>1
    <2>2. CASE Goes(u, HardenedTo(u))
      BY <1>1, <1>6, <1>7, <1>9, <2>2 DEF HardenedTo
    <2> QED
      BY <1>9, <2>1, <2>2 DEF Harden
  <1> QED
    BY <1>8, <1>9

-----------------------------------------------------------------------------
(* Steps that reconcile, and that settle or forget.                         *)

LEMMA StillShown ==
  ASSUME FileInv, NEW u \in Uploads, NEW l, NEW m, NEW d, Steps(u, l), Writes(u, m, d),
         active' = active,
         active = u /\ ~Away(u) =>
           /\ l \in {"settle", "forget", "rest", "recover", "adopt"}
           /\ l \in {"settle", "forget", "rest"} => m = None \/ m.state # "cleanup"
  PROVE  Shown(u)'
  <1>1. /\ uploadAt'[u] = l /\ mem'[u] = m /\ made'[u] = made[u]
        /\ (Away(u)' <=> Away(u)) /\ (InPlace(u, "final")' <=> InPlace(u, "final"))
    BY Remembered DEF Places
  <1>2. Shown(u)
    BY Known
  <1> QED
    BY <1>1, <1>2 DEF Shown

\* What is on disk after reconciling.
LEMMA Recorded ==
  ASSUME FileInv, NEW u \in Uploads, mem[u] \in Record, up
  PROVE  /\ Reconciled(u) \in Record
         /\ Tracks(u, Reconciled(u)) /\ Reconciled(u).state = mem[u].state
         /\ Reconciled(u).paths \subseteq mem[u].paths
         /\ (Live(Reconciled(u)) <=> Live(mem[u])) /\ (Owns(Reconciled(u)) <=> Owns(mem[u]))
         /\ Owns(disk[u]) /\ Mine(u) => Owns(Reconciled(u))
         /\ (ReconcileSaves(u) \/ ReconcileFails(u) \/ Saved(u, Reconciled(u))
               \/ SaveFails(u, Reconciled(u), Reconciled(u))) =>
              \E d \in Record \cup {None} :
                 /\ d \in {disk[u], Reconciled(u)} /\ Tracks(u, d)
                 /\ Writes(u, Reconciled(u), d)
                 /\ Owns(d) /\ Mine(u) => Owns(Reconciled(u))
         /\ ReconcileSaves(u) => Writes(u, Reconciled(u), Reconciled(u))
                                   \/ (Reconciled(u) = mem[u] /\ Writes(u, mem[u], disk[u]))
  <1>1. /\ Reconciled(u) \in Record /\ Reconciled(u).state = mem[u].state
        /\ Reconciled(u).paths \subseteq mem[u].paths
    BY Reconciling
  <1>2. /\ Tracks(u, Reconciled(u))
        /\ (Live(Reconciled(u)) <=> Live(mem[u])) /\ (Owns(Reconciled(u)) <=> Owns(mem[u]))
    BY TracksReconciled
  <1>3. Owns(disk[u]) /\ Mine(u) => Owns(Reconciled(u))
    BY <1>2, Known DEF Memory
  <1>4. Tracks(u, disk[u]) /\ disk[u] \in Record \cup {None}
    BY Known
  <1>5. ASSUME \/ ReconcileSaves(u) \/ ReconcileFails(u) \/ Saved(u, Reconciled(u))
               \/ SaveFails(u, Reconciled(u), Reconciled(u))
        PROVE  Writes(u, Reconciled(u), disk[u]) \/ Writes(u, Reconciled(u), Reconciled(u))
    <2>1. CASE ReconcileSaves(u) \/ ReconcileFails(u)
      BY <2>1, Reconciles
    <2>2. CASE Saved(u, Reconciled(u)) \/ SaveFails(u, Reconciled(u), Reconciled(u))
      BY <1>1, <2>2, Persisting
    <2> QED
      BY <1>5, <2>1, <2>2
  <1>6. ReconcileSaves(u) => Writes(u, Reconciled(u), Reconciled(u))
                               \/ (Reconciled(u) = mem[u] /\ Writes(u, mem[u], disk[u]))
    BY Reconciles
  <1> QED
    BY <1>1, <1>2, <1>3, <1>4, <1>5, <1>6

LEMMA KeepUndo ==
  ASSUME FileInv, NEW u \in Uploads, Undo(u) PROVE FileInv'
  <1>0. /\ up /\ uploadAt[u] = "undo" /\ uploadAt[u] \in Renames
        /\ UNCHANGED <<dir, owner, moving, active, activated, made, taken, late, up, crashes, users>>
    BY DEF Undo, At, Renames
  <1>1. /\ Moves(u) /\ Owns(mem[u]) /\ Live(mem[u]) /\ mem[u] \in Record
        /\ mem[u].paths \subseteq Pair(u)
        /\ move[u].from \in Places /\ move[u].to \in Places
        /\ moving[u] \in {"commit", "promote", "rollback", "quarantine"}
        /\ Serving(u) => mem[u].state = "active" /\ Served
        /\ moving[u] \in {"commit", "promote"} => Serving(u)
    BY <1>0, InRename
  <1>2. moving[u] # "quarantine"
    BY <1>0, <1>1 DEF Moves
  <1>3. /\ Reconciled(u) \in Record /\ Reconciled(u).state = mem[u].state
        /\ Reconciled(u).paths \subseteq mem[u].paths
        /\ Tracks(u, Reconciled(u)) /\ Owns(Reconciled(u))
    BY <1>0, <1>1, Recorded
  <1>4. Tracks(u, mem[u]) /\ Tracks(u, disk[u])
    BY Known
  <1>5. ASSUME NEW m \in {mem[u], Reconciled(u)}, NEW d, Writes(u, m, d), Tracks(u, d),
               Goes(u, "raised"), UNCHANGED move
        PROVE  FileInv'
    <2>1. Steps(u, "raised") /\ active' = active /\ moving' = moving /\ move' = move
      BY <1>0, <1>5, Resting DEF Labels, Rest
    <2>2. Shown(u)'
      BY <1>0, <2>1, Hidden
    <2>3. Memory(u)'
      <3>1. "raised" \in Renames \ {"prepare"}
        BY DEF Renames
      <3> QED
        BY <1>0, <1>1, <1>2, <1>3, <1>5, <2>1, <3>1, Renaming
    <2> QED
      BY <1>3, <1>4, <1>5, <2>1, <2>2, <2>3, Bookkeeping
  <1>6. CASE move[u].to \in Matches(u)
    <2>1. PICK d : /\ Writes(u, Reconciled(u), d) /\ Tracks(u, d)
                   /\ Owns(d) /\ Mine(u) => Owns(Reconciled(u))
      BY <1>0, <1>1, <1>6, Recorded DEF Undo
    <2>2. CASE Goes(u, "raised") /\ UNCHANGED move
      BY <1>5, <2>1, <2>2
    <2>3. CASE /\ move' = [move EXCEPT ![u] =
                              [from |-> move[u].to, to |-> move[u].from, undo |-> TRUE]]
               /\ Goes(u, "prepare")
      <3>1. PICK e : e = [from |-> move[u].to, to |-> move[u].from, undo |-> TRUE]
        OBVIOUS
      <3>2. e \in Move /\ e.from = move[u].to /\ e.to = move[u].from /\ e.undo = TRUE
        BY <1>1, <3>1 DEF Move
      <3>3. /\ move \in [Uploads -> Move] /\ moving \in [Uploads -> Stages]
            /\ active \in Uploads \cup {None} /\ activated \subseteq Uploads
            /\ late \subseteq Uploads
        BY DEF FileInv, UploadTypes
      <3>4. /\ move' \in [Uploads -> Move] /\ move'[u] = e
            /\ \A v \in Uploads : v # u => move'[v] = move[v]
        BY <2>3, <3>1, <3>2, <3>3
      <3>5. Steps(u, "prepare") /\ active' = active
        BY <1>0, <2>3, <3>3, <3>4 DEF Steps, Goes, Labels, Names1
      <3>6. Shown(u)'
        BY <1>0, <3>5, Hidden
      <3>7. {e.from, e.to} = Pair(u)
        BY <3>2 DEF Pair
      <3>8. Memory(u)'
        BY <1>0, <1>1, <1>2, <1>3, <2>1, <3>2, <3>4, <3>5, <3>7, Prepared DEF Moves
      <3> QED
        BY <1>3, <2>1, <3>5, <3>6, <3>8, Bookkeeping
    <2> QED
      BY <1>6, <2>2, <2>3 DEF Undo
  <1>7. CASE move[u].to \notin Matches(u)
    <2>1. Goes(u, "raised") /\ UNCHANGED <<mem, disk, faults, move>>
      BY <1>7 DEF Undo
    <2>2. Writes(u, mem[u], disk[u])
      BY <2>1, Persisting
    <2> QED
      BY <1>4, <1>5, <2>1, <2>2
  <1> QED
    BY <1>6, <1>7

LEMMA KeepRaised ==
  ASSUME FileInv, NEW u \in Uploads, Raised(u) PROVE FileInv'
  <1>0. /\ up /\ uploadAt[u] = "raised" /\ uploadAt[u] \in Renames
        /\ UNCHANGED <<dir, owner>> /\ Rest(u) /\ Goes(u, RaisedTo(u))
    BY DEF Raised, At, Renames
  <1>1. /\ Owns(mem[u]) /\ Live(mem[u]) /\ mem[u] \in Record
        /\ mem[u].paths \subseteq Pair(u)
        /\ moving[u] = "promote" => Pair(u) = {"staged", "final"}
    BY <1>0, InRename
  <1>2. /\ Reconciled(u) \in Record /\ Tracks(u, Reconciled(u)) /\ Owns(Reconciled(u))
        /\ Live(Reconciled(u)) /\ Reconciled(u).paths \subseteq mem[u].paths
    BY <1>0, <1>1, Recorded
  <1>3. PICK m, d : m \in {mem[u], Reconciled(u)} /\ Writes(u, m, d) /\ Tracks(u, d)
    <2>1. CASE move[u].undo
      BY <1>0, <1>1, <2>1, Recorded DEF Raised
    <2>2. CASE ~move[u].undo
      <3>1. Writes(u, mem[u], disk[u]) /\ Tracks(u, disk[u])
        BY <2>2, Persisting, Known DEF Raised
      <3> QED
        BY <3>1
    <2> QED
      BY <2>1, <2>2
  <1>4. PICK l \in {"cleanup", "rollback", "discard"} :
          Goes(u, l) /\ (l = "rollback" => moving[u] = "promote")
    BY <1>0 DEF RaisedTo
  <1>5. Steps(u, l) /\ active' = active
    BY <1>0, <1>4, Resting DEF Labels
  <1>6. Shown(u)'
    BY <1>0, <1>5, Hidden
  <1>7. Memory(u)'
    BY <1>1, <1>2, <1>3, <1>4, <1>5, Idle
  <1>8. Tracks(u, m)
    BY <1>2, <1>3, Known
  <1> QED
    BY <1>3, <1>5, <1>6, <1>7, <1>8, Bookkeeping

LEMMA KeepSettle ==
  ASSUME FileInv, NEW u \in Uploads, SettleUpload(u) PROVE FileInv'
  <1>0. /\ up /\ uploadAt[u] = "settle" /\ Owns(mem[u]) /\ mem[u] \in Record
        /\ activated' = activated \cup {u}
        /\ UNCHANGED <<dir, owner, moving, move, active, made, taken, late, up, crashes, users>>
    BY Known DEF SettleUpload, At, Memory, Owns
  <1>1. Tracks(u, mem[u]) /\ Tracks(u, disk[u]) /\ Tracks(u, Committed(mem[u]))
    BY <1>0, Known, TracksPlain
  <1>2. /\ Committed(mem[u]) \in Record /\ Committed(mem[u]).state = "committed"
        /\ Committed(mem[u]) # None
    BY <1>0, Edits, NoneIsNoRecord
  <1>3. ASSUME NEW l \in {"forget", "settle", "rest"}, Goes(u, l) PROVE Steps(u, l)
    BY <1>0, <1>3 DEF Steps, Goes, Names1, FileInv, UploadTypes, Labels
  <1>4. active = u /\ ~Away(u) => mem[u].state # "cleanup"
    BY <1>0, Known DEF Shown, Owns
  <1>5. ASSUME Saved(u, Committed(mem[u])), Goes(u, "forget") PROVE FileInv'
    <2>1. Steps(u, "forget") /\ Writes(u, Committed(mem[u]), Committed(mem[u]))
      BY <1>2, <1>3, <1>5, Persisting
    <2>2. Shown(u)'
      BY <1>0, <1>2, <2>1, StillShown
    <2>3. Memory(u)'
      <3>1. ~Owns(Committed(mem[u]))
        BY <1>2 DEF Owns
      <3> QED
        BY <1>2, <2>1, <3>1, Idle
    <2> QED
      BY <1>1, <2>1, <2>2, <2>3, Bookkeeping
  <1>6. ASSUME SaveFails(u, mem[u], Committed(mem[u])), NEW l \in {"settle", "rest"}, Goes(u, l)
        PROVE  FileInv'
    <2>1. PICK d \in {disk[u], Committed(mem[u])} : Writes(u, mem[u], d)
      BY <1>0, <1>2, <1>6, Persisting
    <2>2. Steps(u, l)
      BY <1>3, <1>6
    <2>3. Shown(u)'
      BY <1>0, <1>4, <2>1, <2>2, StillShown
    <2>4. Memory(u)'
      BY <1>0, <2>1, <2>2, Idle
    <2>5. Tracks(u, d)
      BY <1>1, <2>1
    <2> QED
      BY <1>1, <2>1, <2>2, <2>3, <2>4, <2>5, Bookkeeping
  <1> QED
    BY <1>5, <1>6 DEF SettleUpload

LEMMA KeepForget ==
  ASSUME FileInv, NEW u \in Uploads, Forget(u) PROVE FileInv'
  <1>0. /\ up /\ uploadAt[u] = "forget" /\ mem[u] # None /\ mem[u].state = "committed"
        /\ (Owns(disk[u]) /\ Mine(u) => Owns(mem[u]))
        /\ UNCHANGED <<dir, owner>> /\ Rest(u) /\ Goes(u, "rest")
    BY Known DEF Forget, At, Memory
  <1>1. Steps(u, "rest") /\ active' = active
    BY <1>0, Resting DEF Labels
  <1>2. Tracks(u, mem[u]) /\ Tracks(u, disk[u]) /\ Tracks(u, None)
    BY Known, TracksPlain
  <1>3. PICK m \in {mem[u], None}, d \in {disk[u], None} :
          Writes(u, m, d) /\ (d = None \/ m = mem[u])
    BY Persisting DEF Forget
  <1>4. Shown(u)'
    BY <1>0, <1>1, <1>3, StillShown
  <1>5. Memory(u)'
    <2>1. Owns(d) /\ Mine(u) => Owns(m)
      BY <1>0, <1>3 DEF Owns
    <2> QED
      BY <1>1, <1>3, <2>1, Idle
  <1>6. Tracks(u, m) /\ Tracks(u, d)
    BY <1>2, <1>3
  <1> QED
    BY <1>1, <1>3, <1>4, <1>5, <1>6, Bookkeeping

LEMMA KeepDiscard ==
  ASSUME FileInv, NEW u \in Uploads, Discard(u) PROVE FileInv'
  <1>0. /\ up /\ uploadAt[u] = "discard" /\ Live(mem[u]) /\ mem[u] \in Record
        /\ (Owns(disk[u]) /\ Mine(u) => Owns(mem[u]))
        /\ UNCHANGED <<dir, owner>> /\ Rest(u)
    BY Known DEF Discard, At, Memory, Live
  <1>1. /\ Reconciled(u) \in Record /\ Tracks(u, Reconciled(u))
        /\ (Owns(Reconciled(u)) <=> Owns(mem[u])) /\ Live(Reconciled(u))
    BY <1>0, Recorded
  <1>2. ASSUME NEW l \in {"rest", "settle", "cleanup", "discard"}, Goes(u, l)
        PROVE  Steps(u, l) /\ Shown(u)'
    <2>1. Steps(u, l) /\ active' = active
      BY <1>0, <1>2, Resting DEF Labels
    <2> QED
      BY <1>0, <2>1, Hidden
  <1>3. CASE mem[u].paths \cap {"staged", "final"} = {}
    <2>1. Goes(u, "rest") /\ Writes(u, mem[u], disk[u])
      BY <1>3, Persisting DEF Discard
    <2>2. Steps(u, "rest") /\ Shown(u)'
      BY <1>2, <2>1
    <2>3. Memory(u)'
      BY <1>0, <2>1, <2>2, Idle
    <2>4. Tracks(u, mem[u]) /\ Tracks(u, disk[u])
      BY Known
    <2> QED
      BY <2>1, <2>2, <2>3, <2>4, Bookkeeping
  <1>4. CASE mem[u].paths \cap {"staged", "final"} # {}
    <2>1. PICK d : /\ Writes(u, Reconciled(u), d) /\ Tracks(u, d)
                   /\ Owns(d) /\ Mine(u) => Owns(Reconciled(u))
      BY <1>0, <1>4, Recorded DEF Discard
    <2>2. PICK l \in {"settle", "cleanup", "discard"} :
            Goes(u, l) /\ (l = "settle" => "final" \in Matches(u))
      BY <1>4 DEF Discard
    <2>3. Steps(u, l) /\ Shown(u)'
      BY <1>2, <2>2
    <2>4. l = "settle" => Owns(Reconciled(u))
      BY <1>0, <1>1, <2>2 DEF Matches, Live, Owns
    <2>5. Memory(u)'
      BY <1>1, <2>1, <2>2, <2>3, <2>4, Idle
    <2> QED
      BY <1>1, <2>1, <2>3, <2>5, Bookkeeping
  <1> QED
    BY <1>3, <1>4

-----------------------------------------------------------------------------
(* cleanup(), start-up and the configuration.                               *)

LEMMA KeepCleanup ==
  ASSUME FileInv, NEW u \in Uploads, Cleanup(u) PROVE FileInv'
  <1>0. /\ up /\ uploadAt[u] = "cleanup" /\ Live(mem[u]) /\ mem[u] \in Record
        /\ (Owns(disk[u]) /\ Mine(u) => Owns(mem[u]))
        /\ UNCHANGED <<dir, owner>> /\ Rest(u)
    BY Known DEF Cleanup, At, Memory, Live
  <1>1. PICK r : r = [mem[u] EXCEPT !.state = "cleanup"]
    OBVIOUS
  <1>2. /\ r \in Record /\ r # None /\ r.state = "cleanup" /\ r.inode = mem[u].inode
    BY <1>0, <1>1, NoneIsNoRecord DEF Record
  <1>3. Tracks(u, mem[u]) /\ Tracks(u, disk[u]) /\ Tracks(u, r)
    BY <1>0, <1>1, Known, TracksPlain
  <1>4. Live(r) /\ (Owns(mem[u]) => Owns(r))
    BY <1>2 DEF Live, Owns
  <1>5. ASSUME NEW l \in {"reconcile", "failing"}, Goes(u, l)
        PROVE  Steps(u, l) /\ Shown(u)'
    <2>1. Steps(u, l) /\ active' = active
      BY <1>0, <1>5, Resting DEF Labels
    <2> QED
      BY <1>0, <2>1, Hidden
  <1>6. ASSUME Saved(u, r), Goes(u, "reconcile") PROVE FileInv'
    <2>1. Steps(u, "reconcile") /\ Shown(u)' /\ Writes(u, r, r)
      BY <1>2, <1>5, <1>6, Persisting
    <2>2. Memory(u)'
      <3>1. uploadAt'[u] = "reconcile" /\ mem'[u] = r /\ disk'[u] = r
        BY <2>1, Remembered
      <3> QED
        BY <3>1, <1>4 DEF Memory, Serving, Renames
    <2> QED
      BY <1>3, <2>1, <2>2, Bookkeeping
  <1>7. ASSUME SaveFails(u, r, r), Goes(u, "failing") PROVE FileInv'
    <2>1. PICK d \in {disk[u], r} : Writes(u, r, d)
      BY <1>2, <1>7, Persisting
    <2>2. Steps(u, "failing") /\ Shown(u)'
      BY <1>5, <1>7
    <2>3. Memory(u)'
      BY <1>0, <1>4, <2>1, <2>2, Idle
    <2>4. Tracks(u, d)
      BY <1>3, <2>1
    <2> QED
      BY <1>3, <2>1, <2>2, <2>3, <2>4, Bookkeeping
  <1> QED
    BY <1>1, <1>6, <1>7 DEF Cleanup

\* The owned inode has one name.
LEMMA OneMatch ==
  ASSUME FileInv, NEW u \in Uploads, mem[u] \in Record,
         NEW p \in Matches(u), NEW q \in Matches(u)
  PROVE  p = q /\ p \in Places
  <1>1. p \in Places /\ q \in Places
    BY DEF Matches, Record
  <1>2. dir[u][p] # None /\ dir[u][p] = dir[u][q]
    BY DEF Matches
  <1> QED
    BY <1>1, <1>2 DEF FileInv, Placed

LEMMA KeepReconcile ==
  ASSUME FileInv, NEW u \in Uploads, Reconcile(u) PROVE FileInv'
  <1>0. /\ up /\ uploadAt[u] = "reconcile" /\ Live(mem[u]) /\ mem[u] \in Record
        /\ disk[u] = mem[u]
        /\ UNCHANGED <<dir, owner, active, activated, made, taken, late, up, crashes, users>>
    BY Known DEF Reconcile, At, Memory, Live
  <1>1. /\ Reconciled(u) \in Record /\ Tracks(u, Reconciled(u))
        /\ (Owns(Reconciled(u)) <=> Owns(mem[u])) /\ Live(Reconciled(u))
        /\ Reconciled(u).inode = mem[u].inode
        /\ Reconciled(u).paths = IF Matches(u) = {} THEN mem[u].paths ELSE Matches(u)
    BY <1>0, Recorded, Reconciling
  <1>2. ASSUME ReconcileSaves(u) PROVE Writes(u, Reconciled(u), Reconciled(u))
    BY <1>0, <1>2, Recorded
  <1>3. ASSUME Matches(u) # {} PROVE Owns(Reconciled(u))
    BY <1>0, <1>1, <1>3 DEF Matches, Live, Owns
  <1>4. ASSUME NEW l \in {"drop", "remove", "failing"}, Goes(u, l), UNCHANGED <<moving, move>>
        PROVE  Steps(u, l) /\ Shown(u)'
    <2>1. Steps(u, l) /\ active' = active
      BY <1>0, <1>4, Resting DEF Labels, Rest
    <2> QED
      BY <1>0, <2>1, Hidden
  <1>5. ASSUME ReconcileSaves(u), Matches(u) = {}, Goes(u, "drop"), UNCHANGED <<moving, move>>
        PROVE  FileInv'
    <2>1. Steps(u, "drop") /\ Shown(u)' /\ Writes(u, Reconciled(u), Reconciled(u))
      BY <1>2, <1>4, <1>5
    <2>2. Reconciled(u).inode = None \/ ~Mine(u)
      <3>1. SUFFICES ASSUME mem[u].inode # None, NEW p \in Places, InPlace(u, p) PROVE FALSE
        BY <1>1 DEF Mine
      <3>2. Tracks(u, mem[u]) /\ mem[u] # None
        BY <1>0, Known DEF Live
      <3>3. p \in mem[u].paths /\ mem[u].inode = made[u]
        BY <1>0, <3>1, <3>2 DEF Tracks, Names
      <3> QED
        BY <1>5, <3>1, <3>3 DEF Matches, InPlace
    <2>3. Memory(u)'
      <3>1. /\ uploadAt'[u] = "drop" /\ mem'[u] = Reconciled(u) /\ disk'[u] = Reconciled(u)
            /\ (Mine(u)' <=> Mine(u))
        BY <2>1, Remembered
      <3> QED
        BY <1>1, <2>2, <3>1 DEF Memory, Serving, Renames
    <2> QED
      BY <1>1, <2>1, <2>3, Bookkeeping
  <1>6. ASSUME ReconcileSaves(u), "quarantine" \in Matches(u), Goes(u, "remove"),
               UNCHANGED <<moving, move>>
        PROVE  FileInv'
    <2>1. Steps(u, "remove") /\ Shown(u)' /\ Writes(u, Reconciled(u), Reconciled(u))
      BY <1>2, <1>4, <1>6
    <2>2. Matches(u) = {"quarantine"}
      BY <1>0, <1>6, OneMatch
    <2>3. Reconciled(u).paths = {"quarantine"} /\ Owns(Reconciled(u))
      BY <1>1, <1>3, <2>2
    <2>4. Memory(u)'
      <3>1. /\ uploadAt'[u] = "remove" /\ mem'[u] = Reconciled(u) /\ disk'[u] = Reconciled(u)
        BY <2>1, Remembered
      <3> QED
        BY <2>3, <3>1 DEF Memory, Serving, Renames
    <2> QED
      BY <1>1, <2>1, <2>4, Bookkeeping
  <1>7. ASSUME ReconcileSaves(u), NEW p \in Matches(u) \ {"quarantine"},
               Starts(u, "quarantine", p, "quarantine")
        PROVE  FileInv'
    <2>1. p \in Places /\ Matches(u) = {p}
      BY <1>0, <1>7, OneMatch
    <2>2. Reconciled(u).paths = {p} /\ Owns(Reconciled(u))
      BY <1>1, <1>3, <2>1
    <2>3. /\ Steps(u, "prepare") /\ active' = active
          /\ moving'[u] = "quarantine" /\ move'[u] \in Move
          /\ move'[u].from = p /\ move'[u].to = "quarantine" /\ move'[u].undo = FALSE
      <3>1. "quarantine" \in Stages /\ "quarantine" \in Places
        BY DEF Stages, Places
      <3> QED
        BY <1>0, <1>7, <2>1, <3>1, Starting
    <2>4. Shown(u)'
      BY <1>0, <2>3, Hidden
    <2>5. PICK e \in Move : e = move'[u]
      BY <2>3
    <2>6. Writes(u, Reconciled(u), Reconciled(u))
      BY <1>2, <1>7
    <2>7. Memory(u)'
      BY <1>7, <2>2, <2>3, <2>5, <2>6, Prepared
    <2> QED
      BY <1>1, <2>3, <2>4, <2>6, <2>7, Bookkeeping
  <1>8. ASSUME ReconcileFails(u), Goes(u, "failing"), UNCHANGED <<moving, move>>
        PROVE  FileInv'
    <2>1. PICK d : /\ Writes(u, Reconciled(u), d) /\ Tracks(u, d)
                   /\ Owns(d) /\ Mine(u) => Owns(Reconciled(u))
      BY <1>0, <1>8, Recorded
    <2>2. Steps(u, "failing") /\ Shown(u)'
      BY <1>4, <1>8
    <2>3. Memory(u)'
      BY <1>1, <2>1, <2>2, Idle
    <2> QED
      BY <1>1, <2>1, <2>2, <2>3, Bookkeeping
  <1> QED
    BY <1>5, <1>6, <1>7, <1>8 DEF Reconcile

LEMMA KeepDrop ==
  ASSUME FileInv, NEW u \in Uploads, Drop(u) PROVE FileInv'
  <1>0. /\ up /\ uploadAt[u] = "drop" /\ Live(mem[u]) /\ mem[u] \in Record
        /\ (mem[u].inode = None \/ ~Mine(u)) /\ disk[u] = mem[u]
        /\ UNCHANGED <<dir, owner>> /\ Rest(u)
    BY Known DEF Drop, At, Memory, Live
  <1>1. PICK r : r = Emptied(mem[u])
    OBVIOUS
  <1>2. r \in Record /\ r.inode = None /\ r.state = "committed" /\ r # None
    BY <1>0, <1>1, Edits, NoneIsNoRecord
  <1>3. Tracks(u, mem[u]) /\ Tracks(u, disk[u]) /\ Tracks(u, r)
    BY <1>0, <1>1, Known, TracksEmptied
  <1>4. Live(r) /\ ~Owns(r)
    BY <1>2 DEF Live, Owns
  <1>5. Owns(mem[u]) => ~Mine(u)
    BY <1>0 DEF Owns
  <1>6. ASSUME NEW l \in {"dropped", "failing"}, Goes(u, l)
        PROVE  Steps(u, l) /\ Shown(u)'
    <2>1. Steps(u, l) /\ active' = active
      BY <1>0, <1>6, Resting DEF Labels
    <2> QED
      BY <1>0, <2>1, Hidden
  <1>7. ASSUME NEW d \in {mem[u], r}, Writes(u, r, d), NEW l \in {"dropped", "failing"}, Goes(u, l)
        PROVE  FileInv'
    <2>1. Steps(u, l) /\ Shown(u)'
      BY <1>6, <1>7
    <2>2. Memory(u)'
      BY <1>2, <1>4, <1>5, <1>7, <2>1, Idle
    <2>3. Tracks(u, d)
      BY <1>3, <1>7
    <2> QED
      BY <1>3, <1>7, <2>1, <2>2, <2>3, Bookkeeping
  <1>8. CASE Saved(u, r) /\ Goes(u, "dropped")
    BY <1>2, <1>7, <1>8, Persisting
  <1>9. CASE SaveFails(u, r, r) /\ Goes(u, "failing")
    BY <1>0, <1>2, <1>7, <1>9, Persisting
  <1> QED
    BY <1>1, <1>8, <1>9 DEF Drop

LEMMA KeepDropped ==
  ASSUME FileInv, NEW u \in Uploads, Dropped(u) PROVE FileInv'
  <1>0. /\ up /\ uploadAt[u] = "dropped" /\ Live(mem[u]) /\ mem[u] \in Record
        /\ mem[u].state = "committed"
        /\ (Owns(disk[u]) /\ Mine(u) => Owns(mem[u]))
        /\ UNCHANGED <<dir, owner>> /\ Rest(u)
    BY Known DEF Dropped, At, Memory, Live
  <1>1. Tracks(u, mem[u]) /\ Tracks(u, disk[u]) /\ Tracks(u, None) /\ ~Owns(None)
    BY Known, TracksPlain DEF Owns
  <1>2. ASSUME NEW l \in {"rest", "unlisted", "failing"}, Goes(u, l)
        PROVE  Steps(u, l) /\ Shown(u)'
    <2>1. Steps(u, l) /\ active' = active
      BY <1>0, <1>2, Resting DEF Labels
    <2> QED
      BY <1>0, <2>1, Hidden
  <1>3. ASSUME NEW m \in {mem[u], None}, NEW d \in {disk[u], None}, Writes(u, m, d),
               NEW l \in {"rest", "unlisted", "failing"}, Goes(u, l),
               l = "failing" => m = mem[u], l = "unlisted" => m = None, d = None \/ m = mem[u]
        PROVE  FileInv'
    <2>1. Steps(u, l) /\ Shown(u)'
      BY <1>2, <1>3
    <2>2. Owns(d) /\ Mine(u) => Owns(m)
      BY <1>0, <1>1, <1>3
    <2>3. l = "failing" => Live(m)
      BY <1>0, <1>3
    <2>4. Memory(u)'
      <3>1. CASE l = "unlisted"
        <4>1. /\ uploadAt'[u] = "unlisted" /\ mem'[u] = None /\ disk'[u] = d
              /\ d = None
          BY <1>0, <1>3, <2>1, <3>1, NoneIsNoRecord, Remembered
        <4> QED
          BY <1>1, <4>1 DEF Memory, Serving, Renames
      <3> QED
        BY <1>3, <2>1, <2>2, <2>3, <3>1, Idle
    <2>5. Tracks(u, m) /\ Tracks(u, d)
      BY <1>1, <1>3
    <2> QED
      BY <1>3, <2>1, <2>4, <2>5, Bookkeeping
  <1>4. CASE Forgotten(u) /\ (Goes(u, "rest") \/ Goes(u, "unlisted"))
    BY <1>3, <1>4, Persisting
  <1>5. CASE ForgetFails(u) /\ Goes(u, "failing")
    BY <1>3, <1>5, Persisting
  <1> QED
    BY <1>4, <1>5 DEF Dropped

LEMMA KeepFailing ==
  ASSUME FileInv, NEW u \in Uploads, Failing(u) PROVE FileInv'
  <1>0. /\ up /\ uploadAt[u] = "failing" /\ Live(mem[u]) /\ mem[u] \in Record
        /\ UNCHANGED <<dir, owner>> /\ Rest(u)
    BY Known DEF Failing, At, Memory, Live
  <1>1. Reconciled(u) \in Record /\ Tracks(u, Reconciled(u)) /\ Live(Reconciled(u))
    BY <1>0, Recorded
  <1>2. PICK d : /\ Writes(u, Reconciled(u), d) /\ Tracks(u, d)
                 /\ Owns(d) /\ Mine(u) => Owns(Reconciled(u))
    BY <1>0, Recorded DEF Failing
  <1>3. PICK l \in {"rest", "discard"} : Goes(u, l)
    BY DEF Failing
  <1>4. Steps(u, l) /\ active' = active
    BY <1>0, <1>3, Resting DEF Labels
  <1>5. Shown(u)'
    BY <1>0, <1>4, Hidden
  <1>6. Memory(u)'
    BY <1>1, <1>2, <1>3, <1>4, Idle
  <1> QED
    BY <1>1, <1>2, <1>4, <1>5, <1>6, Bookkeeping

LEMMA KeepRetry ==
  ASSUME FileInv, NEW u \in Uploads, Retry(u) PROVE FileInv'
  <1>0. /\ up /\ uploadAt[u] = "rest" /\ mem[u] # None
        /\ (Owns(disk[u]) /\ Mine(u) => Owns(mem[u]))
        /\ UNCHANGED <<dir, owner, mem, disk, faults>> /\ Rest(u)
    BY Known DEF Retry, At, Memory, ledger
  <1>1. PICK l \in {"cleanup", "forget"} :
          Goes(u, l) /\ mem[u].state = IF l = "cleanup" THEN "cleanup" ELSE "committed"
    BY DEF Retry
  <1>2. Writes(u, mem[u], disk[u]) /\ Tracks(u, mem[u]) /\ Tracks(u, disk[u])
    BY <1>0, Persisting, Known
  <1>3. Steps(u, l) /\ active' = active
    BY <1>0, <1>1, Resting DEF Labels
  <1>4. Shown(u)'
    <2>1. active = u /\ ~Away(u) => mem[u].state # "cleanup"
      BY <1>0, Known DEF Shown
    <2> QED
      BY <1>1, <1>2, <1>3, <2>1, StillShown
  <1>5. Memory(u)'
    <2>1. l = "cleanup" => Live(mem[u])
      BY <1>0, <1>1 DEF Live
    <2> QED
      BY <1>0, <1>1, <1>2, <1>3, <2>1, Idle
  <1> QED
    BY <1>2, <1>3, <1>4, <1>5, Bookkeeping

\* What start-up does to a record before it fails: the process does not survive it.
LEMMA Stopping ==
  ASSUME FileInv, NEW u \in Uploads, NEW r \in Record, Tracks(u, r), StartFails(r, u),
         uploadAt[u] # "new"
  PROVE  FileInv'
  <1>0. /\ up' = FALSE /\ mem' = [v \in Uploads |-> None] /\ faults' \in 0..MaxFaults
        /\ disk' = disk \/ disk' = [disk EXCEPT ![u] = r]
        /\ UNCHANGED <<dir, owner, uploadAt, moving, move, active, activated, made, taken, late, crashes,
                       users>>
    BY Known, LedgerAssumption DEF StartFails, Dies, Fault
  <1>1. disk \in [Uploads -> Record \cup {None}]
    BY Known
  <1>2. /\ disk' \in [Uploads -> Record \cup {None}] /\ disk'[u] \in {disk[u], r}
        /\ \A v \in Uploads : v # u => disk'[v] = disk[v]
    BY <1>0, <1>1
  <1>3. UploadTypes'
    <2>1. mem' \in [Uploads -> Record \cup {None}]
      BY <1>0
    <2> QED
      BY <1>0, <1>2, <2>1 DEF FileInv, UploadTypes, LedgerTypeOK
  <1>4. Placed' /\ \A v \in Uploads : mem'[v] = None
    BY <1>0 DEF FileInv, Placed
  <1>5. \A v \in Uploads : v # u => File(v)'
    <2>1. Elsewhere(u)
      BY <1>0, <1>2, <1>4 DEF Elsewhere
    <2>2. HandsOver(u) /\ Names1(u)
      BY <1>0 DEF HandsOver, Names1
    <2>3. StepOf(u)
      BY <1>0, <2>1, <2>2 DEF StepOf
    <2> QED
      BY <2>3, OthersStay
  <1>6. File(u)'
    <2>1. Tracks(u, mem[u])'
      BY <1>4 DEF Tracks, Live, Owns
    <2>2. Tracks(u, disk[u])'
      <3>1. PICK d \in {disk[u], r} : disk'[u] = d
        BY <1>2
      <3>2. Tracks(u, d)
        BY <3>1, Known
      <3> QED
        BY <1>0, <3>1, <3>2 DEF Tracks, InPlace, Mine, Away, Lost
    <2>3. Shown(u)'
      BY <1>0, Known DEF Shown, Away, InPlace
    <2>4. Away(u)' => made'[u] # None /\ ~Mine(u)'
      BY <1>0, Known DEF InPlace, Mine, Away
    <2> QED
      BY <1>0, <2>1, <2>2, <2>3, <2>4 DEF File
  <1> QED
    BY <1>0, <1>3, <1>4, <1>5, <1>6 DEF FileInv

LEMMA KeepRecover ==
  ASSUME FileInv, NEW u \in Uploads, Recover(u) PROVE FileInv'
  <1>0. /\ up /\ uploadAt[u] = "recover" /\ disk[u] # None /\ mem[u] = Recovered(disk[u])
        /\ disk[u] \in Record /\ Tracks(u, mem[u])
    BY Known DEF Recover, At, Memory
  <1>1. mem[u] \in Record /\ mem[u] # None
    <2>1. CASE disk[u].state = "committed"
      BY <1>0, <2>1, NoneIsNoRecord DEF Recovered
    <2>2. CASE disk[u].state # "committed"
      <3>1. mem[u] = [disk[u] EXCEPT !.state = "cleanup"]
        BY <1>0, <2>2 DEF Recovered
      <3> QED
        BY <1>0, <3>1, Marked, NoneIsNoRecord
    <2> QED
      BY <2>1, <2>2
  <1>2. /\ Reconciled(u) \in Record /\ Tracks(u, Reconciled(u))
        /\ (Owns(Reconciled(u)) <=> Owns(mem[u])) /\ (Live(Reconciled(u)) <=> Live(mem[u]))
        /\ Reconciled(u).state = mem[u].state
    BY <1>0, <1>1, Recorded
  <1>3. CASE StartFails(Reconciled(u), u)
    BY <1>0, <1>2, <1>3, Stopping
  <1>4. ASSUME ReconcileSaves(u), UNCHANGED <<dir, owner>>, Rest(u),
               NEW l \in {"adopt", "cleanup"}, Goes(u, l),
               l = "adopt" <=> mem[u].state = "committed" \/ (active = u /\ "final" \in Matches(u))
        PROVE  FileInv'
    <2>1. PICK d : /\ Writes(u, Reconciled(u), d) /\ Tracks(u, d)
                   /\ Owns(d) /\ Mine(u) => Owns(Reconciled(u))
      BY <1>0, <1>1, <1>4, Recorded
    <2>2. Steps(u, l) /\ active' = active
      BY <1>0, <1>4, Resting DEF Labels
    <2>3. Shown(u)'
      <3>1. active = u /\ ~Away(u) => l = "adopt"
        <4>1. SUFFICES ASSUME active = u, ~Away(u), mem[u].state # "committed"
                       PROVE  "final" \in Matches(u)
          BY <1>4
        <4>2. InPlace(u, "final") /\ made[u] # None /\ "final" \in Places
          BY <4>1, Known DEF Shown, Places
        <4>3. "final" \in Names(mem[u])
          BY <1>0, <1>1, <4>1, <4>2 DEF Tracks, Live
        <4>4. mem[u].inode = made[u] /\ "final" \in mem[u].paths
          BY <1>0, <1>1, <4>3 DEF Names, Tracks
        <4> QED
          BY <4>2, <4>4 DEF Matches, InPlace
      <3> QED
        BY <2>1, <2>2, <3>1, StillShown
    <2>4. Memory(u)'
      <3>1. CASE l = "cleanup"
        <4>1. Live(Reconciled(u))
          BY <1>1, <1>2, <1>4, <3>1 DEF Live
        <4> QED
          BY <2>1, <2>2, <3>1, <4>1, Idle
      <3>2. CASE l = "adopt"
        <4>1. /\ uploadAt'[u] = "adopt" /\ mem'[u] = Reconciled(u) /\ disk'[u] = d
              /\ (Mine(u)' <=> Mine(u)) /\ active' = active
          BY <2>1, <2>2, <3>2, Remembered
        <4>2. Reconciled(u).state = "committed" \/ (Owns(Reconciled(u)) /\ active = u)
          BY <1>1, <1>2, <1>4, <3>2 DEF Matches, Owns
        <4>3. Reconciled(u) # None
          BY <1>2, NoneIsNoRecord
        <4> QED
          BY <2>1, <4>1, <4>2, <4>3 DEF Memory, Serving, Renames
      <3> QED
        BY <1>4, <3>1, <3>2
    <2> QED
      BY <1>2, <2>1, <2>2, <2>3, <2>4, Bookkeeping
  <1> QED
    BY <1>3, <1>4 DEF Recover

LEMMA KeepAdopt ==
  ASSUME FileInv, NEW u \in Uploads, Adopt(u) PROVE FileInv'
  <1>0. /\ up /\ uploadAt[u] = "adopt" /\ mem[u] # None /\ mem[u] \in Record /\ Tracks(u, mem[u])
    BY Known DEF Adopt, At, Memory
  <1>1. /\ Committed(mem[u]) \in Record /\ Committed(mem[u]).state = "committed"
        /\ Committed(mem[u]) # None /\ Tracks(u, Committed(mem[u]))
    BY <1>0, Edits, TracksPlain, NoneIsNoRecord
  <1>2. CASE StartFails(Committed(mem[u]), u)
    BY <1>0, <1>1, <1>2, Stopping
  <1>3. CASE Saved(u, Committed(mem[u])) /\ Goes(u, "forget") /\ UNCHANGED <<dir, owner>> /\ Rest(u)
    <2>1. Steps(u, "forget") /\ active' = active
      BY <1>0, <1>3, Resting DEF Labels
    <2>2. Writes(u, Committed(mem[u]), Committed(mem[u]))
      BY <1>1, <1>3, Persisting
    <2>3. Shown(u)'
      BY <1>1, <2>1, <2>2, StillShown
    <2>4. Memory(u)'
      <3>1. ~Owns(Committed(mem[u]))
        BY <1>1 DEF Owns
      <3> QED
        BY <1>1, <2>1, <2>2, <3>1, Idle
    <2> QED
      BY <1>1, <2>1, <2>2, <2>3, <2>4, Bookkeeping
  <1> QED
    BY <1>2, <1>3 DEF Adopt

\* A listed upload has settled its record.
LEMMA ListedFree ==
  ASSUME FileInv, NEW u \in Uploads, up, Listed(u)
  PROVE  /\ InPlace(u, "final") /\ made[u] # None /\ Mine(u)
         /\ ~Owns(mem[u]) /\ ~Owns(disk[u])
         /\ mem[u] = None \/ mem[u].state = "committed"
  <1>1. InPlace(u, "final") /\ made[u] # None /\ "final" \in Places
    BY DEF Listed, InPlace, Places
  <1>2. Mine(u)
    BY <1>1 DEF Mine
  <1>3. mem[u] = None \/ mem[u].state = "committed"
    <2>1. SUFFICES ASSUME mem[u] # None, mem[u].state # "committed" PROVE FALSE
      OBVIOUS
    <2>2. "final" \in Names(mem[u]) /\ mem[u].inode \in {None, made[u]}
      BY <1>1, <2>1, Known DEF Tracks, Live
    <2>3. "final" \in mem[u].paths /\ mem[u].inode = made[u]
      BY <2>2 DEF Names
    <2> QED
      BY <1>1, <2>1, <2>3 DEF Listed, Owns, Matches, InPlace
  <1>4. ~Owns(mem[u])
    BY <1>3 DEF Owns
  <1>5. ~Owns(disk[u])
    BY <1>2, <1>4, Known DEF Memory
  <1> QED
    BY <1>1, <1>2, <1>3, <1>4, <1>5

LEMMA KeepSwitch ==
  ASSUME FileInv, NEW u \in Uploads, Switch(u) PROVE FileInv'
  <1>0. /\ up /\ Served /\ uploadAt[u] = "rest" /\ Listed(u) /\ active' = u
        /\ UNCHANGED <<ledger, uploadAt, moving, move, activated, made, taken, late, up, crashes, users>>
    BY DEF Switch, At
  <1>1. /\ InPlace(u, "final") /\ made[u] # None /\ ~Owns(disk[u])
        /\ mem[u] = None \/ mem[u].state = "committed"
    BY <1>0, ListedFree
  <1>2. Writes(u, mem[u], disk[u]) /\ Tracks(u, mem[u]) /\ Tracks(u, disk[u])
    BY <1>0, Persisting, Known DEF ledger
  <1>3. Steps(u, "rest")
    BY <1>0 DEF Steps, Names1, FileInv, UploadTypes, ledger, Labels
  <1>4. Memory(u)'
    BY <1>1, <1>2, <1>3, Idle
  <1>5. Shown(u)'
    <2>1. /\ uploadAt'[u] = "rest" /\ mem'[u] = mem[u] /\ made'[u] = made[u]
          /\ (InPlace(u, "final")' <=> InPlace(u, "final"))
      BY <1>2, <1>3, Remembered DEF Places
    <2> QED
      BY <1>1, <2>1 DEF Shown
  <1> QED
    BY <1>2, <1>3, <1>4, <1>5, Bookkeeping

LEMMA KeepDeactivate ==
  ASSUME FileInv, Deactivate PROVE FileInv'
  <1>0. /\ Served /\ up /\ active' = None /\ active # None
        /\ UNCHANGED <<ledger, uploadAt, moving, move, activated, made, taken, late, up, crashes, users>>
    BY DEF Deactivate, Served
  <1>1. PICK u \in Uploads : active = u
    BY <1>0 DEF FileInv, UploadTypes
  <1>2. /\ uploadAt[u] \notin {"recover", "adopt", "new"} /\ uploadAt[u] \in Labels
    <2>1. made[u] # None
      BY <1>1, Known DEF Shown
    <2> QED
      BY <1>0, <2>1, Known DEF Served
  <1>3. Writes(u, mem[u], disk[u]) /\ Tracks(u, mem[u]) /\ Tracks(u, disk[u])
    BY <1>0, Persisting, Known DEF ledger
  <1>4. Steps(u, uploadAt[u])
    BY <1>0, <1>2 DEF Steps, Names1, FileInv, UploadTypes, ledger
  <1>5. Memory(u)'
    <2>1. Memory(u)
      BY <1>0, Known
    <2>2. /\ uploadAt'[u] = uploadAt[u] /\ mem'[u] = mem[u] /\ disk'[u] = disk[u]
          /\ made'[u] = made[u] /\ moving'[u] = moving[u] /\ move'[u] = move[u]
          /\ (Mine(u)' <=> Mine(u)) /\ (InPlace(u, "part")' <=> InPlace(u, "part"))
          /\ Served' /\ dir'[u] = dir[u] /\ (Away(u)' <=> Away(u)) /\ (u \in late' <=> u \in late)
      BY <1>0, <1>2, <1>3, <1>4, Remembered DEF Places, Away, ledger
    <2>3. (Moves(u)' <=> Moves(u)) /\ (Serving(u)' <=> Serving(u))
      BY <2>2 DEF Moves, Pair, Serving
    <2> QED
      BY <1>2, <2>1, <2>2, <2>3 DEF Memory
  <1>6. Shown(u)'
    BY <1>0, StoreAssumption DEF Shown
  <1> QED
    BY <1>3, <1>4, <1>5, <1>6, Bookkeeping

LEMMA KeepCrash ==
  ASSUME FileInv, Crash PROVE FileInv'
  <1>0. /\ up' = FALSE /\ mem' = [v \in Uploads |-> None] /\ crashes' \in 0..MaxCrashes
        /\ UNCHANGED <<dir, owner, disk, faults, uploadAt, moving, move, active, activated, made,
                       taken, late, users>>
    BY StoreAssumption DEF Crash, Dies, FileInv, UploadTypes
  <1>1. UploadTypes' /\ Placed' /\ \A v \in Uploads : mem'[v] = None
    <2>1. mem' \in [Uploads -> Record \cup {None}]
      BY <1>0
    <2>2. UploadTypes'
      BY <1>0, <2>1 DEF FileInv, UploadTypes, LedgerTypeOK
    <2> QED
      BY <1>0, <2>2 DEF FileInv, Placed
  <1>2. ASSUME NEW u \in Uploads PROVE File(u)'
    <2>1. Tracks(u, mem[u])'
      BY <1>1 DEF Tracks, Live, Owns
    <2>2. Tracks(u, disk[u])'
      <3>1. Tracks(u, disk[u])
        BY Known
      <3> QED
        BY <1>0, <3>1 DEF Tracks, InPlace, Mine, Away, Lost
    <2>3. Shown(u)'
      BY <1>0, Known DEF Shown, Away, InPlace
    <2>4. uploadAt'[u] = "new" => made'[u] = None /\ disk'[u] = None
      BY <1>0, Known
    <2>5. Away(u)' => made'[u] # None /\ ~Mine(u)'
      BY <1>0, Known DEF InPlace, Mine, Away
    <2> QED
      BY <1>0, <2>1, <2>2, <2>3, <2>4, <2>5 DEF File
  <1> QED
    BY <1>0, <1>1, <1>2 DEF FileInv

LEMMA KeepRestart ==
  ASSUME FileInv, Restart PROVE FileInv'
  <1>0. /\ up' = TRUE /\ mem' = [u \in Uploads |-> Recovered(disk[u])]
        /\ active' \in {active, None}
        /\ uploadAt' = [u \in Uploads |-> IF disk[u] # None THEN "recover"
                                          ELSE IF uploadAt[u] = "new" THEN "new" ELSE "rest"]
        /\ UNCHANGED <<dir, owner, disk, faults, moving, move, activated, made, taken, late, crashes,
                       users>>
    BY DEF Restart
  <1>1. ASSUME NEW u \in Uploads
        PROVE  /\ Recovered(disk[u]) \in Record \cup {None} /\ Tracks(u, Recovered(disk[u]))
               /\ (Owns(disk[u]) => Owns(Recovered(disk[u])))
    <2>1. disk[u] \in Record \cup {None} /\ Tracks(u, disk[u])
      BY Known
    <2>2. CASE disk[u] = None \/ disk[u].state = "committed"
      BY <2>1, <2>2 DEF Recovered
    <2>3. CASE disk[u] # None /\ disk[u].state # "committed"
      <3>1. Recovered(disk[u]) = [disk[u] EXCEPT !.state = "cleanup"] /\ disk[u] \in Record
        BY <2>1, <2>3 DEF Recovered
      <3>2. Recovered(disk[u]) \in Record
        BY <3>1 DEF Record
      <3>3. Tracks(u, Recovered(disk[u]))
        <4>1. Live(disk[u])
          BY <2>3 DEF Live
        <4> QED
          BY <2>1, <3>1, <4>1, TracksPlain
      <3>4. Recovered(disk[u]).inode = disk[u].inode /\ Recovered(disk[u]).state = "cleanup"
        BY <3>1, Marked
      <3> QED
        BY <3>2, <3>3, <3>4, NoneIsNoRecord DEF Owns
    <2> QED
      BY <2>2, <2>3
  <1>2. UploadTypes'
    <2>1. mem' \in [Uploads -> Record \cup {None}]
      BY <1>0, <1>1
    <2>2. uploadAt' \in [Uploads -> Labels]
      BY <1>0 DEF Labels
    <2>3. active' \in Uploads \cup {None} /\ up' \in BOOLEAN
      BY <1>0 DEF FileInv, UploadTypes
    <2> QED
      BY <1>0, <2>1, <2>2, <2>3 DEF FileInv, UploadTypes, LedgerTypeOK
  <1>3. Placed'
    BY <1>0 DEF FileInv, Placed
  <1>4. ASSUME NEW u \in Uploads PROVE File(u)'
    <2>0. /\ mem'[u] = Recovered(disk[u]) /\ disk'[u] = disk[u] /\ made'[u] = made[u]
          /\ uploadAt'[u] = IF disk[u] # None THEN "recover"
                            ELSE IF uploadAt[u] = "new" THEN "new" ELSE "rest"
          /\ \A p \in Places : InPlace(u, p)' <=> InPlace(u, p)
          /\ (Mine(u)' <=> Mine(u)) /\ (Away(u)' <=> Away(u)) /\ (Lost(u)' <=> Lost(u))
      BY <1>0 DEF InPlace, Mine, Away, Lost
    <2>1. Tracks(u, mem[u])' /\ Tracks(u, disk[u])'
      <3>1. ASSUME NEW r, Tracks(u, r), NEW x, x = r
            PROVE  /\ x # None => x.inode \in {None, made'[u]}
                   /\ Live(x) => \A p \in Places : InPlace(u, p)' => p \in Names(x)
                   /\ Owns(x) /\ Lost(u)' => x.paths = {"quarantine"}
        BY <1>0, <2>0, <3>1 DEF Tracks
      <3>2. Tracks(u, disk[u]) /\ Tracks(u, Recovered(disk[u]))
        BY <1>1, Known
      <3> QED
        BY <2>0, <3>1, <3>2 DEF Tracks
    <2>2. disk[u] = None => mem'[u] = None
      BY <2>0 DEF Recovered
    <2>3. uploadAt'[u] = "new" => made[u] = None /\ disk[u] = None
      BY <2>0, Known
    <2>4. Memory(u)'
      <3>1. uploadAt'[u] \in {"recover", "new", "rest"}
        BY <2>0
      <3>2. Owns(disk'[u]) => Owns(mem'[u])
        BY <1>1, <2>0
      <3>3. ~Serving(u)'
        BY <3>1 DEF Serving, Renames
      <3>4. CASE disk[u] # None
        BY <2>0, <3>2, <3>3, <3>4 DEF Memory, Renames
      <3>5. CASE disk[u] = None
        BY <2>0, <2>2, <2>3, <3>1, <3>2, <3>3, <3>5 DEF Memory, Renames
      <3> QED
        BY <3>4, <3>5
    <2>5. Shown(u)'
      <3>1. SUFFICES ASSUME active = u PROVE Shown(u)'
        BY <1>0, StoreAssumption DEF Shown
      <3>2. made[u] # None /\ (Away(u) \/ InPlace(u, "final")) /\ "final" \in Places
        BY <3>1, Known DEF Shown, Places
      <3>3. uploadAt'[u] \in {"recover", "rest"} /\ (uploadAt'[u] = "rest" => mem'[u] = None)
        BY <2>0, <2>2, <2>3, <3>2
      <3> QED
        BY <2>0, <3>2, <3>3 DEF Shown
    <2> QED
      BY <2>0, <2>1, <2>3, <2>4, <2>5, Known DEF File
  <1> QED
    BY <1>0, <1>2, <1>3, <1>4 DEF FileInv

-----------------------------------------------------------------------------
(* The steps that make, move and remove files.                              *)

\* A step that changes files of u only, and no record.
Handles(u, l) ==
  /\ up' = up /\ mem' = mem /\ disk' = disk /\ faults' \in 0..MaxFaults
  /\ moving' = moving /\ move' = move /\ active' = active /\ activated' \subseteq Uploads
  /\ crashes' = crashes /\ users' \in 0..MaxUser
  /\ l \in Labels /\ uploadAt' = [uploadAt EXCEPT ![u] = l]
  /\ l \in {"new", "recover", "adopt"} => uploadAt[u] = l
  /\ dir' \in [Uploads -> [Places -> Inodes \cup {None}]]
  /\ owner' \in [Inodes -> {"free", "store", "user"}]
  /\ made' \in [Uploads -> Inodes \cup {None}]
  /\ taken' \subseteq Uploads /\ late' \subseteq Uploads
  /\ \A v \in Uploads : v # u =>
       /\ dir'[v] = dir[v] /\ made'[v] = made[v]
       /\ (v \in taken' <=> v \in taken) /\ (v \in late' <=> v \in late)

LEMMA Handled ==
  ASSUME FileInv, NEW u \in Uploads, NEW l, Handles(u, l)
  PROVE  /\ uploadAt'[u] = l /\ l \in Labels /\ mem'[u] = mem[u] /\ disk'[u] = disk[u]
         /\ moving'[u] = moving[u] /\ move'[u] = move[u] /\ Pair(u)' = Pair(u)
         /\ active' = active /\ up' = up /\ (Served => Served')
  <1>1. uploadAt \in [Uploads -> Labels]
    BY DEF FileInv, UploadTypes
  <1>2. Served => Served'
    BY <1>1 DEF Served, Handles
  <1>3. uploadAt'[u] = l
    BY <1>1 DEF Handles
  <1> QED
    BY <1>2, <1>3 DEF Handles, Pair

LEMMA Handling ==
  ASSUME FileInv, NEW u \in Uploads, NEW l, Handles(u, l), HandsOver(u), Placed',
         l = "new" => made'[u] = None /\ disk[u] = None,
         Away(u)' => made'[u] # None /\ ~Mine(u)',
         Tracks(u, mem[u])', Tracks(u, disk[u])', up => Memory(u)', Shown(u)'
  PROVE  FileInv'
  <1>1. UploadTypes'
    <2>1. uploadAt' \in [Uploads -> Labels]
      BY DEF FileInv, UploadTypes, Handles
    <2> QED
      BY <2>1 DEF FileInv, UploadTypes, LedgerTypeOK, Handles
  <1>2. ~up' => \A v \in Uploads : mem'[v] = None
    BY DEF FileInv, Handles
  <1>3. StepOf(u)
    <2>1. Elsewhere(u)
      <3>1. uploadAt \in [Uploads -> Labels]
        BY DEF FileInv, UploadTypes
      <3>2. ASSUME NEW v \in Uploads, v # u
            PROVE  /\ dir'[v] = dir[v] /\ disk'[v] = disk[v] /\ uploadAt'[v] = uploadAt[v]
                   /\ moving'[v] = moving[v] /\ move'[v] = move[v] /\ made'[v] = made[v]
                   /\ mem'[v] = mem[v]
                   /\ (v \in taken' <=> v \in taken) /\ (v \in late' <=> v \in late)
        BY <3>1, <3>2 DEF Handles
      <3> QED
        BY <3>2 DEF Elsewhere
    <2>2. Names1(u) /\ (up' => up)
      BY DEF Names1, Handles
    <2>3. Served => Served'
      BY Handled
    <2> QED
      BY <2>1, <2>2, <2>3 DEF StepOf
  <1>4. \A v \in Uploads : v # u => File(v)'
    BY <1>3, OthersStay
  <1>5. File(u)'
    BY Handled DEF File
  <1> QED
    BY <1>1, <1>2, <1>4, <1>5 DEF FileInv

\* Removing a file: the one the upload made, or another.
LEMMA RemovedPlaces ==
  ASSUME FileInv, NEW u \in Uploads, NEW p \in Places, dir[u][p] # None, Unlinked(u, p),
         made' = made
  PROVE  /\ dir' \in [Uploads -> [Places -> Inodes \cup {None}]]
         /\ owner' \in [Inodes -> {"free", "store", "user"}]
         /\ \A v \in Uploads : v # u => dir'[v] = dir[v]
         /\ HandsOver(u) /\ Placed'
         /\ \A q \in Places : InPlace(u, q)' <=> (InPlace(u, q) /\ q # p)
         /\ Mine(u)' => Mine(u)
         /\ dir'[u][p] = None /\ \A q \in Places : q # p => dir'[u][q] = dir[u][q]
  <1>0. /\ dir \in [Uploads -> [Places -> Inodes \cup {None}]]
        /\ owner \in [Inodes -> {"free", "store", "user"}]
        /\ made[u] \in Inodes \cup {None}
        /\ dir' = [dir EXCEPT ![u][p] = None]
        /\ owner' = [owner EXCEPT ![dir[u][p]] = "free"]
    BY Known DEF FileInv, UploadTypes, LedgerTypeOK, Unlinked
  <1>1. PICK j \in Inodes : j = dir[u][p]
    BY <1>0
  <1>2. /\ dir' \in [Uploads -> [Places -> Inodes \cup {None}]]
        /\ \A v \in Uploads : v # u => dir'[v] = dir[v]
        /\ dir'[u][p] = None /\ \A q \in Places : q # p => dir'[u][q] = dir[u][q]
    BY <1>0
  <1>3. /\ owner' \in [Inodes -> {"free", "store", "user"}]
        /\ owner'[j] = "free" /\ \A i \in Inodes : i # j => owner'[i] = owner[i]
    BY <1>0, <1>1
  <1>4. HandsOver(u)
    BY <1>1, <1>3 DEF HandsOver
  <1>5. /\ owner[j] \in {"store", "user"}
        /\ \A v \in Uploads, q \in Places : dir[v][q] = j => v = u /\ q = p
    BY <1>1, LedgerAssumption DEF FileInv, Placed
  <1>6. ASSUME NEW v \in Uploads, NEW q \in Places, dir'[v][q] # None
        PROVE  dir'[v][q] = dir[v][q] /\ dir[v][q] # j /\ dir[v][q] \in Inodes
               /\ owner'[dir[v][q]] = owner[dir[v][q]]
    <2>1. v # u \/ q # p
      BY <1>2, <1>6
    <2>2. dir'[v][q] = dir[v][q]
      BY <1>2, <2>1
    <2>3. dir[v][q] \in Inodes /\ dir[v][q] # j
      BY <1>0, <1>5, <1>6, <2>1, <2>2
    <2> QED
      BY <1>3, <2>2, <2>3
  <1>7. Placed'
    <2>1. ASSUME NEW v \in Uploads, NEW q \in Places, dir'[v][q] # None
          PROVE  /\ owner'[dir'[v][q]] \in {"store", "user"}
                 /\ owner'[dir'[v][q]] = "store" => dir'[v][q] = made'[v]
      BY <1>6, <2>1 DEF FileInv, Placed
    <2>2. ASSUME NEW v \in Uploads, NEW w \in Uploads, NEW q \in Places, NEW s \in Places,
                 dir'[v][q] # None, dir'[v][q] = dir'[w][s]
          PROVE  v = w /\ q = s
      <3>1. dir[v][q] # None /\ dir[v][q] = dir[w][s]
        BY <1>6, <2>2
      <3> QED
        BY <3>1 DEF FileInv, Placed
    <2> QED
      BY <2>1, <2>2 DEF Placed
  <1>8. ASSUME NEW q \in Places PROVE InPlace(u, q)' <=> (InPlace(u, q) /\ q # p)
    <2>1. CASE q = p
      BY <1>2, <2>1 DEF InPlace
    <2>2. CASE q # p
      <3>1. dir'[u][q] = dir[u][q] /\ dir[u][q] # j
        BY <1>2, <1>5, <2>2
      <3> QED
        BY <1>0, <1>3, <2>2, <3>1 DEF InPlace
    <2> QED
      BY <2>1, <2>2
  <1>9. Mine(u)' => Mine(u)
    BY <1>8 DEF Mine
  <1> QED
    BY <1>2, <1>3, <1>4, <1>7, <1>8, <1>9

\* Moving a file: the one the upload made follows.
LEMMA MovedPlaces ==
  ASSUME FileInv, NEW u \in Uploads, NEW from \in Places, NEW to \in Places,
         CanMove(u, from, to), Moved(u, from, to), owner' = owner, made' = made,
         taken' = taken
  PROVE  /\ dir' \in [Uploads -> [Places -> Inodes \cup {None}]]
         /\ \A v \in Uploads : v # u => dir'[v] = dir[v]
         /\ HandsOver(u) /\ Placed'
         /\ \A q \in Places : InPlace(u, q)' <=> \/ q = to /\ InPlace(u, from)
                                                 \/ q \notin {from, to} /\ InPlace(u, q)
         /\ (Mine(u)' <=> Mine(u)) /\ (Away(u)' <=> Away(u)) /\ (Lost(u)' <=> Lost(u))
         /\ dir'[u][from] = None /\ dir'[u][to] = dir[u][from]
         /\ \A q \in Places : q \notin {from, to} => dir'[u][q] = dir[u][q]
  <1>0. /\ dir \in [Uploads -> [Places -> Inodes \cup {None}]]
        /\ dir' = [dir EXCEPT ![u][from] = None, ![u][to] = dir[u][from]]
        /\ dir[u][from] # None /\ dir[u][to] = None /\ from # to
    BY DEF FileInv, UploadTypes, LedgerTypeOK, Moved, CanMove
  <1>1. /\ dir' \in [Uploads -> [Places -> Inodes \cup {None}]]
        /\ \A v \in Uploads : v # u => dir'[v] = dir[v]
        /\ dir'[u][from] = None /\ dir'[u][to] = dir[u][from]
        /\ \A q \in Places : q \notin {from, to} => dir'[u][q] = dir[u][q]
    BY <1>0
  <1>2. HandsOver(u)
    BY DEF HandsOver
  <1>3. Placed'
    <2>1. ASSUME NEW v \in Uploads, NEW q \in Places, dir'[v][q] # None
          PROVE  \/ v = u /\ q = to /\ dir'[v][q] = dir[u][from]
                 \/ (v # u \/ q \notin {from, to}) /\ dir'[v][q] = dir[v][q]
      BY <1>1, <2>1
    <2>2. ASSUME NEW v \in Uploads, NEW q \in Places, dir'[v][q] # None
          PROVE  /\ owner[dir'[v][q]] \in {"store", "user"}
                 /\ owner[dir'[v][q]] = "store" => dir'[v][q] = made[v]
      BY <1>0, <2>1, <2>2 DEF FileInv, Placed
    <2>3. ASSUME NEW v \in Uploads, NEW w \in Uploads, NEW q \in Places, NEW s \in Places,
                 dir'[v][q] # None, dir'[v][q] = dir'[w][s]
          PROVE  v = w /\ q = s
      <3>1. \A a, b \in Uploads, x, y \in Places :
              dir[a][x] # None /\ dir[a][x] = dir[b][y] => a = b /\ x = y
        BY DEF FileInv, Placed
      <3> QED
        BY <1>0, <2>1, <2>3, <3>1
    <2> QED
      BY <2>2, <2>3 DEF Placed
  <1>4. \A q \in Places : InPlace(u, q)' <=> \/ q = to /\ InPlace(u, from)
                                             \/ q \notin {from, to} /\ InPlace(u, q)
    BY <1>0, <1>1 DEF InPlace
  <1>5. Mine(u)' <=> Mine(u)
    <2>1. ~InPlace(u, to)
      BY <1>0 DEF InPlace
    <2>2. ASSUME NEW q \in Places, InPlace(u, q) PROVE \E s \in Places : InPlace(u, s)'
      <3>1. CASE q = from
        <4>1. InPlace(u, to)'
          BY <1>1, <2>2, <3>1 DEF InPlace
        <4> QED
          BY <4>1
      <3>2. CASE q # from
        BY <1>4, <2>1, <2>2, <3>2
      <3> QED
        BY <3>1, <3>2
    <2>3. ASSUME NEW q \in Places, InPlace(u, q)' PROVE \E s \in Places : InPlace(u, s)
      BY <1>4, <2>3
    <2> QED
      BY <2>2, <2>3 DEF Mine
  <1>6. Away(u)' <=> Away(u)
    BY DEF Away
  <1> QED
    BY <1>1, <1>2, <1>3, <1>4, <1>5, <1>6 DEF Lost

\* A file under a free name.
LEMMA MadePlaces ==
  ASSUME FileInv, NEW u \in Uploads, NEW p \in Places, NEW i \in Inodes,
         NEW who \in {"store", "user"}, Made(u, p, i, who),
         \A v \in Uploads : v # u => made'[v] = made[v],
         who = "store" => made[u] = None /\ made'[u] = i,
         who = "user" => made'[u] = made[u]
  PROVE  /\ dir' \in [Uploads -> [Places -> Inodes \cup {None}]]
         /\ owner' \in [Inodes -> {"free", "store", "user"}]
         /\ \A v \in Uploads : v # u => dir'[v] = dir[v]
         /\ HandsOver(u) /\ Placed'
         /\ dir'[u][p] = i /\ \A q \in Places : q # p => dir'[u][q] = dir[u][q]
         /\ owner'[i] = who /\ \A j \in Inodes : j # i => owner'[j] = owner[j]
         /\ owner[i] = "free"
         /\ \A v \in Uploads, q \in Places : dir[v][q] # i
  <1>0. /\ dir \in [Uploads -> [Places -> Inodes \cup {None}]]
        /\ owner \in [Inodes -> {"free", "store", "user"}]
        /\ owner[i] = "free" /\ dir[u][p] = None
        /\ dir' = [dir EXCEPT ![u][p] = i] /\ owner' = [owner EXCEPT ![i] = who]
    BY DEF FileInv, UploadTypes, LedgerTypeOK, Made
  <1>1. /\ dir' \in [Uploads -> [Places -> Inodes \cup {None}]]
        /\ \A v \in Uploads : v # u => dir'[v] = dir[v]
        /\ dir'[u][p] = i /\ \A q \in Places : q # p => dir'[u][q] = dir[u][q]
    BY <1>0
  <1>2. /\ owner' \in [Inodes -> {"free", "store", "user"}]
        /\ owner'[i] = who /\ \A j \in Inodes : j # i => owner'[j] = owner[j]
    BY <1>0
  <1>3. \A v \in Uploads, q \in Places : dir[v][q] # i
    <2>1. ASSUME NEW v \in Uploads, NEW q \in Places, dir[v][q] = i PROVE FALSE
      <3>1. owner[dir[v][q]] \in {"store", "user"}
        BY <2>1, LedgerAssumption DEF FileInv, Placed
      <3> QED
        BY <1>0, <2>1, <3>1
    <2> QED
      BY <2>1
  <1>4. HandsOver(u)
    BY <1>0, <1>2 DEF HandsOver
  <1>5. ASSUME NEW v \in Uploads, NEW q \in Places
        PROVE  (v = u /\ q = p) \/ dir'[v][q] = dir[v][q]
    BY <1>1
  <1>6. Placed'
    <2>1. ASSUME NEW v \in Uploads, NEW q \in Places, dir'[v][q] # None
          PROVE  /\ owner'[dir'[v][q]] \in {"store", "user"}
                 /\ owner'[dir'[v][q]] = "store" => dir'[v][q] = made'[v]
      <3>1. CASE v = u /\ q = p
        BY <1>1, <1>2, <3>1
      <3>2. CASE dir'[v][q] = dir[v][q]
        <4>1. dir[v][q] \in Inodes /\ dir[v][q] # i
          BY <1>0, <1>3, <2>1, <3>2
        <4>2. /\ owner[dir[v][q]] \in {"store", "user"}
              /\ owner[dir[v][q]] = "store" => dir[v][q] = made[v]
          BY <2>1, <3>2 DEF FileInv, Placed
        <4>3. owner[dir[v][q]] = "store" => made'[v] = made[v]
          <5>1. made[u] = None /\ v = u => owner[dir[v][q]] # "store"
            BY <4>1, <4>2, LedgerAssumption
          <5> QED
            BY <5>1
        <4> QED
          BY <1>2, <3>2, <4>1, <4>2, <4>3
      <3> QED
        BY <1>5, <3>1, <3>2
    <2>2. ASSUME NEW v \in Uploads, NEW w \in Uploads, NEW q \in Places, NEW s \in Places,
                 dir'[v][q] # None, dir'[v][q] = dir'[w][s]
          PROVE  v = w /\ q = s
      <3>1. \A a, b \in Uploads, x, y \in Places :
              dir[a][x] # None /\ dir[a][x] = dir[b][y] => a = b /\ x = y
        BY DEF FileInv, Placed
      <3> QED
        BY <1>1, <1>3, <1>5, <2>2, <3>1
    <2> QED
      BY <2>1, <2>2 DEF Placed
  <1> QED
    BY <1>0, <1>1, <1>2, <1>3, <1>4, <1>6

LEMMA KeepUnmarked ==
  ASSUME FileInv, NEW u \in Uploads, UnlinkUnmarked(u) PROVE FileInv'
  <1>0. /\ up /\ uploadAt[u] = "unmarked" /\ mem[u] = None /\ made[u] = None
        /\ UNCHANGED <<mem, disk>> /\ Rest(u)
    BY Known DEF UnlinkUnmarked, At, Memory
  <1>1. active # u /\ ~Owns(disk[u])
    BY <1>0, Known DEF Shown, Tracks, Owns
  <1>2. CASE dir[u]["part"] = None /\ UNCHANGED <<dir, owner, faults>> /\ Goes(u, "rest")
    <2>1. Steps(u, "rest") /\ active' = active
      BY <1>0, <1>2, Resting DEF Labels
    <2>2. Writes(u, mem[u], disk[u]) /\ Tracks(u, mem[u]) /\ Tracks(u, disk[u])
      BY <1>0, <1>2, Persisting, Known
    <2>3. Memory(u)'
      BY <1>1, <2>1, <2>2, Idle
    <2>4. Shown(u)'
      BY <1>1, <2>1 DEF Shown
    <2> QED
      BY <2>1, <2>2, <2>3, <2>4, Bookkeeping
  <1>3. CASE dir[u]["part"] # None /\ Unlinked(u, "part") /\ Goes(u, "rest") /\ UNCHANGED faults
    <2>1. "part" \in Places /\ made' = made
      BY <1>0 DEF Places, Rest
    <2>2. /\ dir' \in [Uploads -> [Places -> Inodes \cup {None}]]
          /\ owner' \in [Inodes -> {"free", "store", "user"}]
          /\ \A v \in Uploads : v # u => dir'[v] = dir[v]
          /\ HandsOver(u) /\ Placed'
      BY <1>3, <2>1, RemovedPlaces
    <2>3. Handles(u, "rest")
      BY <1>0, <1>3, <2>2 DEF Handles, Goes, Rest, Labels, FileInv, UploadTypes, LedgerTypeOK
    <2>4. /\ uploadAt'[u] = "rest" /\ mem'[u] = None /\ disk'[u] = disk[u] /\ made'[u] = None
          /\ active' # u
      BY <1>0, <1>1, <2>1, <2>3, Handled
    <2>5. ~Mine(u)' /\ ~Away(u)'
      BY <1>0, <2>4, Known DEF Mine, InPlace, Away, Rest
    <2>6. Tracks(u, mem[u])' /\ Tracks(u, disk[u])'
      <3>1. Tracks(u, disk[u])
        BY Known
      <3> QED
        BY <1>0, <1>1, <2>4, <2>5, <3>1 DEF Tracks, Live, Owns, Mine, Lost
    <2>7. Memory(u)'
      BY <2>4, <2>5 DEF Memory, Serving, Renames
    <2>8. Shown(u)'
      BY <2>4 DEF Shown
    <2> QED
      BY <2>2, <2>3, <2>5, <2>6, <2>7, <2>8, Handling
  <1>4. CASE Fault /\ UNCHANGED <<dir, owner, uploadAt>>
    <2>1. faults' \in 0..MaxFaults
      BY <1>4, Known, LedgerAssumption DEF Fault
    <2> QED
      BY <1>0, <1>4, <2>1, OnlyFaults DEF Rest, store
  <1> QED
    BY <1>2, <1>3, <1>4 DEF UnlinkUnmarked

\* A name of a record that has been dropped: whatever file is there.
LEMMA KeepUnlisted ==
  ASSUME FileInv, NEW u \in Uploads, NEW p \in Places, UnlinkListed(u, p) PROVE FileInv'
  <1>0. /\ up /\ uploadAt[u] = "unlisted" /\ mem[u] = None /\ disk[u] = None
        /\ UNCHANGED <<mem, disk, faults>> /\ Rest(u)
    BY Known DEF UnlinkListed, At, Memory
  <1>1. active = u => Away(u) /\ made[u] # None
    BY <1>0, Known DEF Shown
  <1>2. PICK l \in {"rest", "unlisted"} : Goes(u, l)
    BY DEF UnlinkListed
  <1>3. CASE dir[u][p] = None /\ UNCHANGED <<dir, owner>>
    <2>1. Steps(u, l) /\ active' = active
      BY <1>0, <1>2, <1>3, Resting DEF Labels
    <2>2. Writes(u, None, None) /\ Tracks(u, None)
      BY <1>0, Persisting, TracksPlain
    <2>3. Memory(u)'
      <3>1. /\ uploadAt'[u] = l /\ mem'[u] = None /\ disk'[u] = None
        BY <2>1, <2>2, Remembered
      <3> QED
        BY <1>2, <3>1 DEF Memory, Serving, Renames, Owns
    <2>4. Shown(u)'
      BY <1>0, <2>1, Hidden
    <2> QED
      BY <2>1, <2>2, <2>3, <2>4, Bookkeeping
  <1>4. CASE dir[u][p] # None /\ Unlinked(u, p)
    <2>1. made' = made /\ taken' = taken
      BY <1>0 DEF Rest
    <2>2. /\ dir' \in [Uploads -> [Places -> Inodes \cup {None}]]
          /\ owner' \in [Inodes -> {"free", "store", "user"}]
          /\ \A v \in Uploads : v # u => dir'[v] = dir[v]
          /\ HandsOver(u) /\ Placed' /\ (Mine(u)' => Mine(u))
      BY <1>4, <2>1, RemovedPlaces
    <2>3. Handles(u, l)
      BY <1>0, <1>2, <2>2 DEF Handles, Goes, Rest, Labels, FileInv, UploadTypes, LedgerTypeOK
    <2>4. /\ uploadAt'[u] = l /\ mem'[u] = None /\ disk'[u] = None /\ active' = active
          /\ made'[u] = made[u] /\ (Away(u)' <=> Away(u))
      BY <1>0, <2>1, <2>3, Handled DEF Away
    <2>5. Away(u)' => made'[u] # None /\ ~Mine(u)'
      BY <2>2, <2>4, Known
    <2>6. Tracks(u, mem[u])' /\ Tracks(u, disk[u])'
      BY <2>4 DEF Tracks, Live, Owns
    <2>7. Memory(u)'
      BY <1>2, <2>4 DEF Memory, Serving, Renames, Owns
    <2>8. Shown(u)'
      BY <1>1, <2>4 DEF Shown
    <2> QED
      BY <1>2, <2>2, <2>3, <2>5, <2>6, <2>7, <2>8, Handling
  <1> QED
    BY <1>3, <1>4 DEF UnlinkListed

LEMMA KeepCreate ==
  ASSUME FileInv, NEW u \in Uploads, NEW i \in Inodes, Create(u, i) PROVE FileInv'
  <1>0. /\ up /\ uploadAt[u] = "reserved" /\ mem[u] = Begun /\ disk[u] = Begun /\ made[u] = None
        /\ Served /\ Made(u, "part", i, "store") /\ made' = [made EXCEPT ![u] = i]
        /\ UNCHANGED <<mem, disk, moving, move, active, activated, taken, late, up, crashes, users>>
    BY Known DEF Create, At, Memory, Serving
  <1>1. active # u /\ ~Away(u)'
    BY <1>0, Known DEF Shown, Away
  <1>2. made'[u] = i /\ \A v \in Uploads : v # u => made'[v] = made[v]
    BY <1>0 DEF FileInv, UploadTypes
  <1>3. /\ dir' \in [Uploads -> [Places -> Inodes \cup {None}]]
        /\ owner' \in [Inodes -> {"free", "store", "user"}]
        /\ \A v \in Uploads : v # u => dir'[v] = dir[v]
        /\ HandsOver(u) /\ Placed'
        /\ dir'[u]["part"] = i /\ owner'[i] = "store"
        /\ \A q \in Places : q # "part" => dir'[u][q] # i
    <2>1. "part" \in Places
      BY DEF Places
    <2> QED
      BY <1>0, <1>2, <2>1, MadePlaces
  <1>4. InPlace(u, "part")' /\ \A q \in Places : InPlace(u, q)' => q = "part"
    BY <1>2, <1>3, LedgerAssumption DEF InPlace
  <1>5. ASSUME NEW l \in {"created", "cleanup"}, Goes(u, l), faults' \in 0..MaxFaults
        PROVE  FileInv'
    <2>1. Handles(u, l)
      BY <1>0, <1>2, <1>3, <1>5 DEF Handles, Goes, Labels, FileInv, UploadTypes
    <2>2. /\ uploadAt'[u] = l /\ mem'[u] = Begun /\ disk'[u] = Begun /\ active' # u /\ Served'
      BY <1>0, <1>1, <2>1, Handled
    <2>3. Tracks(u, mem[u])' /\ Tracks(u, disk[u])'
      BY <1>4, <2>2, Begins DEF Tracks, Live, Owns, Names
    <2>4. Memory(u)'
      BY <1>4, <1>5, <2>2, Begins DEF Memory, Serving, Renames, Live, Owns
    <2>5. Shown(u)'
      BY <2>2 DEF Shown
    <2> QED
      BY <1>1, <1>3, <1>5, <2>1, <2>3, <2>4, <2>5, Handling
  <1>6. faults' \in 0..MaxFaults
    BY Known, LedgerAssumption DEF Create, Fault
  <1> QED
    BY <1>5, <1>6 DEF Create

\* The rename itself, in place or not.
LEMMA KeepRename ==
  ASSUME FileInv, NEW u \in Uploads, Rename(u) \/ RenameRaises(u) PROVE FileInv'
  <1>0. /\ up /\ uploadAt[u] = "rename" /\ uploadAt[u] \in Renames
        /\ UNCHANGED <<owner, mem, disk>> /\ Rest(u)
        /\ faults' \in 0..MaxFaults
    BY Known, LedgerAssumption DEF Rename, RenameRaises, At, Renames, Fault
  <1>1. /\ Moves(u) /\ Owns(mem[u]) /\ Live(mem[u]) /\ mem[u] \in Record
        /\ mem[u].paths = Pair(u) /\ move[u].from # move[u].to
        /\ move[u].from \in Places /\ move[u].to \in Places
        /\ moving[u] \in {"commit", "promote", "rollback", "quarantine"}
        /\ Serving(u) => mem[u].state = "active" /\ Served
        /\ disk[u] = mem[u]
    BY <1>0, InRename, Known DEF Moves, Memory
  <1>2. PICK l \in {"finish", "putback", "raised"} :
          /\ Goes(u, l) /\ (l = "raised" => moving[u] # "quarantine")
          /\ \/ UNCHANGED dir
             \/ CanMove(u, move[u].from, move[u].to) /\ Moved(u, move[u].from, move[u].to)
    BY DEF Rename, RenameRaises
  <1>3. /\ Tracks(u, mem[u]) /\ mem[u].inode = made[u] /\ made[u] # None /\ ~Lost(u)
        /\ \A p \in Places : InPlace(u, p) => p \in Pair(u)
    <2>1. Tracks(u, mem[u]) /\ mem[u].inode # None
      BY <1>1, Known DEF Owns
    <2>2. mem[u].inode = made[u] /\ made[u] # None
      BY <1>1, <2>1 DEF Tracks, Owns
    <2>3. Pair(u) # {"quarantine"}
      BY <1>1 DEF Pair
    <2>4. ~Lost(u)
      BY <1>1, <2>1, <2>3 DEF Tracks
    <2>5. \A p \in Places : InPlace(u, p) => p \in Pair(u)
      BY <1>1, <2>1 DEF Tracks, Names
    <2> QED
      BY <2>1, <2>2, <2>4, <2>5
  <1>4. active = u => Away(u)
    BY <1>0, Known DEF Shown
  <1>5. /\ dir' \in [Uploads -> [Places -> Inodes \cup {None}]]
        /\ \A v \in Uploads : v # u => dir'[v] = dir[v]
        /\ HandsOver(u) /\ Placed'
        /\ \A q \in Places : InPlace(u, q)' => q \in Pair(u)
        /\ (Mine(u)' <=> Mine(u)) /\ (Away(u)' <=> Away(u)) /\ (Lost(u)' <=> Lost(u))
    <2>1. CASE UNCHANGED dir
      <3>1. made' = made /\ owner' = owner /\ taken' = taken
        BY <1>0 DEF Rest
      <3>2. Placed' /\ HandsOver(u)
        BY <2>1, <3>1 DEF FileInv, Placed, HandsOver
      <3>3. dir' \in [Uploads -> [Places -> Inodes \cup {None}]]
        BY <2>1 DEF FileInv, UploadTypes, LedgerTypeOK
      <3> QED
        BY <1>3, <2>1, <3>1, <3>2, <3>3 DEF InPlace, Mine, Away, Lost
    <2>2. CASE CanMove(u, move[u].from, move[u].to) /\ Moved(u, move[u].from, move[u].to)
      <3>1. made' = made /\ owner' = owner /\ taken' = taken
        BY <1>0 DEF Rest
      <3>2. /\ dir' \in [Uploads -> [Places -> Inodes \cup {None}]]
            /\ \A v \in Uploads : v # u => dir'[v] = dir[v]
            /\ HandsOver(u) /\ Placed'
            /\ (Mine(u)' <=> Mine(u)) /\ (Away(u)' <=> Away(u)) /\ (Lost(u)' <=> Lost(u))
            /\ \A q \in Places : InPlace(u, q)' =>
                 \/ q = move[u].to
                 \/ q \notin {move[u].from, move[u].to} /\ InPlace(u, q)
        BY <1>1, <2>2, <3>1, MovedPlaces
      <3> QED
        BY <1>3, <3>2 DEF Pair
    <2> QED
      BY <1>2, <2>1, <2>2
  <1>6. Handles(u, l)
    BY <1>0, <1>2, <1>5 DEF Handles, Goes, Rest, Labels, FileInv, UploadTypes, LedgerTypeOK
  <1>7. /\ uploadAt'[u] = l /\ mem'[u] = mem[u] /\ disk'[u] = mem[u] /\ made'[u] = made[u]
        /\ moving'[u] = moving[u] /\ move'[u] = move[u] /\ Pair(u)' = Pair(u)
        /\ active' = active /\ (Served => Served')
    BY <1>0, <1>1, <1>6, Handled DEF Rest
  <1>8. Tracks(u, mem[u])' /\ Tracks(u, disk[u])'
    <2>1. \A x : x = mem[u] => /\ x.inode = made'[u] /\ x.inode # None
                               /\ \A p \in Places : InPlace(u, p)' => p \in Names(x)
      BY <1>1, <1>3, <1>5, <1>7 DEF Names
    <2> QED
      BY <1>3, <1>5, <1>7, <2>1 DEF Tracks
  <1>9. Memory(u)'
    <2>1. l \in {"finish", "raised"} => Moves(u)'
      BY <1>0, <1>1, <1>2, <1>7 DEF Moves
    <2>2. Serving(u)' => Serving(u)
      BY <1>0, <1>2, <1>7 DEF Serving, Renames
    <2> QED
      BY <1>1, <1>2, <1>7, <2>1, <2>2 DEF Memory, Renames
  <1>10. Shown(u)'
    BY <1>3, <1>4, <1>5, <1>7 DEF Shown
  <1>11. Away(u)' => made'[u] # None /\ ~Mine(u)'
    BY <1>5, <1>7, Known
  <1> QED
    BY <1>2, <1>5, <1>6, <1>8, <1>9, <1>10, <1>11, Handling

LEMMA KeepPutBack ==
  ASSUME FileInv, NEW u \in Uploads, PutBack(u) PROVE FileInv'
  <1>0. /\ up /\ uploadAt[u] = "putback" /\ Owns(mem[u]) /\ mem[u] \in Record
        /\ (Owns(disk[u]) /\ Mine(u) => Owns(mem[u]))
        /\ Goes(u, "failing") /\ UNCHANGED <<owner, mem, disk>> /\ Rest(u)
        /\ faults' \in 0..MaxFaults
    BY Known, LedgerAssumption DEF PutBack, At, Memory, Renames, Fault, Owns
  <1>1. Live(mem[u])
    BY <1>0 DEF Owns, Live
  <1>2. CASE UNCHANGED dir
    <2>1. Steps(u, "failing") /\ active' = active
      BY <1>0, <1>2, Resting DEF Labels
    <2>2. Writes(u, mem[u], disk[u]) /\ Tracks(u, mem[u]) /\ Tracks(u, disk[u])
      BY <1>0, Known DEF Writes
    <2>3. Memory(u)'
      BY <1>0, <1>1, <2>1, <2>2, Idle
    <2>4. Shown(u)'
      BY <1>0, <2>1, Hidden
    <2> QED
      BY <2>1, <2>2, <2>3, <2>4, Bookkeeping
  <1>3. CASE /\ dir[u]["quarantine"] # mem[u].inode
             /\ CanMove(u, "quarantine", move[u].from) /\ Moved(u, "quarantine", move[u].from)
    <2>1. /\ "quarantine" \in Places /\ move[u].from \in Places /\ made' = made
          /\ mem[u].inode = made[u] /\ made[u] # None /\ taken' = taken
      BY <1>0, Known DEF Places, Move, Rest, Owns, Tracks
    <2>2. /\ dir' \in [Uploads -> [Places -> Inodes \cup {None}]]
          /\ \A v \in Uploads : v # u => dir'[v] = dir[v]
          /\ HandsOver(u) /\ Placed'
          /\ (Mine(u)' <=> Mine(u)) /\ (Away(u)' <=> Away(u)) /\ (Lost(u)' <=> Lost(u))
          /\ dir'[u]["quarantine"] = None
          /\ \A q \in Places : InPlace(u, q)' =>
               \/ q = move[u].from /\ InPlace(u, "quarantine")
               \/ q \notin {"quarantine", move[u].from} /\ InPlace(u, q)
      BY <1>0, <1>3, <2>1, MovedPlaces
    <2>3. \A q \in Places : InPlace(u, q)' => InPlace(u, q)
      BY <1>3, <2>1, <2>2 DEF InPlace
    <2>4. Handles(u, "failing")
      BY <1>0, <2>2 DEF Handles, Goes, Rest, Labels, FileInv, UploadTypes, LedgerTypeOK
    <2>5. /\ uploadAt'[u] = "failing" /\ mem'[u] = mem[u] /\ disk'[u] = disk[u]
          /\ made'[u] = made[u] /\ active' = active
      BY <2>1, <2>4, Handled
    <2>6. Tracks(u, mem[u])' /\ Tracks(u, disk[u])'
      <3>1. Tracks(u, mem[u]) /\ Tracks(u, disk[u])
        BY Known
      <3> QED
        BY <2>1, <2>2, <2>3, <2>5, <3>1 DEF Tracks
    <2>7. Memory(u)'
      BY <1>0, <1>1, <2>2, <2>5 DEF Memory, Serving, Renames
    <2>8. Shown(u)'
      <3>1. active = u => Away(u)
        BY <1>0, Known DEF Shown
      <3> QED
        BY <2>1, <2>2, <2>5, <3>1 DEF Shown
    <2>9. Away(u)' => made'[u] # None /\ ~Mine(u)'
      BY <2>2, <2>5, Known
    <2> QED
      BY <2>2, <2>4, <2>6, <2>7, <2>8, <2>9, Handling
  <1> QED
    BY <1>2, <1>3 DEF PutBack

\* The last look, and the removal of whatever is there after it.
LEMMA KeepRemove ==
  ASSUME FileInv, NEW u \in Uploads, Remove(u) PROVE FileInv'
  <1>0. /\ up /\ uploadAt[u] = "remove" /\ Owns(mem[u]) /\ mem[u] \in Record
        /\ disk[u] = mem[u] /\ mem[u].paths = {"quarantine"}
        /\ UNCHANGED <<dir, owner, mem, disk, faults>>
        /\ late' = late \ {u}
        /\ UNCHANGED <<moving, move, active, activated, made, taken, up, crashes, users>>
    BY Known DEF Remove, At, Memory, Renames, Owns, ledger
  <1>1. Live(mem[u])
    BY <1>0 DEF Owns, Live
  <1>2. PICK l \in {"failing", "unlink"} :
          Goes(u, l) /\ (l = "unlink" => dir[u]["quarantine"] = mem[u].inode)
    BY DEF Remove
  <1>3. Steps(u, l) /\ active' = active
    BY <1>0, <1>2 DEF Steps, Goes, Labels, Names1, FileInv, UploadTypes
  <1>4. Writes(u, mem[u], disk[u]) /\ Tracks(u, mem[u]) /\ Tracks(u, disk[u])
    BY <1>0, Persisting, Known
  <1>5. Memory(u)'
    <2>1. /\ uploadAt'[u] = l /\ mem'[u] = mem[u] /\ disk'[u] = mem[u]
          /\ dir'[u]["quarantine"] = dir[u]["quarantine"]
      BY <1>0, <1>3, <1>4, Remembered
    <2> QED
      BY <1>0, <1>1, <1>2, <2>1 DEF Memory, Serving, Renames
  <1>6. Shown(u)'
    BY <1>0, <1>3, Hidden
  <1> QED
    BY <1>3, <1>4, <1>5, <1>6, Bookkeeping

LEMMA KeepUnlink ==
  ASSUME FileInv, NEW u \in Uploads, Unlink(u) PROVE FileInv'
  <1>0. /\ up /\ uploadAt[u] = "unlink" /\ Owns(mem[u]) /\ mem[u] \in Record
        /\ disk[u] = mem[u] /\ mem[u].paths = {"quarantine"}
        /\ UNCHANGED <<mem, disk>> /\ Rest(u) /\ faults' \in 0..MaxFaults
    BY Known, LedgerAssumption DEF Unlink, At, Memory, Renames, Fault, Owns
  <1>1. Live(mem[u])
    BY <1>0 DEF Owns, Live
  <1>2. PICK l \in {"failing", "reconcile"} :
          /\ Goes(u, l)
          /\ \/ l = "failing" /\ UNCHANGED <<dir, owner>>
             \/ dir[u]["quarantine"] # None /\ Unlinked(u, "quarantine")
    BY DEF Unlink
  <1>3. CASE l = "failing" /\ UNCHANGED <<dir, owner>>
    <2>1. Steps(u, "failing") /\ active' = active
      BY <1>0, <1>2, <1>3, Resting DEF Labels
    <2>2. Writes(u, mem[u], disk[u]) /\ Tracks(u, mem[u]) /\ Tracks(u, disk[u])
      BY <1>0, Known DEF Writes
    <2>3. Memory(u)'
      BY <1>0, <1>1, <2>1, <2>2, Idle
    <2>4. Shown(u)'
      BY <1>0, <2>1, Hidden
    <2> QED
      BY <2>1, <2>2, <2>3, <2>4, Bookkeeping
  <1>4. CASE dir[u]["quarantine"] # None /\ Unlinked(u, "quarantine")
    <2>1. "quarantine" \in Places /\ made' = made /\ taken' = taken
      BY <1>0 DEF Places, Rest
    <2>2. /\ dir' \in [Uploads -> [Places -> Inodes \cup {None}]]
          /\ owner' \in [Inodes -> {"free", "store", "user"}]
          /\ \A v \in Uploads : v # u => dir'[v] = dir[v]
          /\ HandsOver(u) /\ Placed' /\ (Mine(u)' => Mine(u))
          /\ \A q \in Places : InPlace(u, q)' => InPlace(u, q)
      BY <1>4, <2>1, RemovedPlaces
    <2>3. Handles(u, l)
      BY <1>0, <1>2, <2>2 DEF Handles, Goes, Rest, Labels, FileInv, UploadTypes, LedgerTypeOK
    <2>4. /\ uploadAt'[u] = l /\ mem'[u] = mem[u] /\ disk'[u] = mem[u]
          /\ made'[u] = made[u] /\ active' = active /\ (Away(u)' <=> Away(u))
      BY <1>0, <2>1, <2>3, Handled DEF Away
    <2>5. Tracks(u, mem[u])' /\ Tracks(u, disk[u])'
      <3>1. Tracks(u, mem[u])
        BY Known
      <3> QED
        BY <1>0, <2>2, <2>4, <3>1 DEF Tracks
    <2>6. Memory(u)'
      BY <1>0, <1>1, <1>2, <2>4 DEF Memory, Serving, Renames
    <2>7. Shown(u)'
      BY <1>0, <2>4, Known DEF Shown
    <2>8. Away(u)' => made'[u] # None /\ ~Mine(u)'
      BY <2>2, <2>4, Known
    <2> QED
      BY <1>2, <2>2, <2>3, <2>5, <2>6, <2>7, <2>8, Handling
  <1> QED
    BY <1>2, <1>3, <1>4

LEMMA KeepDelete ==
  ASSUME FileInv, NEW u \in Uploads, Delete(u) PROVE FileInv'
  <1>0. /\ up /\ Served /\ uploadAt[u] = "rest" /\ Listed(u) /\ active # u
        /\ Unlinked(u, "final") /\ activated' = activated \ {u}
        /\ UNCHANGED <<mem, disk, faults, uploadAt, moving, move, active, made, taken, late, up, crashes, users>>
    BY DEF Delete, At
  <1>1. /\ InPlace(u, "final") /\ made[u] # None /\ ~Owns(mem[u]) /\ ~Owns(disk[u])
        /\ "final" \in Places
    BY <1>0, ListedFree DEF Places
  <1>2. /\ dir' \in [Uploads -> [Places -> Inodes \cup {None}]]
        /\ owner' \in [Inodes -> {"free", "store", "user"}]
        /\ \A v \in Uploads : v # u => dir'[v] = dir[v]
        /\ HandsOver(u) /\ Placed'
        /\ \A q \in Places : InPlace(u, q)' => InPlace(u, q) /\ q # "final"
    <2>1. dir[u]["final"] # None /\ made' = made
      BY <1>0, <1>1 DEF InPlace
    <2> QED
      BY <1>0, <1>1, <2>1, RemovedPlaces
  <1>3. \A q \in Places : ~InPlace(u, q)'
    <2>1. \A q \in Places : InPlace(u, q) => q = "final"
      BY <1>1 DEF InPlace, FileInv, Placed
    <2> QED
      BY <1>2, <2>1
  <1>4. ~Mine(u)' /\ (Away(u)' => made'[u] # None)
    BY <1>0, <1>1, <1>3 DEF Mine, Away
  <1>5. Handles(u, "rest")
    BY <1>0, <1>2 DEF Handles, Labels, FileInv, UploadTypes, LedgerTypeOK
  <1>6. /\ uploadAt'[u] = "rest" /\ mem'[u] = mem[u] /\ disk'[u] = disk[u]
        /\ made'[u] = made[u] /\ active' # u
    BY <1>0, <1>5, Handled
  <1>7. Tracks(u, mem[u])' /\ Tracks(u, disk[u])'
    <2>1. Tracks(u, mem[u]) /\ Tracks(u, disk[u])
      BY Known
    <2> QED
      BY <1>1, <1>3, <1>6, <2>1 DEF Tracks
  <1>8. Memory(u)'
    BY <1>4, <1>6 DEF Memory, Serving, Renames
  <1>9. Shown(u)'
    BY <1>6 DEF Shown
  <1> QED
    BY <1>2, <1>4, <1>5, <1>7, <1>8, <1>9, Handling

\* What is known of an upload does not depend on other files under its names.
LEMMA UserStep ==
  ASSUME FileInv, NEW u \in Uploads, Handles(u, uploadAt[u]), made' = made,
         Mine(u)' => Mine(u),
         uploadAt[u] = "created" /\ up => Away(u)' \/ InPlace(u, "part")',
         uploadAt[u] = "unlink" /\ up =>
           \/ dir'[u]["quarantine"] = None \/ dir'[u]["quarantine"] = mem[u].inode
           \/ u \in late'
  PROVE  up => Memory(u)'
  <1>1. /\ uploadAt'[u] = uploadAt[u] /\ mem'[u] = mem[u] /\ disk'[u] = disk[u]
        /\ moving'[u] = moving[u] /\ move'[u] = move[u] /\ made'[u] = made[u]
        /\ active' = active /\ (Served => Served')
    BY Handled
  <1>2. (Moves(u)' <=> Moves(u)) /\ (Serving(u)' <=> Serving(u))
    BY <1>1 DEF Moves, Pair, Serving
  <1>3. up => Memory(u)
    BY Known
  <1> QED
    BY <1>1, <1>2, <1>3 DEF Memory

LEMMA KeepUserCreates ==
  ASSUME FileInv, NEW u \in Uploads, NEW p \in Places, NEW i \in Inodes, UserCreates(u, p, i)
  PROVE  FileInv'
  <1>0. /\ Made(u, p, i, "user") /\ users' \in 0..MaxUser
        /\ late' = IF p = "quarantine" /\ uploadAt[u] = "unlink" THEN late \cup {u} ELSE late
        /\ UNCHANGED <<mem, disk, faults, uploadAt, moving, move, active, activated, made, taken,
                       up, crashes>>
    BY StoreAssumption DEF UserCreates, UserMakes, FileInv, UploadTypes
  <1>1. /\ dir' \in [Uploads -> [Places -> Inodes \cup {None}]]
        /\ owner' \in [Inodes -> {"free", "store", "user"}]
        /\ \A v \in Uploads : v # u => dir'[v] = dir[v]
        /\ HandsOver(u) /\ Placed'
        /\ dir'[u][p] = i /\ \A q \in Places : q # p => dir'[u][q] = dir[u][q]
        /\ owner'[i] = "user" /\ \A j \in Inodes : j # i => owner'[j] = owner[j]
        /\ owner[i] = "free" /\ \A q \in Places : dir[u][q] # i
    <2>1. made' = made /\ "user" \in {"store", "user"} /\ Made(u, p, i, "user")
      BY <1>0
    <2> QED
      BY <2>1, MadePlaces
  <1>2. made[u] \in Inodes \cup {None} /\ made'[u] = made[u] /\ "quarantine" \in Places
    BY <1>0, Known DEF Places
  <1>3. \A q \in Places : InPlace(u, q)' <=> InPlace(u, q)
    <2>1. ASSUME NEW q \in Places PROVE InPlace(u, q)' <=> InPlace(u, q)
      <3>1. CASE q = p
        <4>1. dir[u][p] = None
          BY <1>0 DEF Made
        <4> QED
          BY <1>1, <1>2, <3>1, <4>1 DEF InPlace
      <3>2. CASE q # p
        <4>1. dir'[u][q] = dir[u][q] /\ dir[u][q] # i
          BY <1>1, <3>2
        <4> QED
          BY <1>1, <1>2, <4>1 DEF InPlace
      <3> QED
        BY <3>1, <3>2
    <2> QED
      BY <2>1
  <1>4. (Mine(u)' <=> Mine(u)) /\ (Away(u)' <=> Away(u))
    <2>1. Mine(u)' <=> Mine(u)
      BY <1>3 DEF Mine
    <2>2. Away(u)' <=> Away(u)
      BY <1>0 DEF Away
    <2> QED
      BY <2>1, <2>2
  <1>5. Lost(u)' <=> Lost(u)
    BY <1>2, <1>4 DEF Lost
  <1>6. Handles(u, uploadAt[u])
    BY <1>0, <1>1, Known DEF Handles, FileInv, UploadTypes
  <1>7. /\ uploadAt'[u] = uploadAt[u] /\ mem'[u] = mem[u] /\ disk'[u] = disk[u]
        /\ active' = active /\ up' = up
    BY <1>6, Handled
  <1>8. Tracks(u, mem[u])' /\ Tracks(u, disk[u])'
    <2>1. Tracks(u, mem[u]) /\ Tracks(u, disk[u])
      BY Known
    <2> QED
      BY <1>2, <1>3, <1>5, <1>7, <2>1 DEF Tracks
  <1>9. up => Memory(u)'
    <2>1. SUFFICES ASSUME up PROVE Memory(u)'
      OBVIOUS
    <2>2. Memory(u)
      BY <2>1, Known
    <2>3. uploadAt[u] = "created" => Away(u)' \/ InPlace(u, "part")'
      BY <1>3, <1>4, <2>2 DEF Memory, Places
    <2>4. uploadAt[u] = "unlink" =>
            \/ dir'[u]["quarantine"] = None \/ dir'[u]["quarantine"] = mem[u].inode
            \/ u \in late'
      <3>1. CASE p = "quarantine"
        BY <1>0, <3>1
      <3>2. CASE p # "quarantine"
        BY <1>0, <1>1, <1>2, <2>2, <3>2 DEF Memory
      <3> QED
        BY <3>1, <3>2
    <2> QED
      BY <1>0, <1>4, <1>6, <2>1, <2>3, <2>4, UserStep
  <1>10. Shown(u)'
    <2>1. InPlace(u, "final")' <=> InPlace(u, "final")
      BY <1>3 DEF Places
    <2> QED
      BY <1>2, <1>4, <1>7, <2>1, Known DEF Shown
  <1>11. /\ uploadAt[u] = "new" => made'[u] = None /\ disk[u] = None
         /\ Away(u)' => made'[u] # None /\ ~Mine(u)'
    BY <1>2, <1>4, Known
  <1> QED
    BY <1>1, <1>6, <1>8, <1>9, <1>10, <1>11, Handling

LEMMA KeepUserTakes ==
  ASSUME FileInv, NEW u \in Uploads, NEW p \in Places, UserTakes(u, p) PROVE FileInv'
  <1>0. /\ InPlace(u, p) /\ made[u] # None /\ dir[u][p] # None /\ Unlinked(u, p)
        /\ taken' = taken \cup {u}
        /\ UNCHANGED <<mem, disk, faults, uploadAt, moving, move, active, activated, made, late,
                       up, crashes, users>>
    BY DEF UserTakes, InPlace
  <1>1. /\ dir' \in [Uploads -> [Places -> Inodes \cup {None}]]
        /\ owner' \in [Inodes -> {"free", "store", "user"}]
        /\ \A v \in Uploads : v # u => dir'[v] = dir[v]
        /\ HandsOver(u) /\ Placed'
        /\ \A q \in Places : InPlace(u, q)' => InPlace(u, q) /\ q # p
        /\ dir'[u][p] = None /\ \A q \in Places : q # p => dir'[u][q] = dir[u][q]
    BY <1>0, RemovedPlaces
  <1>2. \A q \in Places : ~InPlace(u, q)'
    <2>1. \A q \in Places : InPlace(u, q) => q = p
      BY <1>0 DEF InPlace, FileInv, Placed
    <2> QED
      BY <1>1, <2>1
  <1>3. ~Mine(u)' /\ Away(u)' /\ ~Lost(u)'
    BY <1>0, <1>2 DEF Mine, Away, Lost
  <1>4. Handles(u, uploadAt[u])
    BY <1>0, <1>1, Known DEF Handles, FileInv, UploadTypes
  <1>5. /\ uploadAt'[u] = uploadAt[u] /\ mem'[u] = mem[u] /\ disk'[u] = disk[u]
        /\ made'[u] = made[u] /\ active' = active /\ up' = up
    BY <1>0, <1>4, Handled
  <1>6. Tracks(u, mem[u])' /\ Tracks(u, disk[u])'
    <2>1. Tracks(u, mem[u]) /\ Tracks(u, disk[u])
      BY Known
    <2> QED
      BY <1>2, <1>3, <1>5, <2>1 DEF Tracks
  <1>7. up => Memory(u)'
    <2>1. SUFFICES ASSUME up PROVE Memory(u)'
      OBVIOUS
    <2>2. Memory(u) /\ "quarantine" \in Places
      BY <2>1, Known DEF Places
    <2>3. uploadAt[u] = "unlink" =>
            \/ dir'[u]["quarantine"] = None \/ dir'[u]["quarantine"] = mem[u].inode
            \/ u \in late'
      BY <1>0, <1>1, <2>2 DEF Memory
    <2> QED
      BY <1>0, <1>3, <1>4, <2>1, <2>3, UserStep
  <1>8. Shown(u)'
    BY <1>0, <1>3, <1>5 DEF Shown
  <1>9. uploadAt[u] = "new" => made'[u] = None /\ disk[u] = None
    BY <1>5, Known
  <1> QED
    BY <1>0, <1>1, <1>3, <1>4, <1>5, <1>6, <1>7, <1>8, <1>9, Handling

-----------------------------------------------------------------------------
(* The invariant, and what it shows.                                        *)

LEMMA FileInit == InitUploads => FileInv
  <1> SUFFICES ASSUME InitUploads PROVE FileInv
    OBVIOUS
  <1>0. /\ dir = [u \in Uploads |-> [p \in Places |-> None]]
        /\ owner = [i \in Inodes |-> "free"]
        /\ mem = [u \in Uploads |-> None] /\ disk = [u \in Uploads |-> None] /\ faults = 0
        /\ uploadAt = [u \in Uploads |-> "new"] /\ moving = [u \in Uploads |-> "none"]
        /\ move = [u \in Uploads |-> NoMove] /\ active = None /\ activated = {}
        /\ made = [u \in Uploads |-> None] /\ taken = {} /\ late = {}
        /\ up = TRUE /\ crashes = 0 /\ users = 0
    BY DEF InitUploads, LedgerInit
  <1>1. UploadTypes
    <2>1. LedgerTypeOK
      BY <1>0, LedgerAssumption DEF LedgerTypeOK
    <2>2. NoMove \in Move
      BY DEF NoMove, Move, Places
    <2>3. /\ uploadAt \in [Uploads -> Labels] /\ moving \in [Uploads -> Stages]
          /\ move \in [Uploads -> Move] /\ made \in [Uploads -> Inodes \cup {None}]
      BY <1>0, <2>2 DEF Labels, Stages
    <2>4. crashes \in 0..MaxCrashes /\ users \in 0..MaxUser /\ up \in BOOLEAN
      BY <1>0, StoreAssumption
    <2> QED
      BY <1>0, <2>1, <2>3, <2>4 DEF UploadTypes
  <1>2. Placed
    BY <1>0 DEF Placed
  <1>3. ASSUME NEW u \in Uploads PROVE File(u)
    <2>1. /\ uploadAt[u] = "new" /\ mem[u] = None /\ disk[u] = None /\ made[u] = None
          /\ active # u
      BY <1>0, StoreAssumption
    <2>2. Tracks(u, None)
      BY DEF Tracks, Live, Owns
    <2>3. Memory(u)
      BY <2>1 DEF Memory, Serving, Renames, Owns
    <2> QED
      BY <1>0, <2>1, <2>2, <2>3 DEF File, Shown, Away
  <1> QED
    BY <1>0, <1>1, <1>2, <1>3 DEF FileInv

LEMMA FileUnchanged == FileInv /\ UNCHANGED uploadVars => FileInv'
  <1> SUFFICES ASSUME FileInv, UNCHANGED uploadVars PROVE FileInv'
    OBVIOUS
  <1>1. faults \in 0..MaxFaults
    BY DEF FileInv, UploadTypes, LedgerTypeOK
  <1> QED
    BY <1>1, OnlyFaults DEF uploadVars, ledger

LEMMA FileNext == FileInv /\ NextUploads => FileInv'
  <1> SUFFICES ASSUME FileInv, NextUploads PROVE FileInv'
    OBVIOUS
  <1>1. ASSUME NEW u \in Uploads, Upload(u) PROVE FileInv'
    <2>1. CASE Reserve(u) \/ ReserveRaises(u) \/ UnlinkUnmarked(u)
      BY <2>1, KeepReserve, KeepUnmarked
    <2>2. CASE \E i \in Inodes : Create(u, i)
      BY <2>2, KeepCreate
    <2>3. CASE \/ CreateRaises(u) \/ CreateCollides(u) \/ Bind(u) \/ BindRaises(u)
               \/ CommitStaged(u) \/ Reject(u)
      BY <2>3, KeepCreateFails, KeepBind, KeepBindTaken, KeepBindRaises, KeepCommitStaged,
         KeepGiveUp
    <2>4. CASE PrepareRename(u) \/ Rename(u) \/ RenameRaises(u) \/ FinishRename(u)
      BY <2>4, KeepPrepare, KeepRename, KeepFinish
    <2>5. CASE Harden(u) \/ Undo(u) \/ Raised(u)
      BY <2>5, KeepHarden, KeepUndo, KeepRaised
    <2>6. CASE ApplyFails(u) \/ Promote(u) \/ ActivateUpload(u) \/ ActivationRaises(u)
      BY <2>6, KeepGiveUp, KeepPromote, KeepActivate
    <2>7. CASE RollbackPromotion(u) \/ SettleUpload(u) \/ Forget(u) \/ Discard(u)
      BY <2>7, KeepRollback, KeepSettle, KeepForget, KeepDiscard
    <2> QED
      BY <1>1, <2>1, <2>2, <2>3, <2>4, <2>5, <2>6, <2>7 DEF Upload
  <1>2. ASSUME NEW u \in Uploads, Cleans(u) PROVE FileInv'
    <2>1. CASE Cleanup(u) \/ Reconcile(u) \/ PutBack(u) \/ Remove(u) \/ Unlink(u)
      BY <2>1, KeepCleanup, KeepReconcile, KeepPutBack, KeepRemove, KeepUnlink
    <2>2. CASE Drop(u) \/ Dropped(u) \/ Failing(u) \/ Retry(u)
      BY <2>2, KeepDrop, KeepDropped, KeepFailing, KeepRetry
    <2>3. CASE \E p \in Places : UnlinkListed(u, p)
      BY <2>3, KeepUnlisted
    <2> QED
      BY <1>2, <2>1, <2>2, <2>3 DEF Cleans
  <1>3. ASSUME NEW u \in Uploads, Recover(u) \/ Adopt(u) PROVE FileInv'
    BY <1>3, KeepRecover, KeepAdopt
  <1>4. ASSUME NEW u \in Uploads, User(u) PROVE FileInv'
    <2>1. CASE Switch(u) \/ Delete(u)
      BY <2>1, KeepSwitch, KeepDelete
    <2>2. ASSUME NEW p \in Places, UserTakes(u, p) PROVE FileInv'
      BY <2>2, KeepUserTakes
    <2>3. ASSUME NEW p \in Places, NEW i \in Inodes, UserCreates(u, p, i) PROVE FileInv'
      BY <2>3, KeepUserCreates
    <2> QED
      BY <1>4, <2>1, <2>2, <2>3 DEF User
  <1>5. CASE Deactivate \/ Crash \/ Restart
    BY <1>5, KeepDeactivate, KeepCrash, KeepRestart
  <1> QED
    BY <1>1, <1>2, <1>3, <1>4, <1>5 DEF NextUploads

\* FileInv holds in every state: for any number of uploads, and whatever calls fail,
\* however often the process dies and whatever files users put in its way, each record
\* that owns a file says where the file is.
THEOREM UploadInvariant == SpecUploads => []FileInv
  <1>1. FileInv /\ [NextUploads]_uploadVars => FileInv'
    BY FileNext, FileUnchanged
  <1> QED
    BY <1>1, FileInit, PTL DEF SpecUploads

\* Every variable of the store and of its ledger keeps its type (the records of
\* storage_tx.py have one or two names at all times).
THEOREM UploadStoreTypes == SpecUploads => []UploadTypes
  <1>1. FileInv => UploadTypes
    BY DEF FileInv
  <1> QED
    BY <1>1, UploadInvariant, PTL

\* The upload the configuration names is under its final name, unless a user took the file
\* away: no cleanup, retry or recovery of start-up (cleanup_staged) removes or moves the
\* active background.
THEOREM ActiveUploadIsThere == SpecUploads => []ActiveKept
  <1>1. FileInv => ActiveKept
    <2>1. ASSUME FileInv, active # None PROVE Away(active) \/ InPlace(active, "final")
      <3>1. active \in Uploads
        BY <2>1 DEF FileInv, UploadTypes
      <3> QED
        BY <2>1, <3>1, Known DEF Shown
    <2> QED
      BY <2>1 DEF ActiveKept, Away, InPlace
  <1> QED
    BY <1>1, UploadInvariant, PTL

\* A durable record that still owns its file names the place of the file, before and after
\* every rename, its undo and every write that failed: what _load() reads is enough for
\* the next process to find it.
THEOREM RecordNamesThePlace == SpecUploads => []NamesIt
  <1>1. FileInv => NamesIt
    <2>1. SUFFICES ASSUME FileInv, NEW u \in Uploads, Holds(u), NEW p \in Places,
                          dir[u][p] = disk[u].inode
                   PROVE  p \in disk[u].paths
      BY DEF NamesIt
    <2>2. Owns(disk[u]) /\ disk[u].inode # None /\ owner[disk[u].inode] = "store"
      BY <2>1 DEF Holds, Owns
    <2>3. Tracks(u, disk[u])
      BY <2>1, Known
    <2>4. disk[u].inode = made[u] /\ InPlace(u, p)
      BY <2>1, <2>2, <2>3 DEF Tracks, Owns, InPlace
    <2>5. Live(disk[u])
      BY <2>2 DEF Live, Owns
    <2> QED
      BY <2>2, <2>3, <2>4, <2>5 DEF Tracks, Names
  <1> QED
    BY <1>1, UploadInvariant, PTL

\* The files of inode i under the names of uploads, before a step that hands i over.
LEMMA OnlyHolder ==
  ASSUME FileInv, NEW u \in Uploads, NEW p \in Places, NEW i \in Inodes,
         dir[u][p] # None, Unlinked(u, p), owner[i] = "user", owner'[i] # "user"
  PROVE  dir[u][p] = i
  <1>1. owner' = [owner EXCEPT ![dir[u][p]] = "free"] /\ dir[u][p] \in Inodes
    BY Known DEF Unlinked
  <1>2. owner \in [Inodes -> {"free", "store", "user"}]
    BY DEF FileInv, UploadTypes, LedgerTypeOK
  <1> QED
    BY <1>1, <1>2

\* A step of the store removes a user's file only where the property says: by name where
\* there is no record, or under the private name, where an unlink removes what the last
\* look found (an inode of the number that the record carries) or what came after it.
THEOREM UserFilesStay == SpecUploads => UserDataKept
  <1>1. ASSUME FileInv, [NextUploads]_uploadVars, NEW i \in Inodes, owner[i] = "user"
        PROVE  owner'[i] = "user" \/ Exposed(i)
    <2>0. SUFFICES ASSUME owner'[i] # "user" PROVE Exposed(i)
      OBVIOUS
    <2>1. owner' # owner /\ owner \in [Inodes -> {"free", "store", "user"}] /\ i # None
      BY <1>1, <2>0, LedgerAssumption DEF FileInv, UploadTypes, LedgerTypeOK
    <2>2. ASSUME NEW u \in Uploads, UnlinkUnmarked(u) PROVE Exposed(i)
      <3>1. uploadAt[u] = "unmarked" /\ dir[u]["part"] # None /\ Unlinked(u, "part")
        BY <2>1, <2>2 DEF UnlinkUnmarked, At
      <3>2. dir[u]["part"] = i
        BY <1>1, <2>0, <3>1, OnlyHolder DEF Places
      <3> QED
        BY <3>1, <3>2 DEF Exposed
    <2>3. ASSUME NEW u \in Uploads, NEW p \in Places, UnlinkListed(u, p) PROVE Exposed(i)
      <3>1. uploadAt[u] = "unlisted" /\ dir[u][p] # None /\ Unlinked(u, p)
        BY <2>1, <2>3 DEF UnlinkListed, At
      <3>2. dir[u][p] = i
        BY <1>1, <2>0, <3>1, OnlyHolder
      <3> QED
        BY <3>1, <3>2 DEF Exposed
    <2>4. ASSUME NEW u \in Uploads, Unlink(u) PROVE Exposed(i)
      <3>1. /\ up /\ uploadAt[u] = "unlink" /\ dir[u]["quarantine"] # None
            /\ Unlinked(u, "quarantine")
        BY <2>1, <2>4 DEF Unlink, At
      <3>2. dir[u]["quarantine"] = i
        BY <1>1, <2>0, <3>1, OnlyHolder DEF Places
      <3>3. Owns(mem[u]) /\ (mem[u].inode = i \/ u \in late)
        BY <1>1, <2>1, <3>1, <3>2, Known DEF Memory
      <3>4. mem[u].inode = made[u]
        BY <1>1, <3>3, Known DEF Tracks, Owns
      <3> QED
        BY <3>1, <3>2, <3>3, <3>4 DEF Exposed
    <2>5. ASSUME NEW u \in Uploads, NEW p \in Places, Delete(u) \/ UserTakes(u, p) PROVE FALSE
      <3>1. PICK q \in Places : /\ made[u] # None /\ owner[made[u]] = "store"
                                /\ dir[u][q] = made[u] /\ Unlinked(u, q)
        BY <2>5 DEF Delete, UserTakes, Listed, Places
      <3>2. dir[u][q] = i
        BY <1>1, <2>0, <3>1, OnlyHolder
      <3> QED
        BY <1>1, <3>1, <3>2
    <2>6. ASSUME NEW u \in Uploads, NEW j \in Inodes, Create(u, j) PROVE FALSE
      BY <1>1, <2>0, <2>1, <2>6 DEF Create, Made
    <2>7. ASSUME NEW u \in Uploads, NEW p \in Places, NEW j \in Inodes, UserCreates(u, p, j)
          PROVE  FALSE
      BY <1>1, <2>0, <2>1, <2>7 DEF UserCreates, Made
    <2>8. ASSUME NEW u \in Uploads, Upload(u)
          PROVE  UnlinkUnmarked(u) \/ \E j \in Inodes : Create(u, j)
      <3>1. CASE \/ Reserve(u) \/ ReserveRaises(u) \/ CreateRaises(u) \/ CreateCollides(u)
                 \/ Bind(u) \/ BindRaises(u) \/ CommitStaged(u) \/ Reject(u) \/ PrepareRename(u)
        BY <2>1, <3>1 DEF Reserve, ReserveRaises, CreateRaises, CreateCollides, Bind,
             BindRaises, CommitStaged, Reject, PrepareRename, ledger
      <3>2. CASE \/ Rename(u) \/ RenameRaises(u) \/ FinishRename(u) \/ Harden(u) \/ Undo(u)
                 \/ Raised(u)
        BY <2>1, <3>2 DEF Rename, RenameRaises, FinishRename, Harden, Undo, Raised
      <3>3. CASE \/ ApplyFails(u) \/ Promote(u) \/ ActivateUpload(u) \/ ActivationRaises(u)
                 \/ RollbackPromotion(u) \/ SettleUpload(u) \/ Forget(u) \/ Discard(u)
        BY <2>1, <3>3 DEF ApplyFails, Promote, ActivateUpload, ActivationRaises,
             RollbackPromotion, SettleUpload, Forget, Discard, ledger
      <3> QED
        BY <2>8, <3>1, <3>2, <3>3 DEF Upload
    <2>9. ASSUME NEW u \in Uploads, Cleans(u) \/ Recover(u) \/ Adopt(u)
          PROVE  Unlink(u) \/ \E p \in Places : UnlinkListed(u, p)
      <3>1. CASE Cleanup(u) \/ Reconcile(u) \/ PutBack(u) \/ Remove(u) \/ Drop(u) \/ Dropped(u)
                   \/ Failing(u) \/ Retry(u)
        BY <2>1, <3>1 DEF Cleanup, Reconcile, PutBack, Remove, Drop, Dropped, Failing, Retry,
             ledger
      <3>2. CASE Recover(u) \/ Adopt(u)
        BY <2>1, <3>2 DEF Recover, Adopt, StartFails
      <3> QED
        BY <2>9, <3>1, <3>2 DEF Cleans
    <2>10. ASSUME NEW u \in Uploads, User(u)
           PROVE  \/ Delete(u)
                  \/ \E p \in Places : \/ UserTakes(u, p)
                                       \/ \E j \in Inodes : UserCreates(u, p, j)
      BY <2>1, <2>10 DEF User, Switch, ledger
    <2>11. CASE Deactivate \/ Crash \/ Restart
      BY <2>1, <2>11 DEF Deactivate, Crash, Restart, ledger
    <2>12. CASE UNCHANGED uploadVars
      BY <2>1, <2>12 DEF uploadVars, ledger
    <2>13. ASSUME NEW u \in Uploads,
                  Upload(u) \/ Cleans(u) \/ Recover(u) \/ Adopt(u) \/ User(u)
           PROVE  Exposed(i)
      <3>1. CASE Upload(u)
        BY <2>2, <2>6, <2>8, <3>1
      <3>2. CASE Cleans(u) \/ Recover(u) \/ Adopt(u)
        BY <2>3, <2>4, <2>9, <3>2
      <3>3. CASE User(u)
        <4>1. "part" \in Places
          BY DEF Places
        <4> QED
          BY <2>5, <2>7, <2>10, <3>3, <4>1
      <3> QED
        BY <2>13, <3>1, <3>2, <3>3
    <2> QED
      BY <1>1, <2>11, <2>12, <2>13 DEF NextUploads
  <1>2. FileInv /\ [NextUploads]_uploadVars =>
          [\A i \in Inodes : owner[i] = "user" => owner'[i] = "user" \/ Exposed(i)]_uploadVars
    BY <1>1
  <1> QED
    BY <1>2, UploadInvariant, PTL DEF SpecUploads, UserDataKept

-----------------------------------------------------------------------------
(* A held file keeps its owner.                                             *)

LEMMA HeldKnown ==
  ASSUME FileInv, NEW u \in Uploads, Holds(u)
  PROVE  /\ Owns(disk[u]) /\ disk[u] \in Record /\ disk[u].inode = made[u] /\ made[u] # None
         /\ Mine(u)
         /\ up => /\ Owns(mem[u]) /\ mem[u] \in Record /\ mem[u].inode = made[u] /\ mem[u] # None
                  /\ mem[u].state # "committed"
  <1>1. /\ Owns(disk[u]) /\ disk[u] \in Record /\ owner[disk[u].inode] = "store"
        /\ Tracks(u, disk[u]) /\ Tracks(u, mem[u])
    BY Known DEF Holds, Owns
  <1>2. disk[u].inode = made[u] /\ made[u] # None
    BY <1>1 DEF Tracks, Owns
  <1>3. Mine(u)
    BY <1>1, <1>2 DEF Holds, Mine, InPlace
  <1>4. ASSUME up
        PROVE  /\ Owns(mem[u]) /\ mem[u] \in Record /\ mem[u].inode = made[u] /\ mem[u] # None
               /\ mem[u].state # "committed"
    <2>1. Owns(mem[u]) /\ mem[u] \in Record
      BY <1>1, <1>3, <1>4, Known DEF Memory, Owns
    <2> QED
      BY <1>1, <2>1 DEF Tracks, Owns
  <1> QED
    BY <1>1, <1>2, <1>3, <1>4

\* The records that are written while u is held, and that own what it owns.
LEMMA HeldEdits ==
  ASSUME FileInv, NEW u \in Uploads, Holds(u), up
  PROVE  /\ Owns(Reconciled(u)) /\ Reconciled(u).inode = disk[u].inode
         /\ \A ps \in SUBSET Places : Cardinality(ps) \in {1, 2} =>
              /\ Owns([mem[u] EXCEPT !.paths = ps])
              /\ [mem[u] EXCEPT !.paths = ps].inode = disk[u].inode
         /\ Owns([mem[u] EXCEPT !.state = "cleanup"])
         /\ [mem[u] EXCEPT !.state = "cleanup"].inode = disk[u].inode
  <1>1. /\ Owns(mem[u]) /\ mem[u] \in Record /\ mem[u].inode = disk[u].inode
        /\ mem[u].inode # None /\ mem[u].state # "committed"
    BY HeldKnown
  <1>2. /\ Reconciled(u).inode = mem[u].inode /\ Reconciled(u).state = mem[u].state
        /\ Reconciled(u) \in Record
    BY <1>1, Reconciling
  <1>3. Owns(Reconciled(u))
    BY <1>1, <1>2, NoneIsNoRecord DEF Owns
  <1>4. ASSUME NEW ps \in SUBSET Places, Cardinality(ps) \in {1, 2}
        PROVE  /\ Owns([mem[u] EXCEPT !.paths = ps])
               /\ [mem[u] EXCEPT !.paths = ps].inode = disk[u].inode
    <2>1. PICK r : r = [mem[u] EXCEPT !.paths = ps]
      OBVIOUS
    <2>2. r.inode = mem[u].inode /\ r.state = mem[u].state /\ r \in Record
      BY <1>1, <1>4, <2>1 DEF Record
    <2> QED
      BY <1>1, <2>1, <2>2, NoneIsNoRecord DEF Owns
  <1>5. /\ Owns([mem[u] EXCEPT !.state = "cleanup"])
        /\ [mem[u] EXCEPT !.state = "cleanup"].inode = disk[u].inode
    <2>1. PICK r : r = [mem[u] EXCEPT !.state = "cleanup"]
      OBVIOUS
    <2>2. r.inode = mem[u].inode /\ r.state = "cleanup" /\ r \in Record
      BY <1>1, <2>1 DEF Record
    <2> QED
      BY <1>1, <2>1, <2>2, NoneIsNoRecord DEF Owns
  <1> QED
    BY <1>1, <1>2, <1>3, <1>4, <1>5

Kept(u) == Owns(disk'[u]) /\ disk'[u].inode = disk[u].inode

LEMMA HeldRenamed ==
  ASSUME FileInv, NEW u \in Uploads, Holds(u), up, NEW ps \in SUBSET Places,
         Cardinality(ps) \in {1, 2}, disk'[u] = [mem[u] EXCEPT !.paths = ps]
  PROVE  Kept(u)
  <1>1. PICK r : r = [mem[u] EXCEPT !.paths = ps]
    OBVIOUS
  <1>2. Owns(r) /\ r.inode = disk[u].inode
    BY <1>1, HeldEdits
  <1> QED
    BY <1>1, <1>2 DEF Kept

\* What a write leaves on disk.
LEMMA WhatIsOnDisk ==
  ASSUME FileInv, NEW v \in Uploads
  PROVE  /\ \A r : Saved(v, r) => disk' = [disk EXCEPT ![v] = r]
         /\ \A k, r : SaveFails(v, k, r) => disk' \in {disk, [disk EXCEPT ![v] = r]}
         /\ ReconcileSaves(v) \/ ReconcileFails(v) =>
              disk' \in {disk, [disk EXCEPT ![v] = Reconciled(v)]}
         /\ Forgotten(v) \/ ForgetFails(v) => disk' \in {disk, [disk EXCEPT ![v] = None]}
  BY DEF Saved, SaveFails, ReconcileSaves, ReconcileFails, Forgotten, ForgetFails

\* Every step of v writes at most the record of v.
LEMMA WritesOwn ==
  ASSUME FileInv, NEW v \in Uploads,
         Upload(v) \/ Cleans(v) \/ Recover(v) \/ Adopt(v) \/ User(v)
  PROVE  disk' = disk \/ \E r : disk' = [disk EXCEPT ![v] = r]
  <1>1. CASE \/ Reserve(v) \/ CreateCollides(v) \/ Bind(v)
             \/ PrepareRename(v) \/ FinishRename(v)
    BY <1>1, WhatIsOnDisk DEF Reserve, CreateCollides, Bind, PrepareRename, FinishRename
  <1>2. CASE \/ Undo(v) \/ Raised(v) \/ SettleUpload(v) \/ Forget(v) \/ Discard(v)
    BY <1>2, WhatIsOnDisk DEF Undo, Raised, SettleUpload, Forget, Discard
  <1>3. CASE \/ ReserveRaises(v) \/ UnlinkUnmarked(v) \/ (\E i \in Inodes : Create(v, i))
             \/ CreateRaises(v) \/ BindRaises(v) \/ CommitStaged(v) \/ Reject(v) \/ Rename(v)
             \/ RenameRaises(v) \/ Harden(v)
    BY <1>3 DEF ReserveRaises, UnlinkUnmarked, Create, CreateRaises, BindRaises, CommitStaged,
         Reject, Rename, RenameRaises, Harden, ledger
  <1>4. CASE \/ ApplyFails(v) \/ Promote(v) \/ ActivateUpload(v) \/ ActivationRaises(v)
             \/ RollbackPromotion(v)
    BY <1>4 DEF ApplyFails, Promote, ActivateUpload, ActivationRaises, RollbackPromotion, ledger
  <1>5. CASE Cleanup(v) \/ Reconcile(v) \/ Drop(v) \/ Dropped(v) \/ Failing(v)
    BY <1>5, WhatIsOnDisk DEF Cleanup, Reconcile, Drop, Dropped, Failing
  <1>6. CASE \/ PutBack(v) \/ Remove(v) \/ Unlink(v) \/ Retry(v)
             \/ \E p \in Places : UnlinkListed(v, p)
    BY <1>6 DEF PutBack, Remove, Unlink, Retry, UnlinkListed, ledger
  <1>7. CASE Recover(v) \/ Adopt(v)
    BY <1>7, WhatIsOnDisk DEF Recover, Adopt, StartFails
  <1>8. CASE User(v)
    BY <1>8 DEF User, Switch, Delete, UserCreates, UserTakes, ledger
  <1> QED
    BY <1>1, <1>2, <1>3, <1>4, <1>5, <1>6, <1>7, <1>8 DEF Upload, Cleans

LEMMA HeldSteps ==
  ASSUME FileInv, NEW u \in Uploads, Holds(u), disk'[u] # disk[u],
         Upload(u) \/ Cleans(u) \/ Recover(u) \/ Adopt(u) \/ User(u)
  PROVE  Kept(u) \/ active = u \/ u \in activated'
  <1>0. /\ disk \in [Uploads -> Record \cup {None}] /\ disk' # disk
        /\ \A r : disk' \in {disk, [disk EXCEPT ![u] = r]} => disk'[u] = r
    BY Known
  <1>1. ASSUME Reserve(u) \/ CreateCollides(u) \/ Bind(u) \/ Forget(u) \/ Dropped(u)
        PROVE  FALSE
    <2>1. up /\ (mem[u] = None \/ mem[u] = Begun \/ mem[u].state = "committed")
      BY <1>1, Known DEF Reserve, CreateCollides, Bind, Forget, Dropped, At, Memory
    <2>2. Owns(mem[u])
      BY <2>1, HeldKnown
    <2> QED
      BY <2>1, <2>2, Begins DEF Owns
  <1>2. ASSUME Drop(u) PROVE FALSE
    <2>1. up /\ (mem[u].inode = None \/ ~Mine(u))
      BY <1>2, Known DEF Drop, At, Memory
    <2> QED
      BY <2>1, HeldKnown
  <1>3. ASSUME up, disk'[u] = Reconciled(u) PROVE Kept(u)
    BY <1>3, HeldEdits DEF Kept
  <1>4. CASE Undo(u) \/ Raised(u) \/ Discard(u) \/ Reconcile(u) \/ Failing(u)
    <2>1. up /\ disk' \in {disk, [disk EXCEPT ![u] = Reconciled(u)]}
      BY <1>0, <1>4, WhatIsOnDisk DEF Undo, Raised, Discard, Reconcile, Failing, At
    <2> QED
      BY <1>0, <1>3, <2>1
  <1>5. CASE Recover(u)
    <2>1. up /\ disk' \in {disk, [disk EXCEPT ![u] = Reconciled(u)]}
      BY <1>0, <1>5, WhatIsOnDisk DEF Recover, At, StartFails
    <2> QED
      BY <1>0, <1>3, <2>1
  <1>6. CASE Cleanup(u)
    <2>1. up /\ disk' \in {disk, [disk EXCEPT ![u] = [mem[u] EXCEPT !.state = "cleanup"]]}
      BY <1>6, WhatIsOnDisk DEF Cleanup, At
    <2>2. disk'[u] = [mem[u] EXCEPT !.state = "cleanup"]
      BY <1>0, <2>1
    <2> QED
      BY <2>1, <2>2, HeldEdits DEF Kept
  <1>7. CASE PrepareRename(u)
    <2>1. /\ up /\ uploadAt[u] \in Renames
          /\ disk' \in {disk, [disk EXCEPT ![u] = [mem[u] EXCEPT !.paths = Pair(u)]]}
      BY <1>7, WhatIsOnDisk DEF PrepareRename, At, Pair, Renames
    <2>2. Pair(u) \in SUBSET Places /\ Cardinality(Pair(u)) \in {1, 2}
      BY <2>1, InRename
    <2>3. disk'[u] = [mem[u] EXCEPT !.paths = Pair(u)]
      BY <1>0, <2>1
    <2> QED
      BY <2>1, <2>2, <2>3, HeldRenamed
  <1>8. CASE FinishRename(u)
    <2>0. PICK ps : ps = {move[u].to}
      OBVIOUS
    <2>1. /\ up /\ uploadAt[u] \in Renames
          /\ disk' \in {disk, [disk EXCEPT ![u] = [mem[u] EXCEPT !.paths = ps]]}
      BY <1>0, <1>8, <2>0, WhatIsOnDisk DEF FinishRename, At, Renames
    <2>2. ps \in SUBSET Places /\ Cardinality(ps) \in {1, 2}
      BY <2>0, <2>1, InRename, SmallSets
    <2>3. disk'[u] = [mem[u] EXCEPT !.paths = ps]
      BY <1>0, <2>1
    <2> QED
      BY <2>1, <2>2, <2>3, HeldRenamed
  <1>9. CASE SettleUpload(u)
    BY <1>9 DEF SettleUpload
  <1>10. CASE Adopt(u)
    <2>1. up /\ uploadAt[u] = "adopt"
      BY <1>10 DEF Adopt, At
    <2>2. mem[u].state # "committed"
      BY <2>1, HeldKnown
    <2> QED
      BY <2>1, <2>2, Known DEF Memory
  <1>11. ~(\/ ReserveRaises(u) \/ UnlinkUnmarked(u) \/ (\E i \in Inodes : Create(u, i))
           \/ CreateRaises(u) \/ BindRaises(u) \/ CommitStaged(u) \/ Reject(u) \/ Rename(u)
           \/ RenameRaises(u) \/ Harden(u))
    BY <1>0 DEF ReserveRaises, UnlinkUnmarked, Create, CreateRaises, BindRaises, CommitStaged,
         Reject, Rename, RenameRaises, Harden, ledger
  <1>12. ~(\/ ApplyFails(u) \/ Promote(u) \/ ActivateUpload(u) \/ ActivationRaises(u)
           \/ RollbackPromotion(u) \/ PutBack(u) \/ Remove(u) \/ Unlink(u) \/ Retry(u)
           \/ \E p \in Places : UnlinkListed(u, p))
    BY <1>0 DEF ApplyFails, Promote, ActivateUpload, ActivationRaises, RollbackPromotion,
         PutBack, Remove, Unlink, Retry, UnlinkListed, ledger
  <1>13. ~User(u)
    BY <1>0 DEF User, Switch, Delete, UserCreates, UserTakes, ledger
  <1> QED
    BY <1>1, <1>2, <1>4, <1>5, <1>6, <1>7, <1>8, <1>9, <1>10, <1>11, <1>12, <1>13
       DEF Upload, Cleans

\* The durable record of a file of the store stops owning it only when the upload is the
\* active one, or its activation is settled, or the file is gone: no failed write, retry
\* or death of the process leaves a file of a failed upload without an owner.
THEOREM FileKeepsItsOwner == SpecUploads => NeverForgotten
  <1>1. ASSUME FileInv, [NextUploads]_uploadVars, NEW u \in Uploads, Holds(u)
        PROVE  \/ Owns(disk'[u]) /\ disk'[u].inode = disk[u].inode
               \/ owner'[disk[u].inode] # "store"
               \/ active = u \/ u \in activated'
    <2>1. CASE disk'[u] = disk[u]
      BY <1>1, <2>1, HeldKnown
    <2>2. CASE disk'[u] # disk[u]
      <3>1. disk' # disk
        BY <2>2
      <3>2. ~(Deactivate \/ Crash \/ Restart \/ UNCHANGED uploadVars)
        BY <3>1 DEF Deactivate, Crash, Restart, uploadVars, ledger
      <3>3. PICK v \in Uploads : Upload(v) \/ Cleans(v) \/ Recover(v) \/ Adopt(v) \/ User(v)
        BY <1>1, <3>2 DEF NextUploads
      <3>4. v = u
        <4>1. \E r : disk' = [disk EXCEPT ![v] = r]
          BY <1>1, <3>1, <3>3, WritesOwn
        <4>2. disk \in [Uploads -> Record \cup {None}]
          BY <1>1, Known
        <4> QED
          BY <2>2, <4>1, <4>2
      <3> QED
        BY <1>1, <2>2, <3>3, <3>4, HeldSteps DEF Kept
    <2> QED
      BY <2>1, <2>2
  <1>2. FileInv /\ [NextUploads]_uploadVars =>
          [\A u \in Uploads : Holds(u) =>
             \/ Owns(disk'[u]) /\ disk'[u].inode = disk[u].inode
             \/ owner'[disk[u].inode] # "store"
             \/ active = u \/ u \in activated']_uploadVars
    BY <1>1
  <1> QED
    BY <1>2, UploadInvariant, PTL DEF SpecUploads, NeverForgotten

=============================================================================
