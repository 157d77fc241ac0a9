--------------------------- MODULE GitSyncProofs ----------------------------
(***************************************************************************)
(* Proofs about GitSync, for any branches and bounds: its types, that the  *)
(* commit the graph records can be fetched from the remote, and that it is *)
(* only replaced by one that contains it.                                  *)
(***************************************************************************)
EXTENDS GitSync, TLAPS

Operation == [at : Stage, task : {"new", "sync", "merge"},
              branch : Branches, new : SUBSET Branch,
              updated : SUBSET Branches, handled : SUBSET Message]

Commits == 0 .. Len(history)

(* The ancestors of a commit are commits, the commit itself is one of them,  *)
(* and theirs are among them.                                                *)
Ancestry ==
  \A c \in 1 .. Len(history) :
    /\ c \in history[c] /\ history[c] \subseteq 1 .. Len(history)
    /\ \A d \in history[c] : history[d] \subseteq history[c]

(* A clone has a head of main, and an operation past its first step a clone. *)
Cloned ==
  /\ cloned => local[Main] # NoCommit
  /\ op.at \notin {"idle", "clone"} => cloned

(* What an operation has found out before it comes to a step: a branch that  *)
(* it creates was fetched, and a head that it records, but for that of a     *)
(* merge, is on the remote.                                                  *)
Staged ==
  /\ op.new \subseteq known
  /\ op.at = "clone" => op.new = {}
  /\ op.at \in {"graph", "git"} => op.branch \in known
  /\ op.task = "merge" => op.at \in {"commit", "push"} /\ op.branch = Main
  /\ op.at = "commit" => local[op.branch] # NoCommit
  /\ op.at = "commit" /\ op.task # "merge" => local[op.branch] \in Past(remote[op.branch])

(* Nothing has gone wrong but that a merge let a branch see main's commit.   *)
Smooth == incidents \subseteq {"overtaken"}

(* Until then a branch without a value of its own has seen main's commit...  *)
Followed ==
  Smooth =>
    \A b \in graph_branches \ own :
      b # Main => commit[b] = NoCommit \/ commit[b] \in Past(commit[Main])

(* ...the commit of a branch is on the branch's remote, unless it is about   *)
(* to be pushed or was taken over from main...                               *)
Recorded ==
  Smooth =>
    \A b \in graph_branches :
      \/ commit[b] = NoCommit
      \/ commit[b] \in Past(remote[b])
      \/ b # Main /\ commit[b] \in Past(commit[Main])
      \/ b = Main /\ op.at = "push" /\ commit[b] = local[b]

(* ...and the head that is about to be recorded contains it. *)
Recording ==
  Smooth /\ op.at = "commit" /\ op.branch \in graph_branches =>
    \/ commit[op.branch] = NoCommit
    \/ commit[op.branch] \in Past(local[op.branch])
    \/ op.branch # Main /\ commit[op.branch] \in Past(commit[Main])

IInv == TypeOK /\ Ancestry /\ Cloned /\ Staged /\ GraphCommitPublished /\ Recorded /\ Recording
        /\ Followed

-----------------------------------------------------------------------------
(* Types.                                                                    *)

(* A step of an operation other than the idle one. *)
LEMMA Running ==
  ASSUME TypeOK, op.at # "idle"
  PROVE  op \in Operation
  BY DEF TypeOK, Idle, Operation

LEMMA MainIsBranch == Main \in Branches /\ Branch \subseteq Branches /\ Valid \subseteq Branches
  BY NamesAssumption DEF Branches

LEMMA InitType == Init => TypeOK
  <1> SUFFICES ASSUME Init PROVE TypeOK
    OBVIOUS
  <1>1. MaxCommits \in Nat /\ 1 \in Commit /\ MaxTries \in Nat /\ MaxRequests \in Nat /\ MaxFailures \in Nat
    BY BoundsAssumption DEF Commit
  <1>2. history \in Seq(SUBSET Commit) /\ Len(history) = 1
    BY <1>1 DEF Init
  <1>3. NoHeads \in [Branches -> 0 .. 1] /\ remote \in [Branches -> 0 .. 1] /\ remote[Main] = 1
    BY CommitAssumption, MainIsBranch DEF Init, NoHeads
  <1>4. messages \subseteq Message
    BY <1>1 DEF Init, Message
  <1>5. 1 .. Len(history) = 1 .. 1 /\ 0 .. Len(history) = 0 .. 1 /\ Len(history) <= MaxCommits
    BY <1>1, <1>2 DEF Commit
  <1>6. /\ merges = {} /\ graph_branches = {Main} /\ commit = NoHeads /\ local = NoHeads /\ own = {}
        /\ imported \in [Branches -> SUBSET Commit] /\ cloned = FALSE /\ known = {} /\ op = Idle
        /\ requests \in 0 .. MaxRequests /\ failures \in 0 .. MaxFailures /\ incidents = {}
    BY <1>1 DEF Init
  <1>7. remote[Main] # NoCommit
    BY <1>3, CommitAssumption
  <1> QED
    BY <1>2, <1>3, <1>4, <1>5, <1>6, <1>7, MainIsBranch DEF TypeOK

(* Messages that are sent again. *)
LEMMA RetriedType ==
  ASSUME NEW ms \in SUBSET Message
  PROVE  Retried(ms) \subseteq Message
  <1> SUFFICES ASSUME NEW m \in ms, m.tries < MaxTries
               PROVE  [m EXCEPT !.tries = m.tries + 1] \in Message
    BY DEF Retried
  <1>1. m \in Message /\ m.tries + 1 \in 0 .. MaxTries
    BY BoundsAssumption DEF Message
  <1> QED
    BY <1>1 DEF Message

LEMMA AbortType ==
  ASSUME TypeOK, op.at # "idle", Abort
  PROVE  op' = Idle /\ messages' \subseteq Message
  <1>1. op.handled \in SUBSET Message
    BY Running DEF Operation
  <1> QED
    BY <1>1, RetriedType DEF Abort, TypeOK

(* One more commit. *)
LEMMA AppendType ==
  ASSUME TypeOK, NEW past \in SUBSET Commit, Len(history) < MaxCommits,
         history' = Append(history, past)
  PROVE  /\ history' \in Seq(SUBSET Commit) /\ Len(history') = Len(history) + 1
         /\ Len(history') <= MaxCommits
         /\ history'[Len(history) + 1] = past
         /\ \A c \in 1 .. Len(history) : history'[c] = history[c]
         /\ Len(history) \in Nat
         /\ Commits \subseteq Commits'
  BY BoundsAssumption DEF TypeOK, Commits

LEMMA PastType ==
  ASSUME TypeOK
  PROVE  /\ \A c \in Commits : Past(c) \subseteq Commit
         /\ \A c \in Commits \ {0} : Past(c) = history[c]
         /\ Past(0) = {}
         /\ Len(history) \in Nat
         /\ \A b \in Branches : remote[b] \in Commits /\ local[b] \in Commits /\ commit[b] \in Commits
         /\ merges \subseteq Commits /\ remote[Main] \in Commits \ {0}
  BY CommitAssumption, MainIsBranch DEF TypeOK, Past, Commits

LEMMA PushedType ==
  ASSUME TypeOK, NEW h \in Commits, NEW b \in Branches
  PROVE  Pushed(h, b) \in [Branches -> Commits] /\ Pushed(h, b)[Main] # NoCommit
  <1>1. remote \in [Branches -> Commits] /\ remote[Main] # NoCommit
    BY DEF TypeOK, Commits
  <1>2. Accepted(h, Main) => h # NoCommit
    BY <1>1 DEF Accepted, Past
  <1> QED
    BY <1>1, <1>2, MainIsBranch DEF Pushed

(* The next state has its types if each part that changed has. *)
LEMMA TypeKept ==
  ASSUME TypeOK, history' = history, merges' = merges,
         remote' \in [Branches -> Commits], remote'[Main] # NoCommit,
         Main \in graph_branches', graph_branches' \subseteq Branches,
         commit' \in [Branches -> Commits], own' \subseteq Branches, imported' \in [Branches -> SUBSET Commit],
         cloned' \in BOOLEAN, local' \in [Branches -> Commits], known' \subseteq Branches,
         op' = Idle \/ op' \in Operation, messages' \subseteq Message,
         requests' \in 0 .. MaxRequests, failures' \in 0 .. MaxFailures, incidents' \subseteq Incident
  PROVE  TypeOK'
  BY DEF TypeOK, Commits, Operation

(* The types of the parts of the state. *)
LEMMA TypeParts ==
  ASSUME TypeOK
  PROVE  /\ remote \in [Branches -> Commits] /\ remote[Main] # NoCommit
         /\ Main \in graph_branches /\ graph_branches \subseteq Branches
         /\ commit \in [Branches -> Commits] /\ own \subseteq Branches /\ imported \in [Branches -> SUBSET Commit]
         /\ cloned \in BOOLEAN /\ local \in [Branches -> Commits] /\ known \subseteq Branches
         /\ op = Idle \/ op \in Operation
         /\ messages \subseteq Message
         /\ requests \in 0 .. MaxRequests /\ failures \in 0 .. MaxFailures /\ incidents \subseteq Incident
         /\ NoHeads \in [Branches -> Commits] /\ NoCommit \in Commits
         /\ get_branches_from_remote \subseteq Branches
  <1>1. 0 \in Commits
    BY DEF Commits, TypeOK
  <1> QED
    BY <1>1, CommitAssumption DEF TypeOK, Commits, Operation, NoHeads, get_branches_from_remote

LEMMA InGraphType ==
  ASSUME TypeOK, NEW b \in Branch, InGraph(b)
  PROVE  /\ Main \in graph_branches' /\ graph_branches' \subseteq Branches
         /\ commit' \in [Branches -> Commits] /\ imported' \in [Branches -> SUBSET Commit]
         /\ own' \subseteq Branches /\ messages' \subseteq Message
  <1>1. [type |-> "create", branch |-> b, tries |-> 0] \in Message
    BY BoundsAssumption DEF Message
  <1> QED
    BY <1>1, TypeParts, MainIsBranch DEF InGraph

LEMMA HeadType ==
  ASSUME TypeOK, NEW b \in Branches
  PROVE  created_head(b) \in Commits /\ \A h \in Commits : Pulled(h, b) \in Commits
  BY TypeParts, MainIsBranch DEF created_head, Pulled

(* A new commit with the ancestors of p and q. *)
LEMMA Grown ==
  ASSUME TypeOK, Ancestry, NEW p \in Commits, NEW q \in Commits, Len(history) < MaxCommits,
         history' = Append(history, Past(p) \cup Past(q) \cup {Len(history) + 1})
  PROVE  /\ Ancestry'
         /\ history' \in Seq(SUBSET Commit) /\ Len(history') = Len(history) + 1
         /\ Len(history') <= MaxCommits /\ Len(history) \in Nat
         /\ history'[Len(history) + 1] = Past(p) \cup Past(q) \cup {Len(history) + 1}
         /\ \A c \in 1 .. Len(history) : history'[c] = history[c]
         /\ Commits \subseteq Commits' /\ Len(history) + 1 \in Commits'
  <1> DEFINE c == Len(history) + 1
             past == Past(p) \cup Past(q) \cup {c}
             N == 1 .. Len(history)
  <1>1. Len(history) \in Nat /\ MaxCommits \in Nat /\ c \in Commit
    BY PastType, BoundsAssumption DEF Commit
  <1>2. \A r \in Commits : Past(r) \subseteq N /\ \A d \in Past(r) : history[d] \subseteq Past(r)
    BY <1>1, CommitAssumption DEF Ancestry, Past, Commits
  <1>3. past \in SUBSET Commit
    BY <1>1, <1>2 DEF Commit
  <1>4. /\ history' \in Seq(SUBSET Commit) /\ Len(history') = c /\ Len(history') <= MaxCommits
        /\ history'[c] = past
        /\ \A d \in N : history'[d] = history[d]
        /\ Commits \subseteq Commits'
    <2> HIDE DEF past
    <2> QED
      BY <1>3, AppendType DEF past
  <1>5. 1 .. Len(history') = N \cup {c} /\ c \notin N
    BY <1>1, <1>4
  <1>6. ASSUME NEW d \in N
        PROVE  /\ d \in history'[d] /\ history'[d] \subseteq N
               /\ \A e \in history'[d] : history'[e] \subseteq history'[d]
    BY <1>4 DEF Ancestry
  <1>7. /\ c \in history'[c] /\ history'[c] \subseteq N \cup {c}
        /\ \A e \in history'[c] : history'[e] \subseteq history'[c]
    <2>1. c \in past /\ past \subseteq N \cup {c}
      BY <1>2
    <2>2. \A e \in past \ {c} : e \in N /\ history[e] \subseteq past
      BY <1>2
    <2> HIDE DEF past
    <2> QED
      BY <2>1, <2>2, <1>4
  <1>8. Ancestry'
    BY <1>5, <1>6, <1>7 DEF Ancestry
  <1> QED
    BY <1>1, <1>4, <1>8 DEF Commits

(* Somebody pushes to the remote. *)
LEMMA RemoteCommitType ==
  ASSUME TypeOK, Ancestry, NEW b \in Branches, RemoteCommit(b)
  PROVE  /\ TypeOK' /\ Ancestry'
         /\ \A c \in 1 .. Len(history) : history'[c] = history[c]
         /\ remote'[b] # NoCommit /\ Past(remote[b]) \subseteq history'[remote'[b]]
         /\ \A d \in Branches \ {b} : remote'[d] = remote[d]
  <1> DEFINE c == Len(history) + 1
  <1>1. PICK parent \in IF remote[b] # NoCommit THEN {remote[b]} ELSE Past(remote[Main]) :
          history' = Append(history, Past(parent) \cup {c}) /\ remote' = [remote EXCEPT ![b] = c]
    BY DEF RemoteCommit
  <1>2. /\ Len(history) < MaxCommits /\ Len(history) \in Nat
        /\ UNCHANGED <<merges, graph_branches, commit, own, imported, cloned, local,
                       known, op, messages, failures, incidents, requests>>
    BY PastType DEF RemoteCommit
  <1>3. parent \in Commits
    BY <1>1, <1>2, PastType DEF Ancestry, Commits
  <1>4. Past(parent) \cup {c} = Past(parent) \cup Past(parent) \cup {c}
    OBVIOUS
  <1>5. /\ Ancestry' /\ history' \in Seq(SUBSET Commit) /\ Len(history') = c /\ Len(history') <= MaxCommits
        /\ history'[c] = Past(parent) \cup {c} /\ Commits \subseteq Commits' /\ c \in Commits'
        /\ \A d \in 1 .. Len(history) : history'[d] = history[d]
    <2>1. history' = Append(history, Past(parent) \cup Past(parent) \cup {Len(history) + 1})
      BY <1>1, <1>4
    <2> QED
      BY <1>2, <1>3, <1>4, <2>1, Grown
  <1> HIDE DEF c
  <1>6. /\ remote' \in [Branches -> Commits'] /\ c # NoCommit /\ remote'[Main] # NoCommit
        /\ remote'[b] = c /\ \A d \in Branches \ {b} : remote'[d] = remote[d]
    <2>1. c # NoCommit
      BY <1>2, CommitAssumption DEF c
    <2> QED
      BY <1>1, <1>5, <2>1, TypeParts
  <1>7. commit' \in [Branches -> Commits'] /\ local' \in [Branches -> Commits'] /\ merges' \subseteq 1 .. Len(history')
    <2>1. merges \subseteq 1 .. Len(history) /\ 1 .. Len(history) \subseteq 1 .. Len(history')
      BY <1>2, <1>5 DEF TypeOK, c
    <2> QED
      BY <1>2, <1>5, <2>1, TypeParts
  <1>8. TypeOK'
    BY <1>2, <1>5, <1>6, <1>7, TypeParts DEF TypeOK, Commits, Operation
  <1>9. Past(remote[b]) \subseteq history'[c]
    BY <1>1, <1>5 DEF Past
  <1> QED
    BY <1>5, <1>6, <1>8, <1>9

(* What a merge of the files does: nothing, or main has a new head, which    *)
(* contains the commit of the graph unless that is an incident.              *)
MergedFiles ==
  \/ UNCHANGED <<history, local, op, incidents>>
  \/ /\ op' = [Idle EXCEPT !.at = "commit", !.task = "merge", !.handled = op'.handled]
     /\ local'[Main] # NoCommit /\ \A b \in Branch : local'[b] = local[b]
     /\ incidents \subseteq incidents'
     /\ Smooth' => commit[Main] \in history'[local'[Main]]

LEMMA GitRepositoryMergeType ==
  ASSUME TypeOK, Ancestry, GitRepositoryMerge
  PROVE  /\ TypeOK' /\ Ancestry' /\ MergedFiles
         /\ \A c \in 1 .. Len(history) : history'[c] = history[c]
  <1>1. PICK m \in messages :
          /\ m.type = "merge"
          /\ LET s == local[m.branch]
                 h == IF FastForward(s) THEN s ELSE Len(history) + 1
                 past == Past(local[Main]) \cup Past(s) \cup {h} IN
             /\ s # NoCommit
             /\ \/ /\ UpToDate(s)
                   /\ messages' = messages \ {m}
                   /\ UNCHANGED <<history, merges, local, op, incidents>>
                \/ /\ ~ UpToDate(s)
                   /\ h <= MaxCommits
                   /\ history' = IF FastForward(s) THEN history ELSE Append(history, past)
                   /\ merges' = IF FastForward(s) THEN merges ELSE merges \cup {h}
                   /\ local' = [local EXCEPT ![Main] = h]
                   /\ op' = [Idle EXCEPT !.at = "commit", !.task = "merge",
                                         !.handled = {m}]
                   /\ messages' = messages \ {m}
                   /\ incidents' = incidents
                         \cup (IF commit[Main] \in past THEN {} ELSE {"stale"})
                         \cup (IF imported[Main] \ merges = past \ (merges \cup
                                      (IF FastForward(s) THEN {} ELSE {h}))
                               THEN {} ELSE {"late"})
    BY DEF GitRepositoryMerge
  <1>2. UNCHANGED <<remote, graph_branches, commit, own, imported, cloned, known, failures, requests>>
    BY DEF GitRepositoryMerge
  <1> DEFINE s == local[m.branch]
             n == Len(history) + 1
             h == IF FastForward(s) THEN s ELSE n
             past == Past(local[Main]) \cup Past(s) \cup {h}
  <1>3. m \in Message /\ m.branch \in Branch /\ s \in Commits \ {NoCommit} /\ Len(history) \in Nat
        /\ local[Main] \in Commits
    BY <1>1, PastType, MainIsBranch DEF TypeOK, Message
  <1>4. CASE UNCHANGED <<history, merges, local, op, incidents>> /\ messages' = messages \ {m}
    <2>1. TypeOK'
      BY <1>2, <1>4, TypeParts, TypeKept
    <2> QED
      BY <1>4, <2>1 DEF Ancestry, MergedFiles
  <1>5. CASE messages' # messages \ {m} \/ ~ UNCHANGED <<history, merges, local, op, incidents>>
    <2>1. /\ h <= MaxCommits
          /\ history' = IF FastForward(s) THEN history ELSE Append(history, past)
          /\ merges' = IF FastForward(s) THEN merges ELSE merges \cup {h}
          /\ local' = [local EXCEPT ![Main] = h]
          /\ op' = [Idle EXCEPT !.at = "commit", !.task = "merge", !.handled = {m}]
          /\ messages' = messages \ {m}
          /\ incidents' = incidents
                \cup (IF commit[Main] \in past THEN {} ELSE {"stale"})
                \cup (IF imported[Main] \ merges = past \ (merges \cup
                             (IF FastForward(s) THEN {} ELSE {h}))
                      THEN {} ELSE {"late"})
      BY <1>1, <1>5
    <2>2. incidents \subseteq incidents' /\ incidents' \subseteq Incident
          /\ (Smooth' => commit[Main] \in past)
      <3>1. \E x, y : /\ x \in {{}, {"stale"}} /\ y \in {{}, {"late"}}
                      /\ incidents' = incidents \cup x \cup y
                      /\ (x = {} => commit[Main] \in past)
        <4> HIDE DEF past, h, s
        <4> QED
          BY <2>1
      <3> HIDE DEF past
      <3> QED
        BY <3>1, TypeParts DEF Incident, Smooth
    <2>3. /\ Ancestry' /\ history' \in Seq(SUBSET Commit) /\ Len(history') <= MaxCommits
          /\ Len(history') \in Nat /\ Len(history) <= Len(history')
          /\ \A c \in 1 .. Len(history) : history'[c] = history[c]
          /\ Commits \subseteq Commits' /\ h \in Commits' \ {0} /\ history'[h] = past
          /\ merges' \subseteq 1 .. Len(history')
      <3>1. CASE FastForward(s)
        <4>1. h = s /\ history' = history /\ merges' = merges
          BY <2>1, <3>1
        <4>2. past = history[s]
          <5>1. Past(s) = history[s] /\ s \in history[s] /\ local[Main] \in history[s]
                /\ \A d \in history[s] : history[d] \subseteq history[s]
            BY <1>3, <3>1, CommitAssumption DEF Ancestry, Past, FastForward, Commits
          <5>2. Past(local[Main]) \subseteq history[s]
            BY <5>1 DEF Past
          <5> QED
            BY <4>1, <5>1, <5>2
        <4> HIDE DEF past, h, s
        <4>3. Ancestry'
          BY <4>1 DEF Ancestry
        <4>4. Commits' = Commits
          BY <4>1 DEF Commits
        <4> QED
          BY <4>1, <4>2, <4>3, <4>4, <1>3, CommitAssumption DEF TypeOK
      <3>2. CASE ~ FastForward(s)
        <4>1. h = n /\ past = Past(local[Main]) \cup Past(s) \cup {n}
          BY <3>2
        <4>2. Len(history) < MaxCommits
          BY <4>1, <2>1, <1>3, BoundsAssumption
        <4>3. history' = Append(history, Past(local[Main]) \cup Past(s) \cup {n})
              /\ merges' = merges \cup {n}
          BY <2>1, <3>2, <4>1
        <4> HIDE DEF past, h, s
        <4>4. /\ Ancestry' /\ history' \in Seq(SUBSET Commit) /\ Len(history') = n
              /\ Len(history') <= MaxCommits /\ Commits \subseteq Commits' /\ n \in Commits'
              /\ history'[n] = Past(local[Main]) \cup Past(s) \cup {n}
              /\ \A d \in 1 .. Len(history) : history'[d] = history[d]
          BY <1>3, <4>2, <4>3, Grown
        <4>5. n # 0 /\ n \in Nat /\ Len(history) <= n /\ 1 .. Len(history) \subseteq 1 .. n /\ n \in 1 .. n
          BY <1>3
        <4>6. merges' \subseteq 1 .. Len(history')
          <5>1. merges \subseteq 1 .. Len(history)
            BY DEF TypeOK
          <5> HIDE DEF n
          <5> QED
            BY <5>1, <4>3, <4>4, <4>5
        <4> QED
          BY <4>1, <4>4, <4>5, <4>6
      <3> QED
        BY <3>1, <3>2
    <2>4. op' \in Operation /\ op'.handled = {m}
      BY <1>3, <2>1, MainIsBranch DEF Idle, Operation, Stage
    <2> HIDE DEF h, past, s
    <2>5. local' \in [Branches -> Commits'] /\ local'[Main] = h /\ \A b \in Branch : local'[b] = local[b]
      BY <2>1, <2>3, TypeParts, MainIsBranch, NamesAssumption
    <2>6. TypeOK'
      BY <1>2, <2>1, <2>2, <2>3, <2>4, <2>5, TypeParts DEF TypeOK, Commits, Operation
    <2>7. MergedFiles
      BY <2>1, <2>2, <2>3, <2>4, <2>5, CommitAssumption DEF MergedFiles
    <2> QED
      BY <2>3, <2>6, <2>7
  <1> QED
    BY <1>4, <1>5

(* A step does not forget a commit. *)
Extends == \A c \in 1 .. Len(history) : history'[c] = history[c]

LEMMA NextType == TypeOK /\ Ancestry /\ Cloned /\ [Next]_vars => TypeOK' /\ Ancestry' /\ Extends
  <1> SUFFICES ASSUME TypeOK, Ancestry, Cloned, [Next]_vars PROVE TypeOK' /\ Ancestry' /\ Extends
    OBVIOUS
  <1> DEFINE G == TypeOK' /\ Ancestry' /\ Extends
  <1>1. ASSUME NEW b \in Branches, RemoteCommit(b) PROVE G
    BY <1>1, RemoteCommitType DEF Extends
  <1>2. ASSUME GitRepositoryMerge PROVE G
    BY <1>2, GitRepositoryMergeType DEF Extends
  <1>3. ASSUME TypeOK', UNCHANGED history PROVE G
    BY <1>3 DEF Ancestry, Extends
  <1>4. ASSUME NEW b \in Branch, BranchCreate(b) PROVE G
    <2>1. requests' \in 0 .. MaxRequests
      BY <1>4, TypeParts, BoundsAssumption DEF BranchCreate
    <2>2. TypeOK'
      BY <1>4, <2>1, TypeParts, TypeKept, InGraphType DEF BranchCreate
    <2> QED
      BY <2>2, <1>3, <1>4 DEF BranchCreate
  <1>5. ASSUME NEW b \in Branch, BranchMerge(b) PROVE G
    <2>1. requests' \in 0 .. MaxRequests
      BY <1>5, TypeParts, BoundsAssumption DEF BranchMerge
    <2>2. messages' \subseteq Message
      <3>1. [type |-> "merge", branch |-> b, tries |-> 0] \in Message
        BY BoundsAssumption DEF Message
      <3> QED
        BY <1>5, <3>1, TypeParts DEF BranchMerge
    <2>3. /\ imported' \in [Branches -> SUBSET Commit] /\ commit' \in [Branches -> Commits]
          /\ incidents' \subseteq Incident
      <3>1. PICK o \in SUBSET Commit, seen \in SUBSET Commit, c \in Commits :
              /\ imported' = [imported EXCEPT ![Main] = o, ![b] = seen]
              /\ commit' = [commit EXCEPT ![b] = c]
              /\ incidents' \in {incidents, incidents \cup {"overtaken"}}
        <4>1. PICK moves \in BOOLEAN :
                LET objects == imported[Main] \cup imported[b]
                    seen == IF moves THEN objects ELSE imported[b]
                    c == IF moves /\ b \notin own THEN commit[Main] ELSE commit[b] IN
                /\ imported' = [imported EXCEPT ![Main] = objects, ![b] = seen]
                /\ commit' = [commit EXCEPT ![b] = c]
                /\ incidents' = IF c = commit[b] /\ seen = imported[b] THEN incidents
                                ELSE incidents \cup {"overtaken"}
          BY <1>5 DEF BranchMerge
        <4>2. /\ imported[Main] \in SUBSET Commit /\ imported[b] \in SUBSET Commit
              /\ commit[Main] \in Commits /\ commit[b] \in Commits
          BY TypeParts, MainIsBranch
        <4> QED
          BY <4>1, <4>2
      <3> QED
        BY <3>1, TypeParts, MainIsBranch DEF Incident
    <2>4. TypeOK'
      BY <1>5, <2>1, <2>2, <2>3, TypeParts, TypeKept DEF BranchMerge
    <2> QED
      BY <2>4, <1>3, <1>5 DEF BranchMerge
  <1>6. ASSUME NEW b \in Branch, BranchDelete(b) PROVE G
    <2>1. requests' \in 0 .. MaxRequests
      BY <1>6, TypeParts, BoundsAssumption DEF BranchDelete
    <2>2. /\ imported' \in [Branches -> SUBSET Commit] /\ commit' \in [Branches -> Commits]
          /\ Main \in graph_branches' /\ graph_branches' \subseteq Branches /\ incidents' \subseteq Incident
          /\ own' \subseteq Branches
      BY <1>6, TypeParts, MainIsBranch, NamesAssumption DEF BranchDelete, Incident
    <2>3. TypeOK'
      BY <1>6, <2>1, <2>2, TypeParts, TypeKept DEF BranchDelete
    <2> QED
      BY <2>3, <1>3, <1>6 DEF BranchDelete
  <1>7. ASSUME StartSync PROVE G
    <2>1. op' \in Operation
      BY <1>7, MainIsBranch DEF StartSync, Idle, Operation, Stage
    <2>2. TypeOK'
      BY <1>7, <2>1, TypeParts, TypeKept DEF StartSync
    <2> QED
      BY <2>2, <1>3, <1>7 DEF StartSync
  <1>8. ASSUME StartAdd PROVE G
    <2>1. op' \in Operation /\ messages' \subseteq Message
      <3>1. PICK m \in messages : /\ messages' = messages \ {m}
                                  /\ op' = [Idle EXCEPT !.at = "clone", !.task = "new", !.handled = {m}]
        BY <1>8 DEF StartAdd
      <3>2. m \in Message /\ messages' \subseteq Message
        BY <3>1, TypeParts
      <3> QED
        BY <3>1, <3>2, MainIsBranch DEF Idle, Operation, Stage
    <2>2. TypeOK'
      BY <1>8, <2>1, TypeParts, TypeKept DEF StartAdd
    <2> QED
      BY <2>2, <1>3, <1>8 DEF StartAdd
  <1>9. ASSUME Clone PROVE G
    <2>1. op \in Operation
      BY <1>9, Running DEF Clone, At
    <2>2. op' \in Operation /\ local' \in [Branches -> Commits] /\ known' \subseteq Branches
      BY <1>9, <2>1, MainIsBranch, TypeParts DEF Clone, Operation, Stage
    <2>3. TypeOK'
      BY <1>9, <2>2, TypeParts, TypeKept DEF Clone
    <2> QED
      BY <2>3, <1>3, <1>9 DEF Clone
  <1>10. ASSUME Fetch PROVE G
    <2>1. op \in Operation
      BY <1>10, Running DEF Fetch, At
    <2>2. new_branches \subseteq Branches /\ updated_branches \subseteq Branches
      BY DEF new_branches, updated_branches, get_branches_from_remote
    <2>3. Main \notin new_branches
      BY <1>10, MainIsBranch DEF Cloned, Fetch, At, new_branches, get_branches_from_local
    <2>4. op' \in Operation /\ known' \subseteq Branches
      BY <1>10, <2>1, <2>2, <2>3, TypeParts DEF Fetch, Operation, Stage, Branches
    <2>5. TypeOK'
      BY <1>10, <2>4, TypeParts, TypeKept DEF Fetch
    <2> QED
      BY <2>5, <1>3, <1>10 DEF Fetch
  <1>11. ASSUME NextBranch PROVE G
    <2>1. op \in Operation
      BY <1>11, Running DEF NextBranch, At
    <2>2. op' = Idle \/ op' \in Operation
      BY <1>11, <2>1, MainIsBranch DEF NextBranch, Operation, Stage
    <2>3. TypeOK'
      BY <1>11, <2>2, TypeParts, TypeKept DEF NextBranch
    <2> QED
      BY <2>3, <1>3, <1>11 DEF NextBranch
  <1>12. ASSUME CreateInGraph PROVE G
    <2>1. op \in Operation
      BY <1>12, Running DEF CreateInGraph, At
    <2>2. op' \in Operation
      BY <1>12, <2>1 DEF CreateInGraph, Goto, Operation, Stage
    <2>3. op.branch \notin graph_branches => op.branch \in Branch
      BY <2>1, TypeParts DEF Operation, Branches
    <2>4. /\ Main \in graph_branches' /\ graph_branches' \subseteq Branches
          /\ commit' \in [Branches -> Commits] /\ imported' \in [Branches -> SUBSET Commit]
          /\ own' \subseteq Branches /\ messages' \subseteq Message
      <3>1. CASE op.branch \in graph_branches
        BY <1>12, <3>1, TypeParts DEF CreateInGraph
      <3>2. CASE op.branch \notin graph_branches
        <4>1. InGraph(op.branch)
          BY <1>12, <3>2 DEF CreateInGraph
        <4> QED
          BY <2>3, <3>2, <4>1, InGraphType
      <3> QED
        BY <3>1, <3>2
    <2>5. TypeOK'
      BY <1>12, <2>2, <2>4, TypeParts, TypeKept DEF CreateInGraph
    <2> QED
      BY <2>5, <1>3, <1>12 DEF CreateInGraph
  <1>13. ASSUME CreateInGit PROVE G
    <2>1. op \in Operation /\ op.branch \in Branches /\ op.at # "idle"
      BY <1>13, Running DEF CreateInGit, At, Operation
    <2>2. CASE created_diverges(op.branch)
      <3>1. Abort /\ local' = [local EXCEPT ![op.branch] = local[Main]] /\ remote' = remote
            /\ incidents' = incidents \cup {"diverged"}
        BY <1>13, <2>2 DEF CreateInGit
      <3>2. op' = Idle /\ messages' \subseteq Message
        BY <2>1, <3>1, AbortType
      <3>3. local' \in [Branches -> Commits] /\ incidents' \subseteq Incident
        BY <3>1, TypeParts, MainIsBranch DEF Incident
      <3>4. TypeOK'
        BY <1>13, <3>1, <3>2, <3>3, TypeParts, TypeKept DEF CreateInGit
      <3> QED
        BY <3>4, <1>3, <1>13 DEF CreateInGit
    <2>3. CASE ~ created_diverges(op.branch)
      <3> DEFINE h == created_head(op.branch)
      <3>1. /\ Goto("commit") /\ local' = [local EXCEPT ![op.branch] = h]
            /\ remote' = Pushed(h, op.branch) /\ UNCHANGED <<incidents, messages>>
        BY <1>13, <2>3 DEF CreateInGit
      <3>2. h \in Commits
        BY <2>1, HeadType
      <3>3. op' \in Operation
        BY <2>1, <3>1 DEF Goto, Operation, Stage
      <3> HIDE DEF h
      <3>4. local' \in [Branches -> Commits]
        BY <3>1, <3>2, TypeParts
      <3>5. remote' \in [Branches -> Commits] /\ remote'[Main] # NoCommit
        BY <2>1, <3>1, <3>2, PushedType
      <3>6. TypeOK'
        BY <1>13, <3>1, <3>3, <3>4, <3>5, TypeParts, TypeKept DEF CreateInGit
      <3> QED
        BY <3>6, <1>3, <1>13 DEF CreateInGit
    <2> QED
      BY <2>2, <2>3
  <1>14. ASSUME Pull PROVE G
    <2>1. op \in Operation /\ op.branch \in Branches /\ op.at # "idle"
      BY <1>14, Running DEF Pull, At, Operation
    <2> DEFINE h == local[op.branch]
    <2>2. CASE Pullable(h, op.branch) /\ Pulled(h, op.branch) # h
      <3>1. /\ Goto("commit") /\ local' = [local EXCEPT ![op.branch] = Pulled(h, op.branch)]
            /\ UNCHANGED <<incidents, messages>>
        BY <1>14, <2>2 DEF Pull
      <3>2. Pulled(h, op.branch) \in Commits
        BY <2>1, HeadType, TypeParts
      <3>3. op' \in Operation /\ local' \in [Branches -> Commits]
        BY <2>1, <3>1, <3>2, TypeParts DEF Goto, Operation, Stage
      <3>4. TypeOK'
        BY <1>14, <3>1, <3>3, TypeParts, TypeKept DEF Pull
      <3> QED
        BY <3>4, <1>3, <1>14 DEF Pull
    <2>3. CASE ~ (Pullable(h, op.branch) /\ Pulled(h, op.branch) # h)
      <3>1. /\ Abort /\ local' = local
            /\ incidents' = incidents \cup {IF Pullable(h, op.branch) THEN "unchanged" ELSE "diverged"}
        BY <1>14, <2>3 DEF Pull
      <3>2. op' = Idle /\ messages' \subseteq Message
        BY <2>1, <3>1, AbortType
      <3>3. incidents' \subseteq Incident
        BY <3>1, TypeParts DEF Incident
      <3>4. TypeOK'
        BY <1>14, <3>1, <3>2, <3>3, TypeParts, TypeKept DEF Pull
      <3> QED
        BY <3>4, <1>3, <1>14 DEF Pull
    <2> QED
      BY <2>2, <2>3
  <1>15. ASSUME UpdateCommit PROVE G
    <2>1. op \in Operation /\ op.branch \in Branches /\ op.at # "idle"
      BY <1>15, Running DEF UpdateCommit, At, Operation
    <2>2. CASE op.branch \in graph_branches
      <3>1. /\ Goto(IF op.task = "merge" THEN "push" ELSE "import")
            /\ commit' = [commit EXCEPT ![op.branch] = local[op.branch]] /\ UNCHANGED messages
            /\ own' \in {own, own \cup {op.branch}}
        BY <1>15, <2>2 DEF UpdateCommit
      <3>2. op' \in Operation /\ commit' \in [Branches -> Commits] /\ own' \subseteq Branches
        BY <2>1, <3>1, TypeParts DEF Goto, Operation, Stage
      <3>3. TypeOK'
        BY <1>15, <3>1, <3>2, TypeParts, TypeKept DEF UpdateCommit
      <3> QED
        BY <3>3, <1>3, <1>15 DEF UpdateCommit
    <2>3. CASE op.branch \notin graph_branches
      <3>1. Abort /\ commit' = commit /\ own' = own
        BY <1>15, <2>3 DEF UpdateCommit
      <3>2. op' = Idle /\ messages' \subseteq Message
        BY <2>1, <3>1, AbortType
      <3>3. TypeOK'
        BY <1>15, <3>1, <3>2, TypeParts, TypeKept DEF UpdateCommit
      <3> QED
        BY <3>3, <1>3, <1>15 DEF UpdateCommit
    <2> QED
      BY <2>2, <2>3
  <1>16. ASSUME Import PROVE G
    <2>1. op \in Operation /\ op.branch \in Branches /\ op.at # "idle"
      BY <1>16, Running DEF Import, At, Operation
    <2>2. CASE op.branch \in graph_branches
      <3>1. /\ imported' = [imported EXCEPT ![op.branch] = Past(local[op.branch])]
            /\ op' = IF op.task = "new" THEN [op EXCEPT !.at = "fetch", !.task = "sync"]
                                         ELSE [op EXCEPT !.at = "next"]
            /\ UNCHANGED messages
        BY <1>16, <2>2 DEF Import
      <3>2. op' \in Operation
        BY <2>1, <3>1 DEF Operation, Stage
      <3>3. imported' \in [Branches -> SUBSET Commit]
        BY <2>1, <3>1, TypeParts, PastType
      <3>4. TypeOK'
        BY <1>16, <3>1, <3>2, <3>3, TypeParts, TypeKept DEF Import
      <3> QED
        BY <3>4, <1>3, <1>16 DEF Import
    <2>3. CASE op.branch \notin graph_branches
      <3>1. Abort /\ imported' = imported
        BY <1>16, <2>3 DEF Import
      <3>2. op' = Idle /\ messages' \subseteq Message
        BY <2>1, <3>1, AbortType
      <3>3. TypeOK'
        BY <1>16, <3>1, <3>2, TypeParts, TypeKept DEF Import
      <3> QED
        BY <3>3, <1>3, <1>16 DEF Import
    <2> QED
      BY <2>2, <2>3
  <1>17. ASSUME Push PROVE G
    <2>1. local[Main] \in Commits
      BY TypeParts, MainIsBranch
    <2>2. remote' \in [Branches -> Commits] /\ remote'[Main] # NoCommit
      BY <1>17, <2>1, PushedType, MainIsBranch DEF Push
    <2>3. incidents' \subseteq Incident
      BY <1>17, TypeParts DEF Push, Incident
    <2>4. TypeOK'
      BY <1>17, <2>2, <2>3, TypeParts, TypeKept DEF Push
    <2> QED
      BY <2>4, <1>3, <1>17 DEF Push
  <1>18. ASSUME Fail PROVE G
    <2>1. op \in Operation /\ op.branch \in Branches /\ op.at # "idle" /\ Abort
      BY <1>18, Running DEF Fail, Operation
    <2>2. op' = Idle /\ messages' \subseteq Message
      BY <2>1, AbortType
    <2>3. local' \in {local, NoHeads, [local EXCEPT ![op.branch] = local[Main]]}
      BY <1>18 DEF Fail
    <2>4. local' \in [Branches -> Commits]
      BY <2>1, <2>3, TypeParts, MainIsBranch
    <2>5. incidents' \subseteq Incident /\ cloned' \in BOOLEAN /\ failures' \in 0 .. MaxFailures
      BY <1>18, TypeParts, BoundsAssumption DEF Fail, Incident
    <2>6. TypeOK'
      BY <1>18, <2>2, <2>4, <2>5, TypeParts, TypeKept DEF Fail
    <2> QED
      BY <2>6, <1>3, <1>18 DEF Fail
  <1>19. ASSUME GitBranchCreate PROVE G
    <2>1. PICK m \in messages :
            /\ m.type = "create"
            /\ messages' \in {messages \ {m}, (messages \ {m}) \cup Retried({m})}
            /\ local' \in {local, [local EXCEPT ![m.branch] = local[Main]],
                           [local EXCEPT ![m.branch] = created_head(m.branch)]}
            /\ remote' \in {remote, Pushed(created_head(m.branch), m.branch)}
            /\ known' \in {known, known \cup {m.branch}}
            /\ incidents' \in {incidents, incidents \cup {"diverged"}, incidents \cup {"late"}}
      BY <1>19 DEF GitBranchCreate
    <2>2. m \in Message /\ m.branch \in Branches
      BY <2>1, TypeParts, MainIsBranch DEF Message
    <2>3. messages' \subseteq Message
      BY <2>1, <2>2, TypeParts, RetriedType
    <2>4. local' \in [Branches -> Commits]
      BY <2>1, <2>2, TypeParts, MainIsBranch, HeadType
    <2>5. remote' \in [Branches -> Commits] /\ remote'[Main] # NoCommit
      <3>1. created_head(m.branch) \in Commits
        BY <2>2, HeadType
      <3>2. LET r == Pushed(created_head(m.branch), m.branch)
            IN r \in [Branches -> Commits] /\ r[Main] # NoCommit
        BY <2>2, <3>1, PushedType
      <3> QED
        BY <2>1, <3>2, TypeParts
    <2>6. known' \subseteq Branches /\ incidents' \subseteq Incident
      BY <2>1, <2>2, TypeParts DEF Incident
    <2>7. TypeOK'
      BY <1>19, <2>3, <2>4, <2>5, <2>6, TypeParts, TypeKept DEF GitBranchCreate
    <2> QED
      BY <2>7, <1>3, <1>19 DEF GitBranchCreate
  <1>20. ASSUME MessageFails PROVE G
    <2>1. PICK m \in messages : /\ messages' = (messages \ {m}) \cup Retried({m})
                                /\ incidents' = incidents \cup GivenUp({m})
      BY <1>20 DEF MessageFails
    <2>2. messages' \subseteq Message
      BY <2>1, TypeParts, RetriedType
    <2>3. incidents' \subseteq Incident
      BY <2>1, TypeParts DEF Incident, GivenUp
    <2>4. TypeOK'
      BY <1>20, <2>2, <2>3, TypeParts, TypeKept DEF MessageFails
    <2> QED
      BY <2>4, <1>3, <1>20 DEF MessageFails
  <1>21. ASSUME UNCHANGED vars PROVE G
    <2>1. TypeOK'
      BY <1>21, TypeParts, TypeKept DEF vars
    <2> QED
      BY <2>1, <1>3, <1>21 DEF vars
  <1> HIDE DEF G
  <1>22. G
    BY <1>1, <1>2, <1>4, <1>5, <1>6, <1>7, <1>8, <1>9, <1>10, <1>11, <1>12, <1>13, <1>14, <1>15,
       <1>16, <1>17, <1>18, <1>19, <1>20, <1>21 DEF Next, Step
  <1> QED
    BY <1>22 DEF G

LEMMA InitCloned == Init => Cloned
  BY DEF Init, Cloned, Idle

LEMMA NextCloned == TypeOK /\ Ancestry /\ Cloned /\ [Next]_vars => Cloned'
  <1> SUFFICES ASSUME TypeOK, Ancestry, Cloned, [Next]_vars PROVE Cloned'
    OBVIOUS
  <1>1. /\ remote[Main] # NoCommit /\ Main \in Branches /\ Branch \subseteq Branches
        /\ remote \in [Branches -> Commits] /\ local \in [Branches -> Commits]
    BY TypeParts, MainIsBranch
  <1>2. Idle.at = "idle"
    BY DEF Idle
  <1>3. ASSUME UNCHANGED <<cloned, local, op>> PROVE Cloned'
    BY <1>3 DEF Cloned
  <1>4. ASSUME UNCHANGED <<cloned, local>>, op.at \notin {"idle", "clone"} PROVE Cloned'
    BY <1>4 DEF Cloned
  <1>5. ASSUME StartSync \/ StartAdd PROVE Cloned'
    <2>1. /\ cloned' = cloned /\ local' = local
          /\ op'.at = "clone" \/ cloned
      BY <1>5 DEF StartSync, StartAdd, Idle
    <2> QED
      BY <2>1 DEF Cloned
  <1>6. ASSUME Clone PROVE Cloned'
    <2>1. local'[Main] = remote[Main] /\ cloned'
      BY <1>6, <1>1, TypeParts DEF Clone
    <2> QED
      BY <2>1, <1>1 DEF Cloned
  <1>7. ASSUME CreateInGit PROVE Cloned'
    <2>1. local[Main] # NoCommit /\ cloned' = cloned /\ cloned
      BY <1>7 DEF CreateInGit, At, Cloned
    <2>2. created_head(Main) # NoCommit
      BY <1>1, <2>1 DEF created_head, Pulled
    <2>3. local'[Main] \in {local[Main], created_head(Main)}
      BY <1>1, <1>7 DEF CreateInGit
    <2> QED
      BY <2>1, <2>2, <2>3 DEF Cloned
  <1>8. ASSUME Pull PROVE Cloned'
    <2>1. local[Main] # NoCommit /\ cloned' = cloned /\ cloned
      BY <1>8 DEF Pull, At, Cloned
    <2>2. Pulled(local[Main], Main) # NoCommit
      BY <1>1, <2>1 DEF Pulled
    <2>3. local'[Main] \in {local[Main], Pulled(local[Main], Main)}
      BY <1>1, <1>8 DEF Pull
    <2> QED
      BY <2>1, <2>2, <2>3 DEF Cloned
  <1>9. ASSUME Fail PROVE Cloned'
    <2>1. op' = Idle /\ cloned' = (cloned /\ op.at # "clone")
      BY <1>9 DEF Fail, Abort, At
    <2>2. op.at # "clone" => local'[Main] = local[Main]
      BY <1>1, <1>9 DEF Fail, At
    <2> QED
      BY <1>2, <2>1, <2>2 DEF Cloned
  <1>10. ASSUME GitBranchCreate PROVE Cloned'
    <2>1. PICK m \in messages :
            /\ m.type = "create"
            /\ local' \in {local, [local EXCEPT ![m.branch] = local[Main]],
                           [local EXCEPT ![m.branch] = created_head(m.branch)]}
      BY <1>10 DEF GitBranchCreate
    <2>2. m.branch \in Branch
      BY <2>1, TypeParts DEF Message
    <2>3. local'[Main] = local[Main] /\ cloned' = cloned /\ op' = op
      BY <1>1, <1>10, <2>1, <2>2, NamesAssumption DEF GitBranchCreate
    <2> QED
      BY <2>3 DEF Cloned
  <1>11. ASSUME GitRepositoryMerge PROVE Cloned'
    <2>1. MergedFiles /\ cloned' = cloned /\ cloned
      BY <1>11, GitRepositoryMergeType DEF GitRepositoryMerge
    <2>2. CASE UNCHANGED <<history, local, op, incidents>>
      BY <2>1, <2>2, <1>3
    <2>3. CASE local'[Main] # NoCommit
      BY <2>1, <2>3 DEF Cloned
    <2> QED
      BY <2>1, <2>2, <2>3 DEF MergedFiles
  <1>12. ASSUME (\E b \in Branches : RemoteCommit(b)) \/ (\E b \in Branch : BranchCreate(b) \/ BranchMerge(b) \/ BranchDelete(b))
                \/ MessageFails \/ UNCHANGED vars
         PROVE  Cloned'
    BY <1>12, <1>3 DEF RemoteCommit, BranchCreate, BranchMerge, BranchDelete, MessageFails, vars
  <1>13. ASSUME Fetch \/ NextBranch \/ CreateInGraph \/ UpdateCommit \/ Import \/ Push PROVE Cloned'
    BY <1>13, <1>4 DEF Fetch, NextBranch, CreateInGraph, UpdateCommit, Import, Push, At
  <1> QED
    BY <1>5, <1>6, <1>7, <1>8, <1>9, <1>10, <1>11, <1>12, <1>13 DEF Next, Step

-----------------------------------------------------------------------------
(* The remote moves forward only.                                            *)

Forward == \A b \in Branches, c \in Commit : c \in Past(remote[b]) => c \in Past(remote[b])'

LEMMA PushedForward ==
  ASSUME TypeOK, Ancestry, history' = history, NEW h \in Commits, NEW b \in Branches,
         remote' = Pushed(h, b)
  PROVE  /\ Forward
         /\ Accepted(h, b) /\ h # NoCommit => remote'[b] = h /\ h \in Past(remote[b])'
  <1>1. remote \in [Branches -> Commits]
    BY TypeParts
  <1>2. \A d \in Branches \ {b} : remote'[d] = remote[d]
    BY <1>1 DEF Pushed
  <1>3. Accepted(h, b) => remote'[b] = h
    BY <1>1 DEF Pushed
  <1>4. ~ Accepted(h, b) => remote' = remote
    BY DEF Pushed
  <1>5. Accepted(h, b) => Past(remote[b]) \subseteq Past(h)
    BY <1>1, CommitAssumption DEF Accepted, Past, Ancestry, Commits
  <1>6. Forward
    BY <1>2, <1>3, <1>4, <1>5 DEF Forward, Past
  <1>7. h # NoCommit => h \in history[h]
    BY CommitAssumption DEF Ancestry, Commits
  <1> QED
    BY <1>3, <1>6, <1>7 DEF Past

LEMMA NextForward == TypeOK /\ Ancestry /\ [Next]_vars /\ Extends => Forward
  <1> SUFFICES ASSUME TypeOK, Ancestry, [Next]_vars, Extends PROVE Forward
    OBVIOUS
  <1>1. /\ Main \in Branches /\ Branch \subseteq Branches
        /\ remote \in [Branches -> Commits] /\ local \in [Branches -> Commits]
        /\ Len(history) \in Nat
    BY TypeParts, MainIsBranch, PastType
  <1>2. \A b \in Branches : remote[b] # NoCommit => history'[remote[b]] = history[remote[b]]
    BY <1>1, CommitAssumption DEF Extends, Commits
  <1>3. ASSUME remote' = remote PROVE Forward
    BY <1>2, <1>3 DEF Forward, Past
  <1>4. ASSUME NEW b \in Branches, RemoteCommit(b) PROVE Forward
    <2>1. /\ remote'[b] # NoCommit /\ Past(remote[b]) \subseteq history'[remote'[b]]
          /\ \A d \in Branches \ {b} : remote'[d] = remote[d]
      BY <1>4, RemoteCommitType
    <2> QED
      BY <1>2, <2>1 DEF Forward, Past
  <1>5. ASSUME CreateInGit PROVE Forward
    <2>1. op.branch \in Branches /\ history' = history
      BY <1>5, Running DEF CreateInGit, At, Operation
    <2>2. created_head(op.branch) \in Commits
      BY <2>1, HeadType
    <2>3. remote' = remote \/ remote' = Pushed(created_head(op.branch), op.branch)
      BY <1>5 DEF CreateInGit
    <2> QED
      BY <1>3, <2>1, <2>2, <2>3, PushedForward
  <1>6. ASSUME Push PROVE Forward
    BY <1>1, <1>6, PushedForward DEF Push
  <1>7. ASSUME GitBranchCreate PROVE Forward
    <2>1. PICK m \in messages :
            m.type = "create" /\ remote' \in {remote, Pushed(created_head(m.branch), m.branch)}
      BY <1>7 DEF GitBranchCreate
    <2>2. m.branch \in Branches /\ history' = history
      BY <1>1, <1>7, <2>1, TypeParts DEF Message, GitBranchCreate
    <2>3. created_head(m.branch) \in Commits
      BY <2>2, HeadType
    <2> QED
      BY <1>3, <2>1, <2>2, <2>3, PushedForward
  <1> QED
    BY <1>3, <1>4, <1>5, <1>6, <1>7 DEF Next, Step, vars, BranchCreate, BranchMerge, BranchDelete,
       StartSync, StartAdd, GitRepositoryMerge, MessageFails, Clone, Fetch, NextBranch, CreateInGraph,
       Pull, UpdateCommit, Import, Fail

-----------------------------------------------------------------------------
(* The commit that the graph records.                                        *)

(* What holds of every step. *)
LEMMA StepFacts ==
  ASSUME IInv, [Next]_vars
  PROVE  /\ TypeOK /\ TypeOK' /\ Ancestry /\ Ancestry' /\ Cloned /\ Cloned' /\ Extends /\ Forward
         /\ \A b \in Branches : /\ commit[b] \in Commits /\ local[b] \in Commits /\ remote[b] \in Commits
                                /\ commit[b] # NoCommit => commit[b] \in Commit
                                /\ local[b] # NoCommit => local[b] \in Commit
         /\ graph_branches \subseteq Branches /\ Main \in graph_branches /\ Main \in Branches
         /\ \A c \in Commits \ {NoCommit} :
              history'[c] = history[c] /\ c \in history[c] /\ history[c] \subseteq Commits \ {NoCommit}
              /\ history[c] \subseteq Commit
              /\ \A d \in history[c] : history[d] \subseteq history[c]
  <1>1. /\ TypeOK /\ TypeOK' /\ Ancestry /\ Ancestry' /\ Cloned /\ Cloned' /\ Extends /\ Forward
    BY NextType, NextCloned, NextForward DEF IInv
  <1>2. Commits \ {NoCommit} = 1 .. Len(history) /\ 1 .. Len(history) \subseteq Commit
    BY CommitAssumption, PastType, BoundsAssumption DEF Commits, Commit, TypeOK, IInv
  <1> QED
    BY <1>1, <1>2, TypeParts, MainIsBranch DEF Ancestry, Extends

(* Steps that leave the recorded commits alone. *)
LEMMA CommitsKept ==
  ASSUME IInv, [Next]_vars, commit' = commit, graph_branches' = graph_branches,
         incidents \subseteq incidents',
         op.at = "push" => op'.at = "push" /\ local'[Main] = local[Main]
  PROVE  GraphCommitPublished' /\ Recorded'
  <1>1. GraphCommitPublished'
    <2> SUFFICES ASSUME "unpublished" \notin incidents', NEW b \in graph_branches, commit[b] # NoCommit
                 PROVE  Published(commit[b])' \/ (op'.at = "push" /\ commit[b] = local'[Main])
      BY DEF GraphCommitPublished
    <2>1. Published(commit[b]) \/ (op.at = "push" /\ commit[b] = local[Main])
      BY DEF IInv, GraphCommitPublished
    <2>2. Published(commit[b]) => Published(commit[b])'
      <3>1. commit[b] \in Commit /\ Forward
        BY StepFacts
      <3> QED
        BY <3>1 DEF Forward, Published
    <2> QED
      BY <2>1, <2>2
  <1>2. Recorded'
    <2> SUFFICES ASSUME Smooth', NEW b \in graph_branches, commit[b] # NoCommit
                 PROVE  \/ commit[b] \in Past(remote[b])'
                        \/ b # Main /\ commit[b] \in Past(commit[Main])'
                        \/ b = Main /\ op'.at = "push" /\ commit[b] = local'[b]
      BY DEF Recorded
    <2>1. \/ commit[b] \in Past(remote[b])
          \/ b # Main /\ commit[b] \in Past(commit[Main])
          \/ b = Main /\ op.at = "push" /\ commit[b] = local[b]
      BY DEF IInv, Recorded, Smooth
    <2>2. commit[b] \in Past(remote[b]) => commit[b] \in Past(remote[b])'
      BY StepFacts DEF Forward
    <2>3. Past(commit[Main])' = Past(commit[Main])
      BY StepFacts DEF Past
    <2> QED
      BY <2>1, <2>2, <2>3
  <1> QED
    BY <1>1, <1>2

(* A branch that is new in the graph takes over the commit of main. *)
LEMMA InGraphCommits ==
  ASSUME IInv, [Next]_vars, NEW b \in Branch, b \notin graph_branches, InGraph(b),
         UNCHANGED <<history, remote, local, incidents>>, op'.at = "push" <=> op.at = "push"
  PROVE  GraphCommitPublished' /\ Recorded'
  <1>1. /\ graph_branches' = graph_branches \cup {b} /\ commit'[b] = commit[Main]
        /\ \A d \in Branches \ {b} : commit'[d] = commit[d]
        /\ commit'[Main] = commit[Main] /\ b # Main
    BY StepFacts, TypeParts, NamesAssumption, MainIsBranch DEF InGraph
  <1>2. GraphCommitPublished'
    <2> SUFFICES ASSUME "unpublished" \notin incidents, NEW d \in graph_branches', commit'[d] # NoCommit
                 PROVE  (\E r \in Branches : commit'[d] \in Past(remote[r]))
                        \/ (op.at = "push" /\ commit'[d] = local[Main])
      BY DEF GraphCommitPublished, Published, Past
    <2>1. \E e \in graph_branches : commit'[d] = commit[e]
      BY <1>1, StepFacts
    <2> QED
      BY <2>1 DEF IInv, GraphCommitPublished, Published
  <1>3. Recorded'
    <2> SUFFICES ASSUME Smooth, NEW d \in graph_branches', commit'[d] # NoCommit
                 PROVE  \/ commit'[d] \in Past(remote[d])
                        \/ d # Main /\ commit'[d] \in Past(commit[Main])
                        \/ d = Main /\ op.at = "push" /\ commit'[d] = local[d]
      BY <1>1 DEF Recorded, Past, Smooth
    <2>1. CASE d = b
      BY <1>1, <2>1, StepFacts DEF Past
    <2>2. CASE d # b
      <3>1. d \in graph_branches /\ commit'[d] = commit[d]
        BY <1>1, <2>2, StepFacts
      <3> QED
        BY <3>1 DEF IInv, Recorded
    <2> QED
      BY <2>1, <2>2
  <1> QED
    BY <1>2, <1>3

(* A merge of a branch in the graph leaves its commit as it was, or lets it   *)
(* see main's if it has no value of its own.                                  *)
LEMMA BranchMergeSees ==
  ASSUME IInv, NEW b \in Branch, BranchMerge(b)
  PROVE  /\ b \in graph_branches /\ b # Main
         /\ UNCHANGED <<history, remote, graph_branches, own, local, op>>
         /\ \A d \in Branches \ {b} : commit'[d] = commit[d]
         /\ commit'[b] = commit[b] \/ (b \notin own /\ commit'[b] = commit[Main])
         /\ incidents' \in {incidents, incidents \cup {"overtaken"}}
         /\ \A d \in graph_branches' :
              \/ d \in graph_branches /\ commit'[d] = commit[d]
              \/ d # Main /\ commit'[d] = commit[Main]
         /\ incidents \subseteq incidents' /\ (Smooth' <=> Smooth)
  <1>1. PICK moves \in BOOLEAN :
          LET objects == imported[Main] \cup imported[b]
              seen == IF moves THEN objects ELSE imported[b]
              c == IF moves /\ b \notin own THEN commit[Main] ELSE commit[b] IN
          /\ commit' = [commit EXCEPT ![b] = c]
          /\ incidents' = IF c = commit[b] /\ seen = imported[b] THEN incidents
                          ELSE incidents \cup {"overtaken"}
    BY DEF BranchMerge
  <1>2. /\ b \in graph_branches /\ b # Main
        /\ UNCHANGED <<history, remote, graph_branches, own, local, op>>
    BY DEF BranchMerge
  <1>3. commit \in [Branches -> Commits] /\ b \in Branches /\ graph_branches \subseteq Branches
    BY TypeParts, MainIsBranch DEF IInv
  <1>4. incidents' \in {incidents, incidents \cup {"overtaken"}}
    BY <1>1
  <1>5. incidents \subseteq incidents' /\ (Smooth' <=> Smooth)
    BY <1>4 DEF Smooth
  <1>6. /\ \A d \in Branches \ {b} : commit'[d] = commit[d]
        /\ commit'[b] = commit[b] \/ (b \notin own /\ commit'[b] = commit[Main])
    BY <1>1, <1>3
  <1> QED
    BY <1>2, <1>3, <1>4, <1>5, <1>6

LEMMA BranchMergeCommits ==
  ASSUME IInv, [Next]_vars, NEW b \in Branch, BranchMerge(b)
  PROVE  GraphCommitPublished' /\ Recorded'
  <1>1. /\ UNCHANGED <<history, remote, graph_branches, local, op>> /\ (Smooth' <=> Smooth)
        /\ incidents \subseteq incidents' /\ commit'[Main] = commit[Main] /\ Main \in graph_branches
        /\ \A d \in graph_branches : commit'[d] = commit[d] \/ (d # Main /\ commit'[d] = commit[Main])
    BY BranchMergeSees, StepFacts
  <1>2. GraphCommitPublished'
    <2> SUFFICES ASSUME "unpublished" \notin incidents, NEW d \in graph_branches, commit'[d] # NoCommit
                 PROVE  (\E e \in Branches : commit'[d] \in Past(remote[e]))
                        \/ (op.at = "push" /\ commit'[d] = local[Main])
      BY <1>1 DEF GraphCommitPublished, Published, Past
    <2>1. \E e \in graph_branches : commit'[d] = commit[e]
      BY <1>1
    <2> QED
      BY <2>1 DEF IInv, GraphCommitPublished, Published
  <1>3. Recorded'
    <2> SUFFICES ASSUME Smooth, NEW d \in graph_branches, commit'[d] # NoCommit
                 PROVE  \/ commit'[d] \in Past(remote[d])
                        \/ d # Main /\ commit'[d] \in Past(commit[Main])
                        \/ d = Main /\ op.at = "push" /\ commit'[d] = local[d]
      BY <1>1 DEF Recorded, Past
    <2>1. CASE d # Main /\ commit'[d] = commit[Main]
      BY <2>1, StepFacts DEF Past
    <2>2. CASE commit'[d] = commit[d]
      BY <2>2 DEF IInv, Recorded
    <2> QED
      BY <1>1, <2>1, <2>2
  <1> QED
    BY <1>2, <1>3

LEMMA BranchDeleteCommits ==
  ASSUME IInv, [Next]_vars, NEW b \in Branch, BranchDelete(b)
  PROVE  GraphCommitPublished' /\ Recorded'
  <1>1. /\ graph_branches' = graph_branches \ {b}
        /\ \A d \in graph_branches' : commit'[d] = commit[d]
        /\ incidents' = incidents \cup {"deleted"} /\ UNCHANGED <<history, remote, local, op>>
    BY StepFacts, TypeParts DEF BranchDelete
  <1>2. Recorded'
    BY <1>1 DEF Recorded, Smooth
  <1>3. GraphCommitPublished'
    BY <1>1 DEF IInv, GraphCommitPublished, Published, Past
  <1> QED
    BY <1>2, <1>3

LEMMA UpdateCommitCommits ==
  ASSUME IInv, [Next]_vars, UpdateCommit
  PROVE  GraphCommitPublished' /\ Recorded'
  <1> DEFINE b == op.branch
  <1>1. op \in Operation /\ b \in Branches /\ op.at = "commit"
    BY Running DEF UpdateCommit, At, Operation, IInv
  <1>2. UNCHANGED <<history, remote, graph_branches, local, incidents>>
    BY DEF UpdateCommit
  <1>3. CASE b \notin graph_branches
    BY <1>1, <1>2, <1>3, CommitsKept DEF UpdateCommit
  <1>4. CASE b \in graph_branches
    <2>1. /\ commit' = [commit EXCEPT ![b] = local[b]]
          /\ op'.at = IF op.task = "merge" THEN "push" ELSE "import"
      BY <1>1, <1>4 DEF UpdateCommit, Goto, Operation
    <2>2. commit'[b] = local[b] /\ \A d \in Branches \ {b} : commit'[d] = commit[d]
      BY <1>1, <2>1, TypeParts DEF IInv
    <2>3. op.task # "merge" => local[b] \in Past(remote[b])
      BY <1>1 DEF IInv, Staged
    <2>4. op.task = "merge" => b = Main /\ op'.at = "push"
      BY <2>1 DEF IInv, Staged
    <2> HIDE DEF b
    <2>5. GraphCommitPublished'
      <3> SUFFICES ASSUME "unpublished" \notin incidents, NEW d \in graph_branches, commit'[d] # NoCommit
                   PROVE  (\E r \in Branches : commit'[d] \in Past(remote[r]))
                          \/ (op'.at = "push" /\ commit'[d] = local[Main])
        BY <1>2 DEF GraphCommitPublished, Published, Past
      <3>1. CASE d = b
        BY <1>1, <2>2, <2>3, <2>4, <3>1
      <3>2. CASE d # b
        <4>1. commit'[d] = commit[d]
          BY <2>2, <3>2, StepFacts
        <4> QED
          BY <1>1, <4>1 DEF IInv, GraphCommitPublished, Published
      <3> QED
        BY <3>1, <3>2
    <2>6. Recorded'
      <3> SUFFICES ASSUME Smooth, NEW d \in graph_branches, commit'[d] # NoCommit
                   PROVE  \/ commit'[d] \in Past(remote[d])
                          \/ d # Main /\ commit'[d] \in Past(commit'[Main])
                          \/ d = Main /\ op'.at = "push" /\ commit'[d] = local[d]
        BY <1>2 DEF Recorded, Past, Smooth
      <3>1. CASE d = b
        BY <2>2, <2>3, <2>4, <3>1
      <3>2. CASE d # b
        <4>1. commit'[d] = commit[d]
          BY <2>2, <3>2, StepFacts
        <4>2. \/ commit[d] \in Past(remote[d])
              \/ d # Main /\ commit[d] \in Past(commit[Main])
          BY <1>1, <4>1 DEF IInv, Recorded
        <4>3. Past(commit[Main]) \subseteq Past(commit'[Main])
          <5>1. CASE b # Main
            BY <2>2, <5>1, StepFacts
          <5>2. CASE b = Main
            <6>1. commit'[Main] = local[Main] /\ local[Main] # NoCommit
              BY <1>1, <2>2, <5>2 DEF IInv, Staged, b
            <6>2. commit[Main] = NoCommit \/ commit[Main] \in Past(local[Main])
              BY <1>1, <1>4, <5>2 DEF IInv, Recording, b
            <6> QED
              BY <6>1, <6>2, StepFacts DEF Past
          <5> QED
            BY <5>1, <5>2
        <4> QED
          BY <4>1, <4>2, <4>3
      <3> QED
        BY <3>1, <3>2
    <2> QED
      BY <2>5, <2>6
  <1> QED
    BY <1>3, <1>4

LEMMA PushCommits ==
  ASSUME IInv, [Next]_vars, Push
  PROVE  GraphCommitPublished' /\ Recorded'
  <1> DEFINE h == local[Main]
  <1>1. /\ UNCHANGED <<history, graph_branches, commit, local>> /\ remote' = Pushed(h, Main)
        /\ incidents' = IF Accepted(h, Main) THEN incidents ELSE incidents \cup {"unpublished"}
    BY DEF Push
  <1>2. CASE ~ Accepted(h, Main)
    BY <1>1, <1>2 DEF GraphCommitPublished, Recorded, Smooth
  <1>3. CASE Accepted(h, Main)
    <2>1. incidents' = incidents
      BY <1>1, <1>3
    <2>2. h # NoCommit => h \in Past(remote[Main])'
      BY <1>1, <1>3, StepFacts, PushedForward
    <2> HIDE DEF h
    <2>3. GraphCommitPublished'
      <3> SUFFICES ASSUME "unpublished" \notin incidents, NEW d \in graph_branches, commit[d] # NoCommit
                   PROVE  \E r \in Branches : commit[d] \in Past(remote[r])'
        BY <1>1, <2>1 DEF GraphCommitPublished, Published
      <3>1. (\E r \in Branches : commit[d] \in Past(remote[r])) \/ commit[d] = h
        BY DEF IInv, GraphCommitPublished, Published, h
      <3> QED
        BY <2>2, <3>1, StepFacts DEF Forward
    <2>4. Recorded'
      <3> SUFFICES ASSUME Smooth, NEW d \in graph_branches, commit[d] # NoCommit
                   PROVE  \/ commit[d] \in Past(remote[d])'
                          \/ d # Main /\ commit[d] \in Past(commit[Main])
        BY <1>1, <2>1 DEF Recorded, Past, Smooth
      <3>1. \/ commit[d] \in Past(remote[d])
            \/ d # Main /\ commit[d] \in Past(commit[Main])
            \/ d = Main /\ commit[d] = h
        BY DEF IInv, Recorded, h
      <3> QED
        BY <2>2, <3>1, StepFacts DEF Forward
    <2> QED
      BY <2>3, <2>4
  <1> QED
    BY <1>2, <1>3

-----------------------------------------------------------------------------
(* What an operation knows at its steps.                                     *)

(* Steps of others. *)
LEMMA StagedKept ==
  ASSUME IInv, [Next]_vars, UNCHANGED <<op, local, known>>, incidents \subseteq incidents',
         \A b \in graph_branches' :
           \/ b \in graph_branches /\ commit'[b] = commit[b]
           \/ b # Main /\ commit'[b] = commit[Main]
           \/ ~ Smooth'
  PROVE  Staged' /\ Recording'
  <1>1. op = Idle \/ op \in Operation
    BY TypeParts DEF IInv
  <1>2. Staged'
    <2> SUFFICES ASSUME op.at = "commit", op.task # "merge"
                 PROVE  local[op.branch] \in Past(remote[op.branch])'
      BY DEF IInv, Staged
    <2>1. op.branch \in Branches /\ local[op.branch] # NoCommit
          /\ local[op.branch] \in Past(remote[op.branch])
      BY <1>1 DEF IInv, Staged, Idle, Operation
    <2> QED
      BY <2>1, StepFacts DEF Forward
  <1>3. Recording'
    <2> SUFFICES ASSUME Smooth', op.at = "commit", op.branch \in graph_branches',
                        commit'[op.branch] # NoCommit
                 PROVE  \/ commit'[op.branch] \in Past(local[op.branch])'
                        \/ op.branch # Main /\ commit'[op.branch] \in Past(commit[Main])'
      BY DEF Recording
    <2> DEFINE b == op.branch
    <2>1. b \in Branches /\ local[b] # NoCommit /\ Smooth
      BY <1>1 DEF IInv, Staged, Idle, Operation, Smooth
    <2>2. Past(local[b])' = Past(local[b])
      BY <2>1, StepFacts DEF Past
    <2>3. commit'[Main] = commit[Main]
      <3>1. Main \in graph_branches'
        BY StepFacts DEF TypeOK
      <3> QED
        BY <3>1
    <2>4. Past(commit[Main])' = Past(commit[Main])
      BY <2>3, StepFacts DEF Past
    <2>5. CASE b \in graph_branches /\ commit'[b] = commit[b]
      BY <2>1, <2>2, <2>4, <2>5 DEF IInv, Recording
    <2>6. CASE b # Main /\ commit'[b] = commit[Main]
      BY <2>4, <2>6, StepFacts DEF Past
    <2> QED
      BY <2>5, <2>6
  <1> QED
    BY <1>2, <1>3

(* Steps after which no head is about to be recorded. *)
LEMMA NotRecording ==
  ASSUME op'.at # "commit", op'.new \subseteq known',
         op'.at = "clone" => op'.new = {},
         op'.at \in {"graph", "git"} => op'.branch \in known',
         op'.task = "merge" => op'.at = "push" /\ op'.branch = Main
  PROVE  Staged' /\ Recording'
  BY DEF Staged, Recording

LEMMA CloneStaged ==
  ASSUME IInv, [Next]_vars, Clone
  PROVE  Staged' /\ Recording'
  <1>1. op \in Operation /\ op.at = "clone" /\ op.new = {} /\ op.task # "merge"
    BY Running DEF Clone, At, Operation, IInv, Staged
  <1>2. /\ op'.at = "commit" /\ op'.branch = Main /\ op'.new = op.new /\ op'.task = op.task
        /\ UNCHANGED <<history, remote, commit, graph_branches, incidents>>
    BY <1>1 DEF Clone, Operation
  <1>3. local'[Main] = remote[Main] /\ remote[Main] # NoCommit
    BY TypeParts, MainIsBranch DEF Clone, IInv
  <1>4. Staged'
    BY <1>1, <1>2, <1>3, StepFacts DEF Staged, Past
  <1>5. Recording'
    <2> SUFFICES ASSUME Smooth, commit[Main] # NoCommit
                 PROVE  commit[Main] \in Past(remote[Main])
      BY <1>2, <1>3 DEF Recording, Past, Smooth
    <2> QED
      BY <1>1, StepFacts DEF IInv, Recorded
  <1> QED
    BY <1>4, <1>5

LEMMA CreateInGitStaged ==
  ASSUME IInv, [Next]_vars, CreateInGit
  PROVE  Staged' /\ Recording'
  <1> DEFINE b == op.branch
             h == created_head(b)
  <1>1. op \in Operation /\ op.at = "git" /\ b \in Branches /\ b \in known /\ op.task # "merge"
    BY Running DEF CreateInGit, At, Operation, IInv, Staged
  <1>2. CASE created_diverges(b)
    BY <1>2, NotRecording DEF CreateInGit, Abort, Idle
  <1>3. CASE ~ created_diverges(b)
    <2>1. /\ op' = [op EXCEPT !.at = "commit"] /\ local' = [local EXCEPT ![b] = h]
          /\ remote' = Pushed(h, b)
          /\ UNCHANGED <<history, commit, graph_branches, incidents, known>>
      BY <1>3 DEF CreateInGit, Goto
    <2>2. op'.at = "commit" /\ op'.branch = b /\ op'.new = op.new /\ op'.task = op.task
      BY <1>1, <2>1 DEF Operation
    <2>3. local'[b] = h /\ h \in Commits
      BY <1>1, <2>1, TypeParts, HeadType DEF IInv
    <2>4. h = Pulled(local[Main], b) /\ Pullable(local[Main], b) /\ local[Main] # NoCommit
      BY <1>1, <1>3 DEF created_head, created_diverges, IInv, Cloned
    <2>5. h # NoCommit /\ Accepted(h, b) /\ Past(remote[b]) \subseteq Past(h)
      <3>1. CASE local[Main] \in Past(remote[b])
        <4>1. h = remote[b] /\ remote[b] # NoCommit
          BY <2>4, <3>1 DEF Pulled, Past
        <4> QED
          BY <4>1, <1>1, StepFacts DEF Accepted, Past
      <3>2. CASE local[Main] \notin Past(remote[b])
        <4>1. h = local[Main] /\ remote[b] \in Past(h)
          BY <2>4, <3>2 DEF Pulled, Pullable
        <4> QED
          BY <4>1, <2>4, StepFacts DEF Accepted, Past
      <3> QED
        BY <3>1, <3>2
    <2>6. remote'[b] = h /\ h \in history'[h]
      BY <1>1, <2>1, <2>3, <2>5, StepFacts, PushedForward
    <2> HIDE DEF h, b
    <2>7. Staged'
      BY <1>1, <2>1, <2>2, <2>3, <2>5, <2>6 DEF IInv, Staged, Past
    <2>8. Recording'
      <3> SUFFICES ASSUME Smooth, b \in graph_branches, commit[b] # NoCommit
                   PROVE  \/ commit[b] \in Past(h)
                          \/ b # Main /\ commit[b] \in Past(commit[Main])
        BY <2>1, <2>2, <2>3 DEF Recording, Past, Smooth
      <3> QED
        BY <1>1, <2>5 DEF IInv, Recorded
    <2> QED
      BY <2>7, <2>8
  <1> QED
    BY <1>2, <1>3

LEMMA PullStaged ==
  ASSUME IInv, [Next]_vars, Pull
  PROVE  Staged' /\ Recording'
  <1> DEFINE b == op.branch
             h == local[b]
  <1>1. op \in Operation /\ op.at = "pull" /\ b \in Branches /\ op.task # "merge"
    BY Running DEF Pull, At, Operation, IInv, Staged
  <1>2. CASE ~ (Pullable(h, b) /\ Pulled(h, b) # h)
    BY <1>2, NotRecording DEF Pull, Abort, Idle
  <1>3. CASE Pullable(h, b) /\ Pulled(h, b) # h
    <2>1. /\ op' = [op EXCEPT !.at = "commit"] /\ local' = [local EXCEPT ![b] = Pulled(h, b)]
          /\ UNCHANGED <<history, remote, commit, graph_branches, incidents, known>>
      BY <1>3 DEF Pull, Goto
    <2>2. op'.at = "commit" /\ op'.branch = b /\ op'.new = op.new /\ op'.task = op.task
      BY <1>1, <2>1 DEF Operation
    <2>3. Pulled(h, b) = remote[b] /\ remote[b] # NoCommit
      BY <1>3 DEF Pulled, Past
    <2>4. local'[b] = remote[b]
      BY <1>1, <2>1, <2>3, TypeParts DEF IInv
    <2> HIDE DEF b
    <2>5. Staged'
      BY <1>1, <2>1, <2>2, <2>3, <2>4, StepFacts DEF IInv, Staged, Past
    <2>6. Recording'
      <3> SUFFICES ASSUME Smooth, b \in graph_branches, commit[b] # NoCommit
                   PROVE  \/ commit[b] \in Past(remote[b])
                          \/ b # Main /\ commit[b] \in Past(commit[Main])
        BY <2>1, <2>2, <2>4 DEF Recording, Past, Smooth
      <3> QED
        BY <1>1 DEF IInv, Recorded
    <2> QED
      BY <2>5, <2>6
  <1> QED
    BY <1>2, <1>3

LEMMA MergeStaged ==
  ASSUME IInv, [Next]_vars, GitRepositoryMerge
  PROVE  Staged' /\ Recording'
  <1>1. MergedFiles /\ op = Idle /\ UNCHANGED <<commit, graph_branches, known>>
    BY StepFacts, GitRepositoryMergeType DEF GitRepositoryMerge, Free
  <1>2. CASE UNCHANGED <<history, local, op, incidents>>
    BY <1>1, <1>2, NotRecording DEF Idle
  <1>3. CASE /\ op' = [Idle EXCEPT !.at = "commit", !.task = "merge", !.handled = op'.handled]
             /\ local'[Main] # NoCommit
             /\ Smooth' => commit[Main] \in history'[local'[Main]]
    <2>1. op'.at = "commit" /\ op'.task = "merge" /\ op'.branch = Main /\ op'.new = {}
      BY <1>3 DEF Idle
    <2> QED
      BY <1>1, <1>3, <2>1 DEF Staged, Recording, Past
  <1> QED
    BY <1>1, <1>2, <1>3 DEF MergedFiles

LEMMA NextStaged == IInv /\ [Next]_vars => Staged' /\ Recording'
  <1> SUFFICES ASSUME IInv, [Next]_vars PROVE Staged' /\ Recording'
    OBVIOUS
  <1> DEFINE G == Staged' /\ Recording'
  <1>1. ASSUME NEW b \in Branch, BranchCreate(b) PROVE G
    <2>1. \A d \in graph_branches' : \/ d \in graph_branches /\ commit'[d] = commit[d]
                                     \/ d # Main /\ commit'[d] = commit[Main]
      <3>1. /\ commit' = [commit EXCEPT ![b] = commit[Main]] /\ graph_branches' = graph_branches \cup {b}
            /\ b # Main /\ b \notin graph_branches
        BY <1>1, NamesAssumption DEF BranchCreate, InGraph
      <3>2. commit \in [Branches -> Commits] /\ graph_branches \subseteq Branches /\ b \in Branches
        BY TypeParts, MainIsBranch DEF IInv
      <3> QED
        BY <3>1, <3>2
    <2> QED
      BY <1>1, <2>1, StagedKept DEF BranchCreate
  <1>2. ASSUME NEW b \in Branch, BranchDelete(b) PROVE G
    <2>1. ~ Smooth' /\ incidents \subseteq incidents'
      BY <1>2 DEF BranchDelete, Smooth
    <2> QED
      BY <1>2, <2>1, StagedKept DEF BranchDelete
  <1>3. ASSUME (\E b \in Branches : RemoteCommit(b)) \/ MessageFails \/ UNCHANGED vars
        PROVE  G
    <2>1. UNCHANGED <<op, local, known, commit, graph_branches>> /\ incidents \subseteq incidents'
      BY <1>3 DEF RemoteCommit, MessageFails, vars
    <2> QED
      BY <2>1, StagedKept
  <1>14. ASSUME NEW b \in Branch, BranchMerge(b) PROVE G
    <2>1. UNCHANGED <<op, local, known>>
      BY <1>14 DEF BranchMerge
    <2> QED
      BY <1>14, <2>1, StagedKept, BranchMergeSees
  <1>4. ASSUME op' = Idle PROVE G
    BY <1>4, NotRecording DEF Idle
  <1>5. ASSUME StartSync \/ StartAdd PROVE G
    <2>1. op'.at \in {"clone", "fetch"} /\ op'.new = {} /\ op'.task \in {"new", "sync"}
      BY <1>5 DEF StartSync, StartAdd, Idle
    <2> QED
      BY <2>1, NotRecording
  <1>6. ASSUME GitBranchCreate PROVE G
    BY <1>4, <1>6 DEF GitBranchCreate, Free
  <1>7. ASSUME Fetch PROVE G
    <2>1. op \in Operation /\ op.task # "merge"
      BY <1>7, Running DEF Fetch, At, IInv, Staged
    <2>2. op'.at = "next" /\ op'.new = new_branches /\ op'.task = op.task
      BY <1>7, <2>1 DEF Fetch, Operation
    <2>3. new_branches \subseteq known'
      BY <1>7 DEF Fetch, new_branches
    <2> QED
      BY <2>1, <2>2, <2>3, NotRecording
  <1>8. ASSUME NextBranch PROVE G
    <2>1. op \in Operation /\ op.task # "merge" /\ op.new \subseteq known /\ known' = known
      BY <1>8, Running DEF NextBranch, At, IInv, Staged
    <2>2. \/ op' = Idle
          \/ /\ op'.at \in {"graph", "pull"} /\ op'.new \subseteq op.new /\ op'.task = op.task
             /\ op'.at = "graph" => op'.branch \in op.new
      BY <1>8, <2>1 DEF NextBranch, Operation
    <2> QED
      BY <1>4, <2>1, <2>2, NotRecording
  <1>9. ASSUME CreateInGraph PROVE G
    <2>1. op \in Operation /\ op.task # "merge" /\ op.new \subseteq known /\ op.branch \in known
      BY <1>9, Running DEF CreateInGraph, At, IInv, Staged
    <2>2. op'.at = "git" /\ op'.new = op.new /\ op'.task = op.task /\ op'.branch = op.branch
          /\ known' = known
      BY <1>9, <2>1 DEF CreateInGraph, Goto, Operation
    <2> QED
      BY <2>1, <2>2, NotRecording
  <1>10. ASSUME UpdateCommit PROVE G
    <2>1. op \in Operation /\ op.new \subseteq known /\ (op.task = "merge" => op.branch = Main)
      BY <1>10, Running DEF UpdateCommit, At, IInv, Staged
    <2>2. \/ op' = Idle
          \/ /\ op'.at = (IF op.task = "merge" THEN "push" ELSE "import") /\ op'.new = op.new
             /\ op'.task = op.task /\ op'.branch = op.branch /\ known' = known
      BY <1>10, <2>1 DEF UpdateCommit, Goto, Abort, Operation
    <2> QED
      BY <1>4, <2>1, <2>2, NotRecording
  <1>11. ASSUME Import PROVE G
    <2>1. op \in Operation /\ op.new \subseteq known /\ op.task # "merge"
      BY <1>11, Running DEF Import, At, IInv, Staged
    <2>2. \/ op' = Idle
          \/ op'.at \in {"fetch", "next"} /\ op'.new = op.new /\ op'.task # "merge" /\ known' = known
      BY <1>11, <2>1 DEF Import, Abort, Operation
    <2> QED
      BY <1>4, <2>1, <2>2, NotRecording
  <1>12. ASSUME Push \/ Fail PROVE G
    BY <1>4, <1>12 DEF Push, Fail, Abort
  <1> HIDE DEF G
  <1>13. G
    BY <1>1, <1>2, <1>3, <1>5, <1>6, <1>7, <1>8, <1>9, <1>10, <1>11, <1>12, <1>14, CloneStaged,
       CreateInGitStaged, PullStaged, MergeStaged DEF Next, Step, G
  <1> QED
    BY <1>13 DEF G

LEMMA NextCommits == IInv /\ [Next]_vars => GraphCommitPublished' /\ Recorded'
  <1> SUFFICES ASSUME IInv, [Next]_vars PROVE GraphCommitPublished' /\ Recorded'
    OBVIOUS
  <1> DEFINE G == GraphCommitPublished' /\ Recorded'
  <1>1. ASSUME NEW b \in Branch, BranchCreate(b) PROVE G
    <2>1. b \notin graph_branches /\ InGraph(b) /\ op' = op
          /\ UNCHANGED <<history, remote, local, incidents>>
      BY <1>1 DEF BranchCreate
    <2> QED
      BY <2>1, InGraphCommits
  <1>2. ASSUME CreateInGraph PROVE G
    <2>1. op \in Operation /\ op.at = "graph"
      BY <1>2, Running DEF CreateInGraph, At, IInv
    <2>2. op'.at = "git" /\ UNCHANGED <<history, remote, local, incidents>>
      BY <1>2, <2>1 DEF CreateInGraph, Goto, Operation
    <2>3. CASE op.branch \in graph_branches
      BY <1>2, <2>1, <2>2, <2>3, CommitsKept DEF CreateInGraph
    <2>4. CASE op.branch \notin graph_branches
      <3>1. op.branch \in Branch /\ InGraph(op.branch)
        BY <1>2, <2>1, <2>4, StepFacts DEF CreateInGraph, Operation, Branches
      <3> QED
        BY <2>1, <2>2, <2>4, <3>1, InGraphCommits
    <2> QED
      BY <2>3, <2>4
  <1>3. ASSUME (\E b \in Branches : RemoteCommit(b)) \/ MessageFails \/ UNCHANGED vars
        PROVE  G
    <2>1. UNCHANGED <<op, local, commit, graph_branches>> /\ incidents \subseteq incidents'
      BY <1>3 DEF RemoteCommit, MessageFails, vars
    <2> QED
      BY <2>1, CommitsKept
  <1>4. ASSUME UNCHANGED <<commit, graph_branches>>, incidents \subseteq incidents', op.at # "push"
        PROVE  G
    BY <1>4, CommitsKept
  <1>5. ASSUME StartSync \/ StartAdd \/ GitBranchCreate \/ GitRepositoryMerge PROVE G
    <2>1. op.at = "idle" /\ UNCHANGED <<commit, graph_branches>>
      <3>1. op = Idle /\ UNCHANGED <<commit, graph_branches>>
        BY <1>5 DEF StartSync, StartAdd, GitBranchCreate, GitRepositoryMerge, Free
      <3> QED
        BY <3>1 DEF Idle
    <2>2. incidents \subseteq incidents'
      <3>1. CASE GitRepositoryMerge
        BY <3>1, StepFacts, GitRepositoryMergeType DEF MergedFiles
      <3>2. CASE StartSync \/ StartAdd \/ GitBranchCreate
        BY <3>2 DEF StartSync, StartAdd, GitBranchCreate
      <3> QED
        BY <1>5, <3>1, <3>2
    <2> QED
      BY <1>4, <2>1, <2>2
  <1>6. ASSUME Clone \/ Fetch \/ NextBranch \/ CreateInGit \/ Pull \/ Import \/ Fail PROVE G
    <2>1. op.at # "push" /\ UNCHANGED <<commit, graph_branches>> /\ incidents \subseteq incidents'
      BY <1>6 DEF Clone, Fetch, NextBranch, CreateInGit, Pull, Import, Fail, At
    <2> QED
      BY <1>4, <2>1
  <1> HIDE DEF G
  <1>7. G
    BY <1>1, <1>2, <1>3, <1>5, <1>6, BranchDeleteCommits, BranchMergeCommits, UpdateCommitCommits, PushCommits
       DEF Next, Step, G
  <1> QED
    BY <1>7 DEF G

(* Steps that change no recorded commit and no branch of the graph. *)
LEMMA FollowedKept ==
  ASSUME IInv, [Next]_vars, UNCHANGED <<commit, own, graph_branches>>, incidents \subseteq incidents'
  PROVE  Followed'
  <1> SUFFICES ASSUME Smooth', NEW b \in graph_branches \ own, b # Main, commit[b] # NoCommit
               PROVE  commit[b] \in Past(commit[Main])'
    BY DEF Followed
  <1>1. commit[b] \in Past(commit[Main])
    BY DEF IInv, Followed, Smooth
  <1>2. Past(commit[Main])' = Past(commit[Main])
    BY StepFacts DEF Past
  <1> QED
    BY <1>1, <1>2

LEMMA InGraphFollowed ==
  ASSUME IInv, [Next]_vars, NEW b \in Branch, InGraph(b), UNCHANGED <<history, incidents>>
  PROVE  Followed'
  <1>1. /\ graph_branches' = graph_branches \cup {b} /\ own' = own \ {b} /\ commit'[b] = commit[Main]
        /\ \A d \in Branches \ {b} : commit'[d] = commit[d]
        /\ commit'[Main] = commit[Main] /\ b # Main
    BY StepFacts, TypeParts, NamesAssumption, MainIsBranch DEF InGraph
  <1> SUFFICES ASSUME Smooth, NEW d \in (graph_branches \cup {b}) \ (own \ {b}), d # Main,
                      commit'[d] # NoCommit
               PROVE  commit'[d] \in Past(commit[Main])
    BY <1>1 DEF Followed, Smooth, Past
  <1>2. CASE d = b
    BY <1>1, <1>2, StepFacts DEF Past
  <1>3. CASE d # b
    <2>1. d \in graph_branches \ own /\ commit'[d] = commit[d]
      BY <1>1, <1>3, StepFacts
    <2> QED
      BY <2>1 DEF IInv, Followed
  <1> QED
    BY <1>2, <1>3

LEMMA UpdateCommitFollowed ==
  ASSUME IInv, [Next]_vars, UpdateCommit
  PROVE  Followed'
  <1> DEFINE b == op.branch
  <1>1. op \in Operation /\ b \in Branches /\ op.at = "commit"
    BY Running DEF UpdateCommit, At, Operation, IInv
  <1>2. UNCHANGED <<history, graph_branches, incidents>>
    BY DEF UpdateCommit
  <1>3. CASE b \notin graph_branches
    BY <1>2, <1>3, FollowedKept DEF UpdateCommit
  <1>4. CASE b \in graph_branches
    <2>1. /\ commit' = [commit EXCEPT ![b] = local[b]]
          /\ own' = IF commit[b] = local[b] THEN own ELSE own \cup {b}
      BY <1>4 DEF UpdateCommit
    <2>2. commit'[b] = local[b] /\ \A d \in Branches \ {b} : commit'[d] = commit[d]
      BY <1>1, <2>1, TypeParts DEF IInv
    <2>3. \A d \in graph_branches \ own' : /\ d \in graph_branches \ own
                                           /\ d # Main => commit'[d] = commit[d]
      BY <2>1, <2>2, StepFacts
    <2> SUFFICES ASSUME Smooth, NEW d \in graph_branches \ own', d # Main, commit'[d] # NoCommit
                 PROVE  commit'[d] \in Past(commit'[Main])
      BY <1>2 DEF Followed, Smooth, Past
    <2>4. commit'[d] = commit[d] /\ commit[d] \in Past(commit[Main])
      BY <2>3 DEF IInv, Followed
    <2>5. Past(commit[Main]) \subseteq Past(commit'[Main])
      <3>1. CASE b # Main
        BY <2>2, <3>1, StepFacts
      <3>2. CASE b = Main
        <4>1. commit'[Main] = local[Main] /\ local[Main] # NoCommit
          BY <1>1, <2>2, <3>2 DEF IInv, Staged
        <4>2. commit[Main] = NoCommit \/ commit[Main] \in Past(local[Main])
          BY <1>1, <1>4, <3>2 DEF IInv, Recording
        <4> QED
          BY <4>1, <4>2, StepFacts DEF Past
      <3> QED
        BY <3>1, <3>2
    <2> QED
      BY <2>4, <2>5
  <1> QED
    BY <1>3, <1>4

LEMMA NextFollowed == IInv /\ [Next]_vars => Followed'
  <1> SUFFICES ASSUME IInv, [Next]_vars PROVE Followed'
    OBVIOUS
  <1>1. ASSUME NEW b \in Branch, BranchCreate(b) PROVE Followed'
    BY <1>1, InGraphFollowed DEF BranchCreate
  <1>2. ASSUME CreateInGraph PROVE Followed'
    <2>1. UNCHANGED <<history, incidents>>
      BY <1>2 DEF CreateInGraph
    <2>2. CASE op.branch \in graph_branches
      BY <1>2, <2>1, <2>2, FollowedKept DEF CreateInGraph
    <2>3. CASE op.branch \notin graph_branches
      <3>1. op \in Operation
        BY <1>2, Running DEF CreateInGraph, At, IInv
      <3>2. op.branch \in Branch /\ InGraph(op.branch)
        BY <1>2, <2>3, <3>1, StepFacts DEF CreateInGraph, Operation, Branches
      <3> QED
        BY <2>1, <3>2, InGraphFollowed
    <2> QED
      BY <2>2, <2>3
  <1>3. ASSUME NEW b \in Branch, BranchMerge(b) PROVE Followed'
    <2>1. /\ UNCHANGED <<history, graph_branches, own>> /\ (Smooth' <=> Smooth)
          /\ commit'[Main] = commit[Main]
          /\ \A d \in graph_branches : commit'[d] = commit[d] \/ (d # Main /\ commit'[d] = commit[Main])
      BY <1>3, BranchMergeSees, StepFacts
    <2> SUFFICES ASSUME Smooth, NEW d \in graph_branches \ own, d # Main, commit'[d] # NoCommit
                 PROVE  commit'[d] \in Past(commit[Main])
      BY <2>1 DEF Followed, Past
    <2>2. CASE commit'[d] = commit[Main]
      BY <2>2, StepFacts DEF Past
    <2>3. CASE commit'[d] = commit[d]
      BY <2>3 DEF IInv, Followed
    <2> QED
      BY <2>1, <2>2, <2>3
  <1>4. ASSUME NEW b \in Branch, BranchDelete(b) PROVE Followed'
    BY <1>4 DEF BranchDelete, Followed, Smooth
  <1>5. ASSUME UNCHANGED <<commit, own, graph_branches>>, incidents \subseteq incidents' PROVE Followed'
    BY <1>5, FollowedKept
  <1>6. ASSUME (\E b \in Branches : RemoteCommit(b)) \/ MessageFails \/ UNCHANGED vars \/ StartSync \/ StartAdd
               \/ GitBranchCreate
        PROVE  Followed'
    <2>1. UNCHANGED <<commit, own, graph_branches>> /\ incidents \subseteq incidents'
      BY <1>6 DEF RemoteCommit, MessageFails, vars, StartSync, StartAdd, GitBranchCreate
    <2> QED
      BY <1>5, <2>1
  <1>7. ASSUME GitRepositoryMerge PROVE Followed'
    <2>1. incidents \subseteq incidents'
      BY <1>7, StepFacts, GitRepositoryMergeType DEF MergedFiles
    <2> QED
      BY <1>5, <1>7, <2>1 DEF GitRepositoryMerge
  <1>8. ASSUME Clone \/ Fetch \/ NextBranch \/ CreateInGit \/ Pull \/ Import \/ Push \/ Fail PROVE Followed'
    <2>1. UNCHANGED <<commit, own, graph_branches>> /\ incidents \subseteq incidents'
      BY <1>8 DEF Clone, Fetch, NextBranch, CreateInGit, Pull, Import, Push, Fail
    <2> QED
      BY <1>5, <2>1
  <1> QED
    BY <1>1, <1>2, <1>3, <1>4, <1>6, <1>7, <1>8, UpdateCommitFollowed DEF Next, Step

LEMMA InitIInv == Init => IInv
  <1> SUFFICES ASSUME Init PROVE IInv
    OBVIOUS
  <1>1. Ancestry
    BY DEF Init, Ancestry
  <1>2. Staged /\ Recording
    BY DEF Init, Staged, Recording, Idle
  <1>3. GraphCommitPublished /\ Recorded
    BY MainIsBranch DEF Init, GraphCommitPublished, Recorded, NoHeads
  <1>4. Followed
    BY DEF Init, Followed
  <1> QED
    BY <1>1, <1>2, <1>3, <1>4, InitType, InitCloned DEF IInv

LEMMA NextIInv == IInv /\ [Next]_vars => IInv'
  BY NextType, NextCloned, NextStaged, NextCommits, NextFollowed DEF IInv

(* TypeOK: heads and recorded commits are commits that exist, and an         *)
(* operation is always at one of the steps of the handlers.                  *)
THEOREM TypeCorrect == Spec => []TypeOK
  <1>1. IInv => TypeOK
    BY DEF IInv
  <1> QED
    BY <1>1, InitIInv, NextIInv, PTL DEF Spec

(* GraphCommitPublished: whatever is pushed, created, merged, deleted, lost  *)
(* or tried again, the commit that update_commit_value stored for a branch   *)
(* can be fetched from the remote, or is about to be pushed by a merge, until *)
(* a push was refused.                                                       *)
THEOREM GraphCommitPublishedAlways == Spec => []GraphCommitPublished
  <1>1. IInv => GraphCommitPublished
    BY DEF IInv
  <1> QED
    BY <1>1, InitIInv, NextIInv, PTL DEF Spec

ForwardStep ==
  \A b \in graph_branches \cap graph_branches' :
    \/ commit[b] = NoCommit
    \/ b # Main /\ commit[b] \in Past(commit[Main])
    \/ commit[b] \in history'[commit'[b]]
    \/ ~ Smooth'

LEMMA NextForwardStep == IInv /\ [Next]_vars => ForwardStep
  <1> SUFFICES ASSUME IInv, [Next]_vars, NEW b \in graph_branches, b \in graph_branches',
                      commit[b] # NoCommit, Smooth'
               PROVE  (b # Main /\ commit[b] \in Past(commit[Main])) \/ commit[b] \in history'[commit'[b]]
    BY DEF ForwardStep
  <1>1. b \in Branches /\ commit[b] \in history'[commit[b]]
    BY StepFacts
  <1>2. ASSUME NEW d \in Branch, d \notin graph_branches, InGraph(d) PROVE commit'[b] = commit[b]
    BY <1>1, <1>2, TypeParts DEF InGraph, IInv
  <1>3. ASSUME NEW d \in Branch, BranchDelete(d) PROVE FALSE
    BY <1>3 DEF BranchDelete, Smooth
  <1>4. ASSUME UpdateCommit
        PROVE  \/ b # Main /\ commit[b] \in Past(commit[Main])
               \/ commit[b] \in history'[commit'[b]]
    <2>1. op.at = "commit" /\ UNCHANGED <<history, local, incidents>>
      BY <1>4 DEF UpdateCommit, At
    <2>2. CASE op.branch # b \/ commit' = commit
      BY <1>1, <1>4, <2>2, TypeParts DEF UpdateCommit, IInv
    <2>3. CASE op.branch = b /\ commit' # commit
      <3>1. commit'[b] = local[b] /\ local[b] # NoCommit
        BY <1>1, <1>4, <2>1, <2>3, TypeParts DEF UpdateCommit, IInv, Staged
      <3>2. commit[b] \in Past(local[b]) \/ (b # Main /\ commit[b] \in Past(commit[Main]))
        BY <2>1, <2>3 DEF IInv, Recording, Smooth
      <3> QED
        BY <2>1, <3>1, <3>2 DEF Past
    <2> QED
      BY <2>2, <2>3
  <1>5. ASSUME CreateInGraph PROVE commit'[b] = commit[b]
    <2>1. op.branch \notin graph_branches => op.branch \in Branch
      BY <1>5, Running, StepFacts DEF CreateInGraph, At, Operation, Branches
    <2> QED
      BY <1>2, <1>5, <2>1 DEF CreateInGraph
  <1>6. ASSUME NEW d \in Branch, BranchCreate(d) PROVE commit'[b] = commit[b]
    BY <1>2, <1>6 DEF BranchCreate
  <1>7. ASSUME commit' = commit PROVE commit[b] \in history'[commit'[b]]
    BY <1>1, <1>7
  <1>8. ASSUME NEW d \in Branch, BranchMerge(d)
        PROVE  \/ b # Main /\ commit[b] \in Past(commit[Main])
               \/ commit[b] \in history'[commit'[b]]
    <2>1. CASE commit'[b] = commit[b]
      BY <1>1, <2>1
    <2>2. CASE commit'[b] # commit[b]
      <3>1. b = d /\ b # Main /\ b \notin own /\ Smooth
        BY <1>1, <1>8, <2>2, BranchMergeSees
      <3> QED
        BY <3>1 DEF IInv, Followed
    <2> QED
      BY <2>1, <2>2
  <1> QED
    BY <1>1, <1>3, <1>4, <1>5, <1>6, <1>7, <1>8 DEF Next, Step, vars, RemoteCommit, StartSync,
       StartAdd, GitBranchCreate, GitRepositoryMerge, MessageFails, Clone, Fetch, NextBranch,
       CreateInGit, Pull, Import, Push, Fail

(* GraphCommitForward: as long as nothing has gone wrong but that a merge    *)
(* let a branch see main's newer commit, clone, pull, creation and merge     *)
(* replace the commit of a branch only by one that contains it.              *)
THEOREM GraphCommitForwardAlways == Spec => GraphCommitForward
  <1>1. Spec => [][ForwardStep]_vars
    BY NextForwardStep, InitIInv, NextIInv, PTL DEF Spec
  <1>2. ForwardStep <=> \A b \in graph_branches \cap graph_branches' :
                          \/ commit[b] = NoCommit
                          \/ b # Main /\ commit[b] \in Past(commit[Main])
                          \/ commit[b] \in history'[commit'[b]]
                          \/ ~ incidents' \subseteq {"overtaken"}
    BY DEF ForwardStep, Smooth
  <1> QED
    BY <1>1, <1>2, PTL DEF GraphCommitForward
=============================================================================
