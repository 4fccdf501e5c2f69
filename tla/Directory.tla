------------------------------ MODULE Directory ------------------------------
(***************************************************************************)
(* The system calls of sysfile.c that look up, add and remove names, over  *)
(* the directory layer of fs.c.  A process works through a stack of        *)
(* operations; a step runs from one acquisition of an inode's sleep lock   *)
(* to the next, or is the part of iput under icache.lock.  A directory is  *)
(* the function its entries define, a path the sequence of its elements.   *)
(* In-memory and disk inode are one (Inodes.tla separates them).           *)
(***************************************************************************)
EXTENDS Integers, Sequences, FiniteSets, SequencesExt, FiniteSetsExt

CONSTANTS
  Procs, None,
  NINODES,     \* sb.ninodes - 1
  Names,       \* names besides "." and ".."
  Paths,       \* the paths of the calls; an absolute one starts with "/"
  LinkPaths,   \* the second paths of link
  Chains,      \* the directories that exist at first, each in the one before
  MaxCalls     \* bound on the system calls begun

ASSUME DirectoryAssumption ==
  /\ NINODES \in Nat \ {0} /\ MaxCalls \in Nat /\ None \notin Procs
  /\ \A path \in Paths \cup LinkPaths : ToSet(path) \subseteq Names \cup {".", "..", "/"}
  /\ \A chain \in Chains : Len(chain) < NINODES /\ ToSet(chain) \subseteq Names

Inums == 1..NINODES
ROOTINO == 1
Elements == Names \cup {".", ".."}

VARIABLES
  inode,       \* type ("none", "dir", "file" or "dev"), nlink, and the entries
  ref, lock,   \* ip->ref, and the process that holds ip->lock
  cwd, ofile,  \* the current directory, and the inode of the one open file or 0
  todo,        \* what is left of each process's system call
  res,         \* the inode that namex or create returned, or 0, and namex's name
  calls,       \* system calls begun
  lost,        \* names of each inode that went with a directory freed with entries
  astray,      \* the processes whose call followed the ".." of a removed directory
  panic        \* None, or the process that has panicked and where

vars == <<inode, ref, lock, cwd, ofile, todo, res, calls, lost, astray, panic>>

NoEntries == [n \in Elements |-> 0]

\* The disk that mkfs makes, after a mkdir for each name of the chain.
Disk(chain) ==
  [i \in Inums |->
    IF i > Len(chain) + 1 THEN [type |-> "none", nlink |-> 0, ents |-> NoEntries]
    ELSE [type |-> "dir", nlink |-> IF i <= Len(chain) THEN 2 ELSE 1,
          ents |-> [n \in Elements |->
                      IF n = "." THEN i ELSE IF n = ".." THEN Max({ROOTINO, i - 1})
                      ELSE IF i <= Len(chain) /\ n = chain[i] THEN i + 1 ELSE 0]]]

Init ==
  /\ \E chain \in Chains : inode = Disk(chain)
  /\ ref = [i \in Inums |-> IF i = ROOTINO THEN Cardinality(Procs) ELSE 0]
  /\ lock = [i \in Inums |-> None]
  /\ cwd = [p \in Procs |-> ROOTINO] /\ ofile = [p \in Procs |-> 0]
  /\ todo = [p \in Procs |-> <<>>] /\ res = [p \in Procs |-> <<0, None>>]
  /\ calls = 0 /\ lost = [i \in Inums |-> 0]
  /\ astray = {} /\ panic = None

Doing(p, op) == todo[p] # <<>> /\ Head(todo[p])[1] = op /\ panic = None
Arg(p, n) == Head(todo[p])[n + 1]
\* The operation at the top is done; ops come before the rest.
Then(p, ops) == todo' = [todo EXCEPT ![p] = ops \o Tail(@)]
Return(p, i, n) == res' = [res EXCEPT ![p] = <<i, n>>]
Unlocked(i) == lock[i] = None
\* ilock(i) succeeds; NoType is its panic.
ilock(i) == Unlocked(i) /\ inode[i].type # "none"
Panic(p, where) ==
  panic' = <<p, where>> /\ UNCHANGED <<inode, ref, lock, cwd, ofile, todo, res, calls, lost, astray>>
\* iget of inode i, or idup.
iget(i) == ref' = [ref EXCEPT ![i] = @ + 1]
IsDir(i) == inode[i].type = "dir"
dirlookup(dp, name) == inode[dp].ents[name]
dirlink(dp, name, i) == [inode EXCEPT ![dp].ents[name] = i]
isdirempty(dp) == \A n \in Names : inode[dp].ents[n] = 0
Entries(i) == {e \in Inums \X Names : inode[e[1]].ents[e[2]] = i}
\* A removed directory still has its "..", which is no link to the inode it names.
LeadsAstray(dp, name) == name = ".." /\ dp # ROOTINO /\ Entries(dp) = {}

-----------------------------------------------------------------------------
(* fs.c *)

\* Mutant: the last link is enough.
Unused_linked(i) == inode[i].nlink = 0

\* Nobody needs inode i but the caller of iput.
Unused(i) == inode[i].nlink = 0 /\ ref[i] = 1

\* iput: test and free under ip->lock, later the count under icache.lock.
iput(p) ==
  /\ Doing(p, "iput") /\ Unlocked(Arg(p, 1))
  /\ inode' = IF Unused(Arg(p, 1))
              THEN [inode EXCEPT ![Arg(p, 1)] = [type |-> "none", nlink |-> 0, ents |-> NoEntries]]
              ELSE inode
  /\ lost' = IF Unused(Arg(p, 1))
             THEN [i \in Inums |-> lost[i] + Cardinality({n \in Names : inode[Arg(p, 1)].ents[n] = i})]
             ELSE lost
  /\ Then(p, <<<<"deref", Arg(p, 1)>>>>)
  /\ UNCHANGED <<ref, lock, cwd, ofile, res, astray, panic, calls>>

deref(p) ==
  /\ Doing(p, "deref")
  /\ ref' = [ref EXCEPT ![Arg(p, 1)] = @ - 1]
  /\ Then(p, <<>>)
  /\ UNCHANGED <<inode, lock, cwd, ofile, res, astray, panic, calls, lost>>

\* The operation a path lookup begins with.
namex(p, path, parent) ==
  IF Head(path) = "/" THEN <<"namex", ROOTINO, Tail(path), parent>>
                      ELSE <<"namex", cwd[p], path, parent>>

\* The end of namex, or one turn of its loop: refs are the counts, and strays the
\* processes astray, when op, with rest below it, is at the top of p's stack.
Turn(p, op, rest, refs, strays) ==
  LET ip == op[2]  path == op[3]  parent == op[4]
      next == IF IsDir(ip) /\ path # <<>> THEN dirlookup(ip, Head(path)) ELSE 0
      Goto(ops) == todo' = [todo EXCEPT ![p] = ops \o rest] IN
  /\ \/ /\ path = <<>>
        /\ Return(p, IF parent THEN 0 ELSE ip, None)
        /\ Goto(IF parent THEN <<<<"iput", ip>>>> ELSE <<>>)
        /\ ref' = refs /\ astray' = strays
     \/ /\ path # <<>> /\ ilock(ip) /\ IsDir(ip) /\ parent /\ Len(path) = 1
        /\ Return(p, ip, Head(path)) /\ Goto(<<>>)
        /\ ref' = refs /\ astray' = strays
     \/ /\ path # <<>> /\ ilock(ip) /\ ~(IsDir(ip) /\ parent /\ Len(path) = 1) /\ next = 0
        /\ Return(p, 0, None) /\ Goto(<<<<"iput", ip>>>>)
        /\ ref' = refs /\ astray' = strays
     \/ /\ path # <<>> /\ ilock(ip) /\ ~(parent /\ Len(path) = 1) /\ next # 0
        /\ Goto(<<<<"iput", ip>>, <<"namex", next, Tail(path), parent>>>>)
        /\ ref' = [refs EXCEPT ![next] = @ + 1]
        /\ astray' = IF LeadsAstray(ip, Head(path)) THEN strays \cup {p} ELSE strays
        /\ UNCHANGED res
  /\ UNCHANGED <<inode, lock, cwd, ofile, lost, panic>>

Namex(p) ==
  /\ Doing(p, "namex")
  /\ Turn(p, Head(todo[p]), Tail(todo[p]), ref, astray)
  /\ UNCHANGED calls

\* iunlock at the end of a step that could not do it itself.
iunlock(p) ==
  /\ Doing(p, "iunlock")
  /\ lock' = [lock EXCEPT ![Arg(p, 1)] = None]
  /\ Then(p, <<<<"iput", Arg(p, 1)>>>>)
  /\ UNCHANGED <<inode, ref, cwd, ofile, res, astray, panic, calls, lost>>

\* A call starts with a path.  Its first turn is part of the step: the reference
\* it takes before is to an inode that stays referenced anyway.
Start(p, path, parent, ops) ==
  LET op == namex(p, path, parent) IN
  /\ todo[p] = <<>> /\ panic = None /\ calls < MaxCalls /\ calls' = calls + 1
  /\ Turn(p, op, ops, [ref EXCEPT ![op[2]] = @ + 1], astray \ {p})

-----------------------------------------------------------------------------
(* sysfile.c *)

\* Mutant: dp stays locked when there is no such entry.
Locked_always(p, dp, found) == [lock EXCEPT ![dp] = p]

\* dp stays locked if the entry was found.
Locked(p, dp, found) == [lock EXCEPT ![dp] = IF found THEN p ELSE None]

\* sys_unlink after nameiparent: lock dp and find the entry.
Unlink(p) ==
  LET dp == res[p][1]  name == res[p][2]
      ip == IF dp = 0 \/ name \in {".", ".."} THEN 0 ELSE dirlookup(dp, name) IN
  /\ Doing(p, "unlink")
  /\ dp # 0 => ilock(dp)
  /\ Return(p, 0, None)
  /\ Then(p, IF dp = 0 THEN <<>> ELSE IF ip = 0 THEN <<<<"iput", dp>>>>
             ELSE <<<<"erase", dp, ip, name>>>>)
  /\ IF ip = 0 THEN UNCHANGED ref ELSE iget(ip)
  /\ lock' = IF dp = 0 THEN lock ELSE Locked(p, dp, ip # 0)
  /\ UNCHANGED <<inode, cwd, ofile, astray, panic, calls, lost>>

\* Mutant: files are taken for directories.
Erased_any(dp, ip, name) == [dirlink(dp, name, 0) EXCEPT ![dp].nlink = @ - 1]

\* The directory without the entry; the ".." of a removed directory is a link less.
Erased(dp, ip, name) ==
  [dirlink(dp, name, 0) EXCEPT ![dp].nlink = IF IsDir(ip) THEN @ - 1 ELSE @]

\* Both inodes are locked; ip stays so while dp is put.
Erase(p) ==
  LET dp == Arg(p, 1)  ip == Arg(p, 2)  name == Arg(p, 3) IN
  /\ Doing(p, "erase") /\ ilock(ip)
  /\ IF inode[ip].nlink < 1 THEN Panic(p, "unlink")
     ELSE /\ IF IsDir(ip) /\ ~isdirempty(ip)
             THEN /\ Then(p, <<<<"iput", ip>>, <<"iunlock", dp>>>>)
                  /\ UNCHANGED <<inode, lock>>
             ELSE /\ inode' = Erased(dp, ip, name)
                  /\ lock' = [lock EXCEPT ![ip] = p, ![dp] = None]
                  /\ Then(p, <<<<"iput", dp>>, <<"unlinked", ip>>>>)
          /\ UNCHANGED <<ref, cwd, ofile, res, astray, panic, calls, lost>>

Unlinked(p) ==
  /\ Doing(p, "unlinked")
  /\ inode' = [inode EXCEPT ![Arg(p, 1)].nlink = @ - 1]
  /\ lock' = [lock EXCEPT ![Arg(p, 1)] = None]
  /\ Then(p, <<<<"iput", Arg(p, 1)>>>>)
  /\ UNCHANGED <<ref, cwd, ofile, res, astray, panic, calls, lost>>

\* Mutant: directories may have several names.
Linkable_any(ip) == TRUE

Linkable(ip) == ~IsDir(ip)

\* sys_link after namei: the count goes up before the entry exists.
Link(p, new) ==
  LET ip == res[p][1] IN
  /\ Doing(p, "link")
  /\ Return(p, 0, None)
  /\ IF ip = 0
     THEN Then(p, <<>>) /\ UNCHANGED <<inode, ref>>
     ELSE /\ ilock(ip)
          /\ IF ~Linkable(ip)
             THEN Then(p, <<<<"iput", ip>>>>) /\ UNCHANGED <<inode, ref>>
             ELSE LET op == namex(p, new, TRUE) IN
                  /\ inode' = [inode EXCEPT ![ip].nlink = @ + 1]
                  /\ iget(op[2])
                  /\ Then(p, <<op, <<"enter", ip>>>>)
  /\ UNCHANGED <<lock, cwd, ofile, astray, panic, calls, lost>>

\* Mutant: a failure does not take the link back.
Bad_kept(ip) == <<<<"iput", ip>>>>

Bad(ip) == <<<<"bad", ip>>>>

\* sys_link after nameiparent; dirlink puts an inode it finds while dp is locked.
Enter(p) ==
  LET dp == res[p][1]  name == res[p][2]  ip == Arg(p, 1)
      old == IF dp = 0 THEN 0 ELSE dirlookup(dp, name) IN
  /\ Doing(p, "enter")
  /\ dp # 0 => ilock(dp)
  /\ Return(p, 0, None)
  /\ Then(p, IF dp = 0 THEN Bad(ip)
             ELSE IF old = 0 THEN <<<<"iput", dp>>, <<"iput", ip>>>>
             ELSE <<<<"iput", old>>, <<"iunlock", dp>>>> \o Bad(ip))
  /\ inode' = IF dp # 0 /\ old = 0 THEN dirlink(dp, name, ip) ELSE inode
  /\ IF old = 0 THEN UNCHANGED <<lock, ref>> ELSE iget(old) /\ lock' = [lock EXCEPT ![dp] = p]
  /\ UNCHANGED <<cwd, ofile, astray, panic, calls, lost>>

bad(p) ==
  /\ Doing(p, "bad") /\ ilock(Arg(p, 1))
  /\ inode' = [inode EXCEPT ![Arg(p, 1)].nlink = @ - 1]
  /\ Then(p, <<<<"iput", Arg(p, 1)>>>>)
  /\ UNCHANGED <<ref, lock, cwd, ofile, res, astray, panic, calls, lost>>

\* create after nameiparent: find the inode or allocate one.
Create(p, type) ==
  LET dp == res[p][1]  name == res[p][2]
      free == {i \in Inums : inode[i].type = "none"}
      old == IF dp = 0 THEN 0 ELSE dirlookup(dp, name) IN
  /\ Doing(p, "create")
  /\ dp # 0 => ilock(dp)
  /\ \/ /\ dp = 0
        /\ Then(p, <<>>) /\ Return(p, 0, None)
        /\ UNCHANGED <<inode, ref, lock, cwd, ofile, astray, panic, calls, lost>>
     \/ /\ old # 0
        /\ iget(old) /\ Return(p, 0, None)
        /\ astray' = IF LeadsAstray(dp, name) THEN astray \cup {p} ELSE astray
        /\ Then(p, <<<<"iput", dp>>, <<"found", old, type>>>>)
        /\ UNCHANGED <<inode, lock, cwd, ofile, panic, calls, lost>>
     \/ dp # 0 /\ old = 0 /\ free = {} /\ Panic(p, "ialloc")
     \/ /\ dp # 0 /\ old = 0 /\ free # {}
        /\ inode' = [inode EXCEPT ![Min(free)].type = type]
        /\ iget(Min(free)) /\ Return(p, 0, None)
        /\ lock' = [lock EXCEPT ![dp] = p]
        /\ Then(p, <<<<"fill", dp, Min(free), name>>>>)
        /\ UNCHANGED <<cwd, ofile, astray, panic, calls, lost>>

\* The end of sys_open, which keeps the inode unless filealloc or fdalloc fails
\* (the process has a file open), and of sys_mkdir and sys_mknod.
Kept(p, opens) == opens /\ ofile[p] = 0
\* Mutant: an inode that gets no descriptor is forgotten.
Rest_forgets(p, opens, ip) == <<>>

Rest(p, opens, ip) == IF Kept(p, opens) THEN <<>> ELSE <<<<"iput", ip>>>>

Opened(p, opens, ip) ==
  /\ ofile' = IF Kept(p, opens) THEN [ofile EXCEPT ![p] = ip] ELSE ofile
  /\ todo' = [todo EXCEPT ![p] = Rest(p, opens, ip)]

\* create finds the name: only a file will do for a file.
Found(p) ==
  LET ip == Arg(p, 1) IN
  /\ Doing(p, "found") /\ ilock(ip)
  /\ Opened(p, Arg(p, 2) = "file" /\ inode[ip].type = "file", ip)
  /\ UNCHANGED <<inode, ref, lock, cwd, res, astray, panic, calls, lost>>

\* The new inode, its entry in dp and its own; ip stays locked while dp is put.
Fill(p) ==
  LET dp == Arg(p, 1)  ip == Arg(p, 2)  name == Arg(p, 3)
      linked == [dirlink(dp, name, ip) EXCEPT ![ip].nlink = 1] IN
  /\ Doing(p, "fill") /\ ilock(ip)
  /\ inode' = IF IsDir(ip)
              THEN [linked EXCEPT ![ip].ents["."] = ip, ![ip].ents[".."] = dp, ![dp].nlink = @ + 1]
              ELSE linked
  /\ lock' = [lock EXCEPT ![ip] = p, ![dp] = None]
  /\ Then(p, <<<<"iput", dp>>, <<"made", ip>>>>)
  /\ UNCHANGED <<ref, cwd, ofile, res, astray, panic, calls, lost>>

\* create returns the new inode, locked.
Made(p) ==
  /\ Doing(p, "made")
  /\ lock' = [lock EXCEPT ![Arg(p, 1)] = None]
  /\ Opened(p, inode[Arg(p, 1)].type = "file", Arg(p, 1))
  /\ UNCHANGED <<inode, ref, cwd, res, astray, panic, calls, lost>>

\* sys_open after namei: a directory can only be opened for reading.
Open(p, omode) ==
  LET ip == res[p][1] IN
  /\ Doing(p, "open")
  /\ IF ip = 0 THEN Then(p, <<>>) /\ UNCHANGED ofile
     ELSE /\ ilock(ip)
          /\ Opened(p, ~(IsDir(ip) /\ omode # "O_RDONLY"), ip)
  /\ Return(p, 0, None)
  /\ UNCHANGED <<inode, ref, lock, cwd, astray, panic, calls, lost>>

Chdir(p) ==
  LET ip == res[p][1] IN
  /\ Doing(p, "chdir")
  /\ IF ip = 0 THEN Then(p, <<>>) /\ UNCHANGED cwd
     ELSE /\ ilock(ip)
          /\ Then(p, <<<<"iput", IF IsDir(ip) THEN cwd[p] ELSE ip>>>>)
          /\ cwd' = IF IsDir(ip) THEN [cwd EXCEPT ![p] = ip] ELSE cwd
  /\ Return(p, 0, None)
  /\ UNCHANGED <<inode, ref, lock, ofile, astray, panic, calls, lost>>

\* fileclose of the last descriptor.
Close(p) ==
  /\ todo[p] = <<>> /\ panic = None /\ calls < MaxCalls /\ calls' = calls + 1 /\ ofile[p] # 0
  /\ ofile' = [ofile EXCEPT ![p] = 0]
  /\ todo' = [todo EXCEPT ![p] = <<<<"iput", ofile[p]>>>>]
  /\ UNCHANGED <<inode, ref, lock, cwd, res, lost, astray, panic>>

sys_unlink(p, path) == Start(p, path, TRUE, <<<<"unlink">>>>)
sys_link(p, path) == Start(p, path, FALSE, <<<<"link">>>>)
sys_chdir(p, path) == Start(p, path, FALSE, <<<<"chdir">>>>)
sys_open(p, path) == Start(p, path, FALSE, <<<<"open">>>>)
\* sys_open with O_CREATE, sys_mkdir or sys_mknod.
sys_create(p, path) == Start(p, path, TRUE, <<<<"create">>>>)

\* The inode whose lock p needs for its next step, or 0.
Wants(p) ==
  IF todo[p] = <<>> THEN 0
  ELSE LET op == Head(todo[p]) IN
       IF op[1] \in {"iput", "found", "bad"} \/ (op[1] = "namex" /\ op[3] # <<>>) THEN op[2]
       ELSE IF op[1] \in {"erase", "fill"} THEN op[3]
       ELSE IF op[1] \in {"unlink", "enter", "create", "link", "open", "chdir"} THEN res[p][1] ELSE 0

\* ilock, which every operation but iput calls, panics on an inode without type.
NoType(p) ==
  /\ Wants(p) # 0 /\ ~Doing(p, "iput") /\ panic = None
  /\ Unlocked(Wants(p)) /\ inode[Wants(p)].type = "none"
  /\ Panic(p, "ilock")

\* The arguments a call needs after its first lookup are chosen then.
Step(p) ==
  \/ NoType(p) \/ Namex(p) \/ iput(p) \/ deref(p) \/ iunlock(p)
  \/ Unlink(p) \/ Erase(p) \/ Unlinked(p)
  \/ (\E new \in LinkPaths : Link(p, new)) \/ Enter(p) \/ bad(p)
  \/ (\E type \in {"file", "dir", "dev"} : Create(p, type)) \/ Found(p) \/ Fill(p) \/ Made(p)
  \/ (\E omode \in {"O_RDONLY", "O_RDWR"} : Open(p, omode)) \/ Chdir(p)

Syscall(p) ==
  \/ Close(p)
  \/ \E path \in Paths :
       \/ sys_unlink(p, path) \/ sys_link(p, path) \/ sys_chdir(p, path)
       \/ sys_open(p, path) \/ sys_create(p, path)

Next == \E p \in Procs : Step(p) \/ Syscall(p)

Spec == Init /\ [][Next]_vars

-----------------------------------------------------------------------------
\* The inodes an operation has a reference to.
Pointers(op) ==
  IF op[1] \in {"erase", "fill"} THEN <<op[2], op[3]>>
  ELSE IF op[1] \in {"namex", "iput", "deref", "iunlock", "unlinked", "enter", "bad", "found", "made"}
  THEN <<op[2]>> ELSE <<>>

\* The variables of p that point to inodes: where they are, and the inode.
Held(p) ==
  {<<0, 1, cwd[p]>>, <<0, 2, ofile[p]>>, <<0, 3, res[p][1]>>}
  \cup UNION {{<<k, m, Pointers(todo[p][k])[m]>> : m \in DOMAIN Pointers(todo[p][k])} :
               k \in DOMAIN todo[p]}

\* Types of the inodes, locks, current directories and open files.
DirectoryTypeOK ==
  /\ inode \in [Inums -> [type : {"none", "dir", "file", "dev"}, nlink : Nat,
                         ents : [Elements -> 0..NINODES]]]
  /\ ref \in [Inums -> Nat] /\ lock \in [Inums -> Procs \cup {None}]
  /\ cwd \in [Procs -> Inums] /\ ofile \in [Procs -> 0..NINODES]

(* ip->ref is the number of pointers to the inode: current directories,     *)
(* open files, and the local variables of the calls in progress, on every   *)
(* error path of sysfile.c too.                                             *)
RefsCounted ==
  LET held == UNION {{p} \X Held(p) : p \in Procs}
  IN  \A i \in Inums : ref[i] = Cardinality({h \in held : h[2][3] = i})

\* The names of inode i, its subdirectories' "..", and the root's own link.
Links(i) ==
  Cardinality(Entries(i)) + lost[i] + (IF i = ROOTINO THEN 1 ELSE 0)
  + Cardinality({n \in Names : \E d \in Inums : IsDir(d) /\ inode[i].ents[n] = d})

(* nlink never falls below the links an inode has, since it is raised       *)
(* before and lowered after the entry, and when no call is in progress, as  *)
(* in every state the log commits, it is their number: each failure took    *)
(* its link back.  Names in a directory freed with entries stay counted.    *)
LinksCounted ==
  \A i \in Inums :
    /\ inode[i].nlink >= Links(i)
    /\ (\A p \in Procs : todo[p] = <<>>) => inode[i].nlink = Links(i)

(* The two counts that decide when an inode is freed are right, whatever     *)
(* calls overlap and fail.                                                   *)
CountsAgree == DirectoryTypeOK /\ RefsCounted /\ LinksCounted

(* An inode is freed only when nothing leads to it: every name, open file   *)
(* and current directory refers to an allocated inode, the last two to one  *)
(* of the right type.                                                       *)
InUseAllocated ==
  /\ \A i \in Inums : Entries(i) # {} => inode[i].type # "none"
  /\ \A p \in Procs : IsDir(cwd[p]) /\ (ofile[p] # 0 => inode[ofile[p]].type # "none")

(* Directories form a tree: each has one name at most, in the directory its *)
(* ".." names.                                                              *)
DirectoriesFormTree ==
  \A d \in Inums : IsDir(d) =>
    /\ Cardinality(Entries(d)) <= 1
    /\ \A e \in Entries(d) : inode[d].ents[".."] = e[1]

(* unlink never meets an inode without links, and ilock none without type   *)
(* unless the call followed the ".." of a removed directory (fs.c:646),     *)
(* which is no link and may name an inode that was freed.  Otherwise the    *)
(* only panic is ialloc's "no inodes", when there are none.                 *)
PanicsExplained ==
  panic # None =>
    \/ panic[2] = "ialloc" /\ \A i \in Inums : inode[i].type # "none"
    \/ panic[2] = "ilock" /\ panic[1] \in astray

(* What the names make up is a tree of allocated inodes, in every state      *)
(* between the steps of overlapping calls.                                   *)
TreeSound == InUseAllocated /\ DirectoriesFormTree /\ PanicsExplained

(* Locks are taken downwards: processes that wait for each other's inode    *)
(* locks include one that waits in iput, which locks an inode that the      *)
(* caller only drops, while it holds another (create and unlink keep the    *)
(* child locked while they put the directory).                              *)
CyclesOnlyInIput ==
  \A S \in SUBSET Procs \ {{}} :
    \E p \in S :
      \/ Wants(p) = 0
      \/ lock[Wants(p)] \notin S
      \/ Doing(p, "iput") /\ \E i \in Inums \ {Wants(p)} : lock[i] = p
=============================================================================
