------------------------------- MODULE Names --------------------------------
(***************************************************************************)
(* The name space of the file system: the inode cache, directories, paths  *)
(* and symbolic links of kernel/fs.c, and the calls of kernel/sysfile.c    *)
(* that use them: open, mkdir, mknod, symlink, link, unlink, chdir, chmod  *)
(* and close.                                                              *)
(*                                                                         *)
(* A section of icache.lock is one step.  So is a section of an inode's    *)
(* sleep lock in which the process waits for nothing else; where it takes  *)
(* another lock or drops a reference inside the section, lock[s] says who  *)
(* has it.  The contents of directories and links are kept per inode       *)
(* number: the block layer below is modelled in FileMap, BufCache and Log, *)
(* and so are the transactions around the calls.                           *)
(***************************************************************************)
EXTENDS Integers, Sequences, FiniteSets, FiniteSetsExt

CONSTANTS
    Procs,
    NINODE,     \* entries of the inode cache
    NInum,      \* inodes on disk; number 1 is the root
    NameSet,    \* the names that occur, without "." and ".."
    MAXPATH,    \* the longest path, in elements
    Images,     \* the states to start from: [dinode, entry, target, cwd, fd]
    Calls,      \* the calls that processes make
    MaxCalls    \* how many calls are made in all

Slots == 1..NINODE
Inums == 1..NInum
ROOTINO == 1
Elements == NameSet \cup {".", ".."}

\* type 0 is a free inode; mode is a set of permissions.
M_ALL == {"M_READ", "M_WRITE"}
Dinodes == [type : {"none", "T_DIR", "T_FILE", "T_DEVICE", "T_SYMLINK"},
            nlink : Int, mode : SUBSET M_ALL]
NoEntries == [e \in Elements |-> 0]
NoPath == [abs |-> TRUE, el |-> <<>>]
NoCall == [op |-> "none"]
NoDinode == [type |-> "none", nlink |-> 0, mode |-> {}]

ASSUME ConstantsAssumption ==
    /\ NINODE \in Nat \ {0} /\ NInum \in Nat \ {0} /\ MaxCalls \in Nat
    /\ \A m \in Images : /\ m.dinode \in [Inums -> Dinodes]
                         /\ m.entry \in [Inums -> [Elements -> 0..NInum]]
                         /\ m.cwd \in [Procs -> Inums] /\ m.fd \in [Procs -> 0..NInum]

VARIABLES
    dinode,     \* the inodes on disk
    entry,      \* entry[i][name]: the inode number in directory i, or 0
    target,     \* target[i]: the path in symbolic link i
    icache,     \* icache[s]: inum, ref, valid, and ino, the copy of the dinode
    lock,       \* lock[s]: the process that has the sleep lock over a step, or 0
    cwd, fd,    \* the current directory and the one descriptor of a process
    pc, call,   \* where a process is, and in which call
    path, npar, name,  \* namex: what is left of the path, nameiparent, the last element
    twice,      \* namei has its first namex under way
    old,        \* namex: the symbolic link it has just put
    ip, held,   \* the slots the locals of a call point to, or 0
    puts,       \* the references the process drops before it goes on at pc
    freeing,    \* where it is in the iput of the first of them
    calls,      \* the number of calls made
    panic,      \* the message of the panic that has stopped the system, or ""
    leak, over  \* history: references namei lost, references namex put twice

disk == <<dinode, entry, target>>
walk == <<path, npar, name, twice, old>>
vars == <<disk, icache, lock, cwd, fd, pc, call, walk, ip, held, puts, freeing, calls,
          panic, leak, over>>

TypeOK ==
    /\ dinode \in [Inums -> Dinodes]
    /\ entry \in [Inums -> [Elements -> 0..NInum]]
    /\ icache \in [Slots -> [inum : 0..NInum, ref : Int, valid : BOOLEAN, ino : Dinodes]]
    /\ lock \in [Slots -> Procs \cup {0}]
    /\ cwd \in [Procs -> Slots]
    /\ {fd, ip, held, old} \subseteq [Procs -> 0..NINODE]
    /\ calls \in 0..MaxCalls

\* What earlier calls have left of image m: entry i of the cache has inode i if a
\* current directory or a descriptor has it; userinit and every chdir since have
\* lost a reference in namei.
Users(f, i) == Cardinality({p \in Procs : f[p] = i})
Lost(m, i) == IF i = ROOTINO THEN 1 ELSE Users(m.cwd, i)
Cached(m, i) ==
    IF i > NInum \/ Users(m.cwd, i) + Users(m.fd, i) + Lost(m, i) = 0
    THEN [inum |-> 0, ref |-> 0, valid |-> FALSE, ino |-> NoDinode]
    ELSE [inum |-> i, ref |-> Users(m.cwd, i) + Users(m.fd, i) + Lost(m, i), valid |-> TRUE,
          ino |-> m.dinode[i]]

Init ==
    /\ \E m \in Images :
          /\ dinode = m.dinode /\ entry = m.entry /\ target = m.target
          /\ icache = [s \in Slots |-> Cached(m, s)]
          /\ cwd = m.cwd /\ fd = m.fd
          /\ leak = [s \in Slots |-> Lost(m, s)]
    /\ lock = [s \in Slots |-> 0]
    /\ pc = [p \in Procs |-> "idle"] /\ call = [p \in Procs |-> NoCall]
    /\ path = [p \in Procs |-> NoPath] /\ npar = [p \in Procs |-> FALSE]
    /\ name = [p \in Procs |-> "."] /\ twice = [p \in Procs |-> FALSE]
    /\ old = [p \in Procs |-> 0]
    /\ ip = [p \in Procs |-> 0] /\ held = [p \in Procs |-> 0]
    /\ puts = [p \in Procs |-> <<>>] /\ freeing = [p \in Procs |-> "no"]
    /\ calls = 0 /\ panic = ""
    /\ over = [s \in Slots |-> 0]

-----------------------------------------------------------------------------
(* The inode cache: iget, ilock, iupdate, iput. *)

Set(f, x, v) == [f EXCEPT ![x] = v]
Inum(s) == icache[s].inum

\* Mutant: an entry counts as free when it is not valid.
FreeInvalid(c) == {s \in Slots : c[s].ref = 0 \/ ~c[s].valid}

Free(c) == {s \in Slots : c[s].ref = 0}

\* The entry iget returns for inode i: the one that has it, or the first free one;
\* 0 is the panic "iget: no inodes".
Found(c, i) == {s \in Slots : c[s].ref > 0 /\ c[s].inum = i}
Slot(c, i) ==
    IF Found(c, i) # {} THEN Min(Found(c, i)) ELSE IF Free(c) # {} THEN Min(Free(c)) ELSE 0

\* The cache after iget(i).  What the copy holds is nothing until it is valid.
Got(c, i) ==
    LET s == Slot(c, i)
    IN  IF s = 0 THEN c
        ELSE IF s \in Found(c, i) THEN [c EXCEPT ![s].ref = @ + 1]
        ELSE [c EXCEPT ![s] = [inum |-> i, ref |-> 1, valid |-> FALSE, ino |-> NoDinode]]

\* p gets inode i, in cache c, and goes on at l.
Iget(p, c, i, l) ==
    /\ icache' = Got(c, i)
    /\ ip' = Set(ip, p, Slot(c, i))
    /\ panic' = IF Slot(c, i) = 0 THEN "iget: no inodes" ELSE ""
    /\ pc' = Set(pc, p, l)

\* What ilock finds in slot s; the cache once it has read it; and once iupdate has
\* written the inode back.
Inode(s) == IF icache[s].valid THEN icache[s].ino ELSE dinode[Inum(s)]
Updated(s, new) == [icache EXCEPT ![s].valid = TRUE, ![s].ino = new]
Loaded(s) == Updated(s, Inode(s))

\* p is at l and has dropped what it had to; the inode it is about to lock, s, can
\* be locked without waiting and without a panic.
At(p, l) == pc[p] = l /\ puts[p] = <<>> /\ panic = ""
Bad(s) == icache[s].ref < 1 \/ Inode(s).type = "none"
Lockable(s) == s # 0 /\ lock[s] = 0 /\ ~Bad(s)

\* namei and open test for a link that namex has not followed.
Unfollowed(p) == ip[p] # 0 /\ Inode(ip[p]).type = "T_SYMLINK"

\* The call returns; its locals are gone.
Return(p) ==
    /\ pc' = Set(pc, p, "idle") /\ call' = Set(call, p, NoCall)
    /\ ip' = Set(ip, p, 0) /\ held' = Set(held, p, 0)
    /\ path' = Set(path, p, NoPath) /\ npar' = Set(npar, p, FALSE)
    /\ name' = Set(name, p, ".") /\ twice' = Set(twice, p, FALSE) /\ old' = Set(old, p, 0)

Drop(p, s) == puts' = Set(puts, p, s)

\* Mutants: iput frees whatever loses its last reference, or whatever has no links.
LastReference(s) == icache[s].ref = 1 /\ icache[s].valid
Unlinked(s) == icache[s].valid /\ icache[s].ino.nlink = 0

\* The test of iput for the last reference to an inode without links.
LastOfUnlinked(s) == icache[s].ref = 1 /\ icache[s].valid /\ icache[s].ino.nlink = 0

\* iput: one step, unless the inode is freed.  Then acquiresleep, the truncation and
\* the decrement are steps of their own.
Iput(p) ==
    LET s == Head(puts[p])
    IN  /\ puts[p] # <<>> /\ panic = ""
        /\ freeing[p] # "trunc"
        /\ IF freeing[p] = "no" /\ LastOfUnlinked(s)
           THEN /\ lock[s] = 0
                /\ lock' = Set(lock, s, p)
                /\ freeing' = Set(freeing, p, "trunc")
                /\ UNCHANGED <<icache, puts>>
           ELSE /\ icache' = [icache EXCEPT ![s].ref = @ - 1]
                /\ puts' = Set(puts, p, Tail(puts[p]))
                /\ freeing' = Set(freeing, p, "no")
                /\ UNCHANGED lock
        /\ UNCHANGED <<disk, cwd, fd, pc, call, walk, ip, held, calls, panic, leak, over>>

\* itrunc, type = 0, iupdate, valid = 0, releasesleep.
IputTrunc(p) ==
    LET s == Head(puts[p])
        i == Inum(s)
    IN  /\ freeing[p] = "trunc" /\ panic = ""
        /\ dinode' = [dinode EXCEPT ![i] = [icache[s].ino EXCEPT !.type = "none"]]
        /\ entry' = Set(entry, i, NoEntries)
        /\ target' = Set(target, i, NoPath)
        /\ icache' = [icache EXCEPT ![s].valid = FALSE, ![s].ino = NoDinode]
        /\ lock' = Set(lock, s, 0)
        /\ freeing' = Set(freeing, p, "drop")
        /\ UNCHANGED <<cwd, fd, pc, call, walk, ip, held, puts, calls, panic, leak, over>>

-----------------------------------------------------------------------------
(* namex and namei.  The path is the sequence of its elements; skipelem    *)
(* takes the first.                                                        *)

\* The calls that create an inode, and its type.
Makes == [creat |-> "T_FILE", mkdir |-> "T_DIR", mknod |-> "T_DEVICE", symlink |-> "T_SYMLINK"]

\* Where a call goes on after its lookup.
AfterWalk(p) ==
    IF call[p].op \in DOMAIN Makes THEN "create"
    ELSE IF call[p].op = "link" /\ held[p] # 0 THEN "link2" ELSE call[p].op

\* namex returns r.
Result(p, r) ==
    /\ ip' = Set(ip, p, r)
    /\ pc' = Set(pc, p, IF twice[p] THEN "namei" ELSE AfterWalk(p))

\* A call starts with a lookup: of the parent, or, through namei, of the path itself.
Start(p, c) ==
    LET parent == c.op \in DOMAIN Makes \cup {"unlink", "noaccess"}
    IN  /\ At(p, "idle") /\ calls < MaxCalls
        /\ calls' = calls + 1
        /\ call' = Set(call, p, c)
        /\ path' = Set(path, p, c.path)
        /\ npar' = Set(npar, p, parent) /\ twice' = Set(twice, p, ~parent)
        /\ pc' = Set(pc, p, "start")
        /\ UNCHANGED <<disk, icache, lock, cwd, fd, name, old, ip, held, puts, freeing,
                       panic, leak, over>>

NamexStart(p) ==
    /\ At(p, "start")
    /\ IF path[p].abs
       THEN Iget(p, icache, ROOTINO, "elem")
       ELSE /\ icache' = [icache EXCEPT ![cwd[p]].ref = @ + 1]   \* idup
            /\ ip' = Set(ip, p, cwd[p])
            /\ pc' = Set(pc, p, "elem")
            /\ UNCHANGED panic
    /\ UNCHANGED <<disk, lock, cwd, fd, call, walk, held, puts, freeing, calls, leak, over>>

\* No element is left.
NamexEnd(p) ==
    /\ At(p, "elem") /\ path[p].el = <<>>
    /\ IF npar[p] THEN Drop(p, <<ip[p]>>) /\ Result(p, 0)
       ELSE Result(p, ip[p]) /\ UNCHANGED puts
    /\ UNCHANGED <<disk, icache, lock, cwd, fd, call, walk, held, freeing, calls, panic,
                   leak, over>>

\* Mutant: namex does not ask for a directory.
SearchableAny(in) == "M_READ" \in in.mode

Searchable(in) == in.type = "T_DIR" /\ "M_READ" \in in.mode

\* The section of the directory's lock.
NamexDir(p) ==
    LET s == ip[p]
        el == Head(path[p].el)
        i == entry[Inum(s)][el]
        readable == Searchable(Inode(s))
        last == npar[p] /\ Len(path[p].el) = 1
    IN  /\ At(p, "elem") /\ path[p].el # <<>> /\ Lockable(s)
        /\ name' = Set(name, p, el)
        /\ path' = [path EXCEPT ![p].el = Tail(@)]
        /\ IF readable /\ last
           THEN icache' = Loaded(s) /\ Result(p, s) /\ UNCHANGED <<puts, panic>>
           ELSE IF readable /\ i # 0
           THEN Iget(p, Loaded(s), i, "next") /\ Drop(p, <<s>>)
           ELSE icache' = Loaded(s) /\ Result(p, 0) /\ Drop(p, <<s>>) /\ UNCHANGED panic
        /\ UNCHANGED <<disk, lock, cwd, fd, call, npar, twice, old, held, freeing, calls,
                       leak, over>>

\* The section of the next inode's lock: is it a symbolic link?
NamexNext(p) ==
    LET s == ip[p]
    IN  /\ At(p, "next") /\ Lockable(s)
        /\ icache' = Loaded(s)
        /\ IF Inode(s).type = "T_SYMLINK"
           THEN /\ Drop(p, <<s>>) /\ ip' = Set(ip, p, 0) /\ old' = Set(old, p, s)
                /\ path' = [path EXCEPT ![p] = [abs |-> target[Inum(s)].abs,
                                                el |-> target[Inum(s)].el \o @.el]]
                /\ pc' = Set(pc, p, "follow")
           ELSE pc' = Set(pc, p, "elem") /\ UNCHANGED <<puts, ip, old, path>>
        /\ UNCHANGED <<disk, lock, cwd, fd, call, npar, name, twice, held, freeing, calls,
                       panic, leak, over>>

\* Too long a path ends the lookup; otherwise namex puts the link once more and
\* starts again with the new path.
NamexFollow(p) ==
    LET s == old[p]
    IN  /\ At(p, "follow")
        /\ old' = Set(old, p, 0)
        /\ IF Len(path[p].el) >= MAXPATH
           THEN Result(p, 0) /\ UNCHANGED <<puts, over>>
           ELSE /\ Drop(p, <<s>>) /\ over' = [over EXCEPT ![s] = @ + 1]
                /\ pc' = Set(pc, p, "start") /\ UNCHANGED ip
        /\ UNCHANGED <<disk, icache, lock, cwd, fd, call, path, npar, name, twice, held,
                       freeing, calls, panic, leak>>

\* namei looks the path up again and forgets the first result.
Namei(p) ==
    /\ At(p, "namei") /\ ~Unfollowed(p)
    /\ leak' = IF ip[p] = 0 THEN leak ELSE [leak EXCEPT ![ip[p]] = @ + 1]
    /\ ip' = Set(ip, p, 0) /\ twice' = Set(twice, p, FALSE)
    /\ path' = Set(path, p, call[p].path)
    /\ pc' = Set(pc, p, "start")
    /\ UNCHANGED <<disk, icache, lock, cwd, fd, call, npar, name, old, held, puts, freeing,
                   calls, panic, over>>

-----------------------------------------------------------------------------
(* create, and the calls that use it: open with O_CREATE, mkdir, mknod,    *)
(* symlink.                                                                *)

\* The lookup has failed.
NotFound(p) ==
    /\ \E l \in {"create", "noaccess", "open", "link", "unlink", "chdir", "chmod"} : At(p, l)
    /\ ip[p] = 0
    /\ Return(p)
    /\ UNCHANGED <<disk, icache, lock, cwd, fd, puts, freeing, calls, panic, leak, over>>

FreeInums == {i \in Inums : dinode[i].type = "none"}

\* create in directory ip: the name is there, or ialloc marks a free inode with the
\* type and the directory stays locked.  "ialloc: no inodes" is a panic.
Create(p) ==
    LET s == ip[p]
        i == entry[Inum(s)][name[p]]
        new == Min(FreeInums)
    IN  /\ At(p, "create") /\ Lockable(s) /\ Inode(s).type = "T_DIR"
        /\ \/ /\ i # 0
              /\ Iget(p, Loaded(s), i, "exists")
              /\ Drop(p, <<s>>)
              /\ UNCHANGED <<dinode, lock, held>>
           \/ /\ i = 0 /\ FreeInums # {}
              /\ dinode' = Set(dinode, new, [type |-> Makes[call[p].op], nlink |-> 0, mode |-> M_ALL])
              /\ Iget(p, Loaded(s), new, "fill")
              /\ lock' = Set(lock, s, p)
              /\ held' = Set(held, p, s)
              /\ UNCHANGED puts
           \/ /\ i = 0 /\ FreeInums = {}
              /\ panic' = "ialloc: no inodes"
              /\ UNCHANGED <<dinode, icache, lock, ip, held, pc, puts>>
        /\ UNCHANGED <<entry, target, cwd, fd, call, walk, freeing, calls, leak, over>>

\* Only open may get what exists, and only a file or a device.
CreateExists(p) ==
    LET s == ip[p]
    IN  /\ At(p, "exists") /\ Lockable(s)
        /\ icache' = Loaded(s)
        /\ IF call[p].op = "creat" /\ Inode(s).type \in {"T_FILE", "T_DEVICE"}
           THEN /\ lock' = Set(lock, s, p) /\ pc' = Set(pc, p, "file")
                /\ UNCHANGED <<call, walk, ip, held, puts>>
           ELSE Drop(p, <<s>>) /\ Return(p) /\ UNCHANGED lock
        /\ UNCHANGED <<disk, cwd, fd, freeing, calls, panic, leak, over>>

\* The new inode, "." and ".." of a directory, and last the entry in the parent.
CreateFill(p) ==
    LET s == ip[p]
        d == held[p]
        isdir == call[p].op = "mkdir"
        new == [Inode(s) EXCEPT !.nlink = 1]
        parent == IF isdir THEN [icache[d].ino EXCEPT !.nlink = @ + 1] ELSE icache[d].ino
        dots == [NoEntries EXCEPT !["."] = Inum(s), ![".."] = Inum(d)]
    IN  /\ At(p, "fill") /\ Lockable(s)
        /\ icache' = [Updated(s, new) EXCEPT ![d].ino = parent]
        /\ dinode' = [dinode EXCEPT ![Inum(s)] = new, ![Inum(d)] = parent]
        /\ entry' = [entry EXCEPT ![Inum(s)] = IF isdir THEN dots ELSE @,
                                  ![Inum(d)][name[p]] = Inum(s)]
        /\ lock' = [lock EXCEPT ![s] = p, ![d] = 0]
        /\ held' = Set(held, p, 0)
        /\ Drop(p, <<d>>)
        /\ pc' = Set(pc, p, IF call[p].op = "creat" THEN "file" ELSE "made")
        /\ UNCHANGED <<target, cwd, fd, call, walk, ip, freeing, calls, panic, leak, over>>

\* sys_mkdir, sys_mknod and sys_symlink after create; the last writes the target.
Made(p) ==
    LET s == ip[p]
    IN  /\ At(p, "made")
        /\ target' = IF call[p].op = "symlink" THEN Set(target, Inum(s), call[p].to) ELSE target
        /\ lock' = Set(lock, s, 0)
        /\ Drop(p, <<s>>)
        /\ Return(p)
        /\ UNCHANGED <<dinode, entry, icache, cwd, fd, freeing, calls, panic, leak, over>>

-----------------------------------------------------------------------------
(* open *)

\* O_NOACCESS: the leaf is looked up in its parent and not followed.
NoAccess(p) ==
    LET s == ip[p]
        i == entry[Inum(s)][name[p]]
    IN  /\ At(p, "noaccess") /\ Lockable(s) /\ ~Unfollowed(p)
        /\ Drop(p, <<s>>)
        /\ IF Inode(s).type = "T_DIR" /\ i # 0
           THEN Iget(p, Loaded(s), i, "open") /\ UNCHANGED <<call, walk, held>>
           ELSE icache' = Loaded(s) /\ Return(p) /\ UNCHANGED panic
        /\ UNCHANGED <<disk, lock, cwd, fd, freeing, calls, leak, over>>

\* ilock of what was found.
Open(p) ==
    /\ At(p, "open") /\ Lockable(ip[p]) /\ ~(call[p].op = "open" /\ Unfollowed(p))
    /\ icache' = Loaded(ip[p])
    /\ lock' = Set(lock, ip[p], p)
    /\ pc' = Set(pc, p, "file")
    /\ UNCHANGED <<disk, cwd, fd, call, walk, ip, held, puts, freeing, calls, panic, leak, over>>

\* The permission check, which neither O_CREATE nor O_NOACCESS makes.
Permitted(p, in) ==
    call[p].op = "open" =>
        call[p].want \subseteq in.mode /\ ~(in.type = "T_DIR" /\ "M_WRITE" \in call[p].want)

\* The descriptor takes over the reference; without one, or without permission, or
\* for a device with a bad major number, open gives everything back.
OpenFile(p) ==
    LET s == ip[p]
    IN  /\ At(p, "file")
        /\ \/ Permitted(p, icache[s].ino) /\ fd[p] = 0 /\ fd' = Set(fd, p, s) /\ UNCHANGED puts
           \/ Drop(p, <<s>>) /\ UNCHANGED fd
        /\ lock' = Set(lock, s, 0)
        /\ Return(p)
        /\ UNCHANGED <<disk, icache, cwd, freeing, calls, panic, leak, over>>

\* fileclose of the last reference to the file.
Close(p) ==
    /\ At(p, "idle") /\ fd[p] # 0
    /\ Drop(p, <<fd[p]>>)
    /\ fd' = Set(fd, p, 0)
    /\ UNCHANGED <<disk, icache, lock, cwd, pc, call, walk, ip, held, freeing, calls, panic,
                   leak, over>>

-----------------------------------------------------------------------------
(* link, unlink, chdir and chmod *)

\* The link count goes up first; then the parent of the new name is looked up.
Link(p) ==
    LET s == ip[p]
        new == [Inode(s) EXCEPT !.nlink = @ + 1]
    IN  /\ At(p, "link") /\ Lockable(s)
        /\ IF Inode(s).type = "T_DIR"
           THEN /\ icache' = Loaded(s) /\ Drop(p, <<s>>) /\ Return(p)
                /\ UNCHANGED dinode
           ELSE /\ icache' = Updated(s, new) /\ dinode' = Set(dinode, Inum(s), new)
                /\ held' = Set(held, p, s) /\ ip' = Set(ip, p, 0)
                /\ path' = Set(path, p, call[p].to) /\ npar' = Set(npar, p, TRUE)
                /\ pc' = Set(pc, p, "start")
                /\ UNCHANGED <<puts, call, name, twice, old>>
        /\ UNCHANGED <<entry, target, lock, cwd, fd, freeing, calls, panic, leak, over>>

\* dirlink into directory ip, unless the name exists.  Then dirlookup has got the
\* inode and dirlink puts it, with the directory locked and so without freeing it.
LinkEntry(p) ==
    LET d == ip[p]
        i == entry[Inum(d)][name[p]]
    IN  /\ At(p, "link2") /\ Lockable(d) /\ Inode(d).type = "T_DIR"
        /\ icache' = Loaded(d)
        /\ IF i = 0
           THEN /\ entry' = [entry EXCEPT ![Inum(d)][name[p]] = Inum(held[p])]
                /\ Drop(p, <<d, held[p]>>)
                /\ Return(p)
                /\ UNCHANGED panic
           ELSE /\ panic' = IF Slot(Loaded(d), i) = 0 THEN "iget: no inodes" ELSE ""
                /\ Drop(p, <<d>>)
                /\ ip' = Set(ip, p, 0) /\ pc' = Set(pc, p, "linkbad")
                /\ UNCHANGED <<entry, call, walk, held>>
        /\ UNCHANGED <<dinode, target, lock, cwd, fd, freeing, calls, leak, over>>

\* The label bad, also when the parent was not found.
LinkBad(p) ==
    LET s == held[p]
        new == [Inode(s) EXCEPT !.nlink = @ - 1]
    IN  /\ At(p, "linkbad") \/ (At(p, "link2") /\ ip[p] = 0)
        /\ Lockable(s)
        /\ icache' = Updated(s, new) /\ dinode' = Set(dinode, Inum(s), new)
        /\ Drop(p, <<s>>)
        /\ Return(p)
        /\ UNCHANGED <<entry, target, lock, cwd, fd, freeing, calls, panic, leak, over>>

\* In directory ip; it stays locked while the entry's inode is locked.
Unlink(p) ==
    LET d == ip[p]
        i == entry[Inum(d)][name[p]]
    IN  /\ At(p, "unlink") /\ Lockable(d) /\ Inode(d).type = "T_DIR"
        /\ IF name[p] \notin {".", ".."} /\ i # 0
           THEN /\ Iget(p, Loaded(d), i, "unlink2")
                /\ lock' = Set(lock, d, p) /\ held' = Set(held, p, d)
                /\ UNCHANGED <<puts, call, walk>>
           ELSE icache' = Loaded(d) /\ Drop(p, <<d>>) /\ Return(p) /\ UNCHANGED <<lock, panic>>
        /\ UNCHANGED <<disk, cwd, fd, freeing, calls, leak, over>>

IsDirEmpty(i) == \A e \in NameSet : entry[i][e] = 0

MayUnlink(s) == Inode(s).type = "T_DIR" => IsDirEmpty(Inum(s))

UnlinkEntry(p) ==
    LET s == ip[p]
        d == held[p]
        parent == IF Inode(s).type = "T_DIR" THEN [icache[d].ino EXCEPT !.nlink = @ - 1]
                  ELSE icache[d].ino
    IN  /\ At(p, "unlink2") /\ Lockable(s) /\ Inode(s).nlink >= 1
        /\ IF MayUnlink(s)
           THEN /\ entry' = [entry EXCEPT ![Inum(d)][name[p]] = 0]
                /\ dinode' = Set(dinode, Inum(d), parent)
                /\ icache' = [Loaded(s) EXCEPT ![d].ino = parent]
                /\ lock' = [lock EXCEPT ![d] = 0, ![s] = p]
                /\ held' = Set(held, p, 0)
                /\ Drop(p, <<d>>)
                /\ pc' = Set(pc, p, "unlink3")
                /\ UNCHANGED <<call, walk, ip>>
           ELSE /\ icache' = Loaded(s)
                /\ lock' = Set(lock, d, 0)
                /\ Drop(p, <<s, d>>)
                /\ Return(p)
                /\ UNCHANGED <<dinode, entry>>
        /\ UNCHANGED <<target, cwd, fd, freeing, calls, panic, leak, over>>

UnlinkCount(p) ==
    LET s == ip[p]
        new == [icache[s].ino EXCEPT !.nlink = @ - 1]
    IN  /\ At(p, "unlink3")
        /\ icache' = Updated(s, new) /\ dinode' = Set(dinode, Inum(s), new)
        /\ lock' = Set(lock, s, 0)
        /\ Drop(p, <<s>>)
        /\ Return(p)
        /\ UNCHANGED <<entry, target, cwd, fd, freeing, calls, panic, leak, over>>

\* Mutant: the old directory is not put.
ReleasedNone(p, s, isdir) == IF isdir THEN <<>> ELSE <<s>>

\* What chdir puts: the old directory, or what is none.
Released(p, s, isdir) == <<IF isdir THEN cwd[p] ELSE s>>

Chdir(p) ==
    LET s == ip[p]
        isdir == Inode(s).type = "T_DIR"
    IN  /\ At(p, "chdir") /\ Lockable(s)
        /\ icache' = Loaded(s)
        /\ Drop(p, Released(p, s, isdir))
        /\ cwd' = IF isdir THEN Set(cwd, p, s) ELSE cwd
        /\ Return(p)
        /\ UNCHANGED <<disk, lock, fd, freeing, calls, panic, leak, over>>

Chmod(p) ==
    LET s == ip[p]
        new == [Inode(s) EXCEPT !.mode = call[p].mode]
    IN  /\ At(p, "chmod") /\ Lockable(s)
        /\ icache' = Updated(s, new) /\ dinode' = Set(dinode, Inum(s), new)
        /\ Drop(p, <<s>>)
        /\ Return(p)
        /\ UNCHANGED <<entry, target, lock, cwd, fd, freeing, calls, panic, leak, over>>

-----------------------------------------------------------------------------
\* The slot p is about to lock.
Wanted(p) ==
    IF pc[p] = "linkbad" \/ (pc[p] = "link2" /\ ip[p] = 0) THEN held[p]
    ELSE IF pc[p] = "elem" /\ path[p].el = <<>> THEN 0
    ELSE IF pc[p] \in {"elem", "next", "create", "exists", "fill", "noaccess", "open", "link",
                       "link2", "unlink", "unlink2", "chdir", "chmod"} THEN ip[p]
    ELSE 0

\* ilock of an entry without references or of an inode without type; dirlookup in
\* what is not a directory; unlink of what has no links.
LockPanic(p) ==
    LET s == Wanted(p)
    IN  /\ puts[p] = <<>> /\ panic = ""
        /\ s # 0 /\ lock[s] = 0
        /\ \/ Bad(s)
           \/ pc[p] \in {"create", "link2", "unlink"} /\ ip[p] = s /\ Inode(s).type # "T_DIR"
           \/ pc[p] = "unlink2" /\ Inode(s).nlink < 1
        /\ panic' = "ilock"
        /\ UNCHANGED <<disk, icache, lock, cwd, fd, pc, call, walk, ip, held, puts, freeing,
                       calls, leak, over>>

\* The entry p has found holds a link.  FoundIsStable says that this takes an entry
\* that was put too often and reused; the run is not followed further.
Reused(p) ==
    /\ At(p, "namei") \/ At(p, "noaccess") \/ (At(p, "open") /\ call[p].op = "open")
    /\ Unfollowed(p)
    /\ panic' = "reused"
    /\ UNCHANGED <<disk, icache, lock, cwd, fd, pc, call, walk, ip, held, puts, freeing,
                   calls, leak, over>>

\* All calls have been made, or the system has panicked.
Stopped ==
    /\ panic # "" \/ (calls = MaxCalls /\ \A p \in Procs : pc[p] = "idle" /\ puts[p] = <<>>)
    /\ UNCHANGED vars

Step(p) ==
    \/ Iput(p) \/ IputTrunc(p)
    \/ NamexStart(p) \/ NamexEnd(p) \/ NamexDir(p) \/ NamexNext(p) \/ NamexFollow(p) \/ Namei(p)
    \/ NotFound(p)
    \/ Create(p) \/ CreateExists(p) \/ CreateFill(p) \/ Made(p)
    \/ NoAccess(p) \/ Open(p) \/ OpenFile(p)
    \/ Link(p) \/ LinkEntry(p) \/ LinkBad(p)
    \/ Unlink(p) \/ UnlinkEntry(p) \/ UnlinkCount(p)
    \/ Chdir(p) \/ Chmod(p)
    \/ LockPanic(p) \/ Reused(p)

Next ==
    \/ \E p \in Procs : Step(p) \/ Close(p) \/ \E c \in Calls : Start(p, c)
    \/ Stopped

Spec == Init /\ [][Next]_vars

-----------------------------------------------------------------------------
(* Properties *)

\* The pointers to entry s: current directories, descriptors, locals, and the
\* references that are about to be dropped.
Pointers(s) ==
    Cardinality({p \in Procs : cwd[p] = s}) + Cardinality({p \in Procs : fd[p] = s})
    + Cardinality({p \in Procs : ip[p] = s}) + Cardinality({p \in Procs : held[p] = s})
    + Cardinality({<<p, k>> \in Procs \X (1..2) : k <= Len(puts[p]) /\ puts[p][k] = s})

\* On every path of every call, the failing ones included, a reference is dropped
\* once for each one taken; the only exceptions are the first result of namei, which
\* is never put, and a followed symbolic link, which namex puts twice.
RefBalance ==
    \A s \in Slots : icache[s].ref = Pointers(s) + leak[s] - over[s]

\* The comment on the inode cache: "ip->ref tracks the number of in-memory pointers to
\* the entry", so an entry that something points to is never taken for a free one.
RefTracksPointers == \A s \in Slots : Pointers(s) <= icache[s].ref

NoLinkFollowed == \A s \in Slots : over[s] = 0

\* The entries that count as links: those of files and directories, and ".." of a
\* directory that is itself still in its parent.
LinkTo(d, e, i) ==
    /\ dinode[d].type = "T_DIR" /\ entry[d][e] = i
    /\ \/ e \in NameSet
       \/ e = ".." /\ d # ROOTINO /\ \E f \in NameSet : entry[i][f] = d

\* As long as no symbolic link has been followed: whatever a directory names is
\* allocated and has at least as many links as there are names of it, at every step
\* of every interleaving of link, unlink and create.  So iput frees nothing that can
\* still be looked up.
NamesCovered ==
    NoLinkFollowed =>
        \A i \in Inums :
            LET names == {<<d, e>> \in Inums \X Elements : LinkTo(d, e, i)}
            IN  names # {} => dinode[i].type # "none" /\ dinode[i].nlink >= Cardinality(names)

\* The comment in iput: "ip->ref == 1 means no other process can have ip locked, so
\* this acquiresleep() won't block (or deadlock)"; it would block with a spin lock held.  It is true as
\* long as no symbolic link has been followed.
IputWontBlock ==
    NoLinkFollowed =>
        \A p \in Procs :
            puts[p] # <<>> /\ freeing[p] = "no" /\ LastOfUnlinked(Head(puts[p]))
                => lock[Head(puts[p])] = 0

\* As long as no symbolic link has been followed, iget never gives an entry of the
\* cache to another inode while a descriptor, a current directory or a call points to it.
PointerStable ==
    [][NoLinkFollowed' =>
          \A s \in Slots : Pointers(s) > 0 => icache'[s].inum = icache[s].inum]_vars

\* What is found without the lock is still so once the lock is held: the parent is a
\* directory, and what a path leads to is not a symbolic link.  The loops of namei and
\* open that chase a link left by namex have nothing to do, as long as no link that
\* namex followed has been put twice.
FoundIsStable ==
    NoLinkFollowed =>
        \A p \in Procs :
            ip[p] # 0 /\ puts[p] = <<>> /\ panic = "" =>
                /\ pc[p] \in {"create", "noaccess", "link2", "unlink"} => Inode(ip[p]).type = "T_DIR"
                /\ pc[p] = "namei" \/ (pc[p] = "open" /\ call[p].op = "open") => ~Unfollowed(p)
=============================================================================
