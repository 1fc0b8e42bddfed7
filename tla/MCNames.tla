------------------------------- MODULE MCNames ------------------------------
(* A root with a file, a directory and a symbolic link, and the calls made on it. *)
EXTENDS Names

Abs(el) == [abs |-> TRUE, el |-> el]
Rel(el) == [abs |-> FALSE, el |-> el]

Inode0(t, n) == [type |-> t, nlink |-> n, mode |-> M_ALL]

\* /a is a file, /d a directory, /l a link to /d; inode 5 is free.  Process 1 may have
\* /a open (through O_CREATE, which loses no reference), process 2 may be in /d.
SmallImages ==
    { [dinode |-> <<Inode0("T_DIR", 2), Inode0("T_FILE", 1), Inode0("T_DIR", 1),
                    Inode0("T_SYMLINK", 1), NoDinode>>,
       entry |-> <<[NoEntries EXCEPT !["."] = 1, ![".."] = 1, !["a"] = 2, !["d"] = 3, !["l"] = 4],
                   NoEntries,
                   [NoEntries EXCEPT !["."] = 3, ![".."] = 1],
                   NoEntries, NoEntries>>,
       target |-> <<NoPath, NoPath, NoPath, Abs(<<"d">>), NoPath>>,
       cwd |-> <<1, c>>, fd |-> <<f, 0>>] : c \in {1, 3}, f \in {0, 2} }

SomeCalls ==
    { [op |-> "creat", path |-> Abs(<<"d", "a">>)],
      [op |-> "creat", path |-> Rel(<<"a">>)],
      [op |-> "mkdir", path |-> Abs(<<"d", "a">>)],
      [op |-> "mknod", path |-> Abs(<<"a", "d">>)],
      [op |-> "symlink", path |-> Rel(<<"l">>), to |-> Abs(<<"d">>)],
      [op |-> "open", path |-> Abs(<<"a">>), want |-> {"M_READ", "M_WRITE"}],
      [op |-> "open", path |-> Abs(<<"l", "a">>), want |-> {"M_READ"}],
      [op |-> "noaccess", path |-> Abs(<<"l">>)],
      [op |-> "link", path |-> Abs(<<"a">>), to |-> Abs(<<"d", "a">>)],
      [op |-> "unlink", path |-> Abs(<<"a">>)],
      [op |-> "unlink", path |-> Abs(<<"d">>)],
      [op |-> "unlink", path |-> Abs(<<"d", "a">>)],
      [op |-> "chdir", path |-> Abs(<<"d">>)],
      [op |-> "chdir", path |-> Rel(<<"..">>)],
      [op |-> "chmod", path |-> Abs(<<"d">>), mode |-> {}] }
=============================================================================
