------------------------------ MODULE FileTools ------------------------------
(***************************************************************************)
(* The tools of components/tool/file, on a directory of their own for each *)
(* session.  The target of a call is the path it names, the second object  *)
(* the destination of a copy or a move.                                    *)
(***************************************************************************)
EXTENDS ToolSteps

fileReadTools == {"file_read"}
fileWriteTools == {"file_write", "file_delete", "file_copy", "file_move"}

\* The directory of the session, and a path below it.
SessionDir(p) == SessionFromContext(p)
ResolvePath(p, what) ==
    SessionDir(p) \o ValidateRelativePath(p, what) \o ResolveSymlinkSafe(p, what)

\* The path of a call that is to be executed, which was found valid before: now the
\* session's directory and those above the path are made.
ResolvePathCreating(p, what, seen) ==
    SessionDir(p) \o ValidateRelativePath(p, what) \o ResolveCreating(p, what, seen)

\* Every use of a session makes its directory young again.
TouchSession == Ask("touch the session")

\* A look at a path that creates nothing and follows no symbolic link: what is
\* missing is no error.
StatReadOnly(p, o, what) == ResolveSymlinkSafe(p, what) \o Read(o)

file_read(p, seen) ==
    ValidateStruct(p) \o Check(p, "line range") \o ResolvePath(p, "path")
        \o Check(p, "directory") \o Read("target") \o MustExist(seen, "target")
        \o Check(p, "binary") \o TouchSession \o Answer("data")

\* The preview of a write is a diff with what is there.
WritePreview(p) == StatReadOnly(p, "target", "path") \o Answer("preview")

\* The target is looked at before the confirmation is asked for; only then are
\* the directories above it made, and the target looked at again.
file_write(p, seen) ==
    ValidateStruct(p) \o Check(p, "too large") \o SessionDir(p)
        \o ValidateRelativePath(p, "path")
        \o When(p.dryRun, WritePreview(p))
        \o StatReadOnly(p, "target", "path") \o Check(p, "directory")
        \o RequireConfirmationForActionCtx(p)
        \o ResolvePathCreating(p, "path", seen) \o Check(p, "directory or symlink")
        \o TouchSession \o WriteFile \o Answer("done")

DeletePreview(p) == Ask("walk") \o Answer("preview")

file_delete(p, seen) ==
    ValidateStruct(p) \o Check(p, "session root") \o ResolvePath(p, "path")
        \o Read("target") \o MustExist(seen, "target")
        \o When(p.dryRun, DeletePreview(p))
        \o RequireConfirmationForActionCtx(p) \o TouchSession
        \o RemoveContents(p) \o Answer("done")

\* The preview looks at the paths as the transfer does, but for the kinds of
\* source and destination.
TransferPreview(p, seen) ==
    ValidateRelativePath(p, "source") \o ValidateRelativePath(p, "destination")
        \o StatReadOnly(p, "target", "source") \o MustExist(seen, "target")
        \o Check(p, "same path") \o Check(p, "inside the source")
        \o StatReadOnly(p, "copy", "destination") \o Ask("walk") \o Answer("preview")

TransferPaths(p, seen) ==
    ResolvePath(p, "source") \o ValidateRelativePath(p, "destination")
        \o StatReadOnly(p, "copy", "destination")
        \o Check(p, "same path") \o Check(p, "inside the source")
        \o Read("target") \o MustExist(seen, "target")
        \o Check(p, "destination is a symlink") \o Check(p, "file and directory")

\* What a copy and a move have in common, up to the confirmation and the making
\* of the directories above the destination.
FileTransfer(p, seen) ==
    ValidateStruct(p) \o Check(p, "same name") \o SessionDir(p)
        \o When(p.dryRun, TransferPreview(p, seen))
        \o TransferPaths(p, seen) \o RequireConfirmationForActionCtx(p)
        \o ResolvePathCreating(p, "destination", seen) \o TouchSession

file_copy(p, seen) == FileTransfer(p, seen) \o CopyContents(p, seen) \o Answer("done")
file_move(p, seen) == FileTransfer(p, seen) \o MoveContents(p, seen) \o Answer("done")

\* The health check makes and removes a directory that no call names.
file_check(p) ==
    Check(p, "no working directory") \o Check(p, "working directory")
        \o Try("make and remove a directory") \o Answer("data")

\* The configuration, whose root must be a directory of its own, and the tools.
file_new(p) ==
    Check(p, "configuration") \o Check(p, "working directory") \o Check(p, "tool") \o Answer("data")

FileSteps(t, p, seen) ==
    CASE t = "file_read" -> file_read(p, seen)
      [] t = "file_write" -> file_write(p, seen)
      [] t = "file_delete" -> file_delete(p, seen)
      [] t = "file_copy" -> file_copy(p, seen)
      [] t = "file_move" -> file_move(p, seen)
      [] t = "file_check" -> file_check(p)
      [] t = "file_new" -> file_new(p)

FileModes(t) ==
    CASE t = "file_delete" -> {"file", "directory"}
      [] t = "file_copy" -> {"file"} \cup Directories
      [] t = "file_move" -> {"rename", "file"} \cup Directories
      [] OTHER -> {"plain"}
=============================================================================
