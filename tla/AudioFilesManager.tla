------------------------- MODULE AudioFilesManager -------------------------
(***************************************************************************)
(* File ids.  QueryFiles cuts them off the paths of the files, and a play  *)
(* puts one behind the wav directory again.  A path is the sequence of its *)
(* names and slashes, so that no two names stand next to each other.       *)
(***************************************************************************)
EXTENDS Integers, Sequences, FiniteSets

CONSTANTS Names,   \* the names of files and directories
          Slash,   \* the separator
          Files    \* the regular files below the wav directory, as relative paths

Parts == Names \cup {Slash}

\* The iterator puts one slash between two names.
ASSUME FilesAssumption ==
    /\ Slash \notin Names
    /\ Files \subseteq Seq(Parts)
    /\ \A file \in Files :
          /\ Len(file) % 2 = 1
          /\ \A i \in 1..Len(file) : file[i] = Slash <=> i % 2 = 0

BeginsWithSlash(path) == path # <<>> /\ path[1] = Slash
EndsWithSlash(path)   == path # <<>> /\ path[Len(path)] = Slash

\* boost::filesystem's left / right: a separator comes in between unless there is one.
Join(left, right) ==
    IF left = <<>> \/ EndsWithSlash(left) \/ BeginsWithSlash(right)
    THEN left \o right
    ELSE left \o <<Slash>> \o right

\* The path that the directory iterator yields for a file.
Entry(wav_dir, file) == Join(wav_dir, file)

\* Faulty variant: the slash behind the directory is cut off, too, whether or not
\* wav_dir ends with it already.
CutBehindSlash(path, wav_dir) == SubSeq(path, Len(wav_dir) + 2, Len(path))

CutWavDir(path, wav_dir) == SubSeq(path, Len(wav_dir) + 1, Len(path))

FileId(wav_dir, file) == CutWavDir(Entry(wav_dir, file), wav_dir)

QueryFiles(wav_dir) == {FileId(wav_dir, file) : file \in Files}

\* Where the names are among the first parts of a path.
NamesUpTo(path, last) == {i \in 1..last : path[i] # Slash}

\* boost::filesystem::canonical, without dots and links: the names and their order,
\* each name with its place among them.
Canonical(path) ==
    {<<Cardinality(NamesUpTo(path, i)), path[i]>> : i \in NamesUpTo(path, Len(path))}

\* The files that NewSongRequest finds under an id, at most one.
FilesNamed(wav_dir, file_id) ==
    {file \in Files : Canonical(Join(wav_dir, file_id)) = Canonical(Entry(wav_dir, file))}

=============================================================================
