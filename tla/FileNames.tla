------------------------------- MODULE FileNames -------------------------------
(***************************************************************************)
(* The name of a file on its way (src/storage.c): sanitize_filename makes  *)
(* it plain, staging/ holds the file under the time, a random value and    *)
(* that name, and downloads/ under the time and that name.  A file that is *)
(* sent on keeps its name in staging/ as its name for the next node, which *)
(* does the same again.                                                    *)
(*                                                                         *)
(* A character stands for its class: "a" for letters, digits, ".", "_" and *)
(* "-", which are kept, " " for all that are replaced.  The file system    *)
(* refuses a name that is too long.                                        *)
(***************************************************************************)
EXTENDS Integers, Sequences, SequencesExt

CONSTANTS
    dest_size,    \* of safe_filename
    TimeLength,   \* digits of the time
    RandomLength, \* digits of the random value
    NAME_MAX,     \* of the file system
    MaxLength,    \* bound on the length of the name the browser sends
    MaxNodes      \* bound on the nodes a file passes

\* What is assumed of the constants.
ParametersOK ==
    /\ dest_size \in Nat /\ dest_size > 3
    /\ NAME_MAX \in Nat /\ NAME_MAX < dest_size
    /\ TimeLength \in Nat /\ RandomLength \in Nat
    /\ MaxLength \in Nat /\ MaxNodes \in Nat

Chars == {"a", "/", "\\", " "}
Plain == {"a", "_"}

VARIABLES
    filename,       \* as the request has it
    original_name,  \* of the stage
    staged,         \* name of the file in staging/, or << >>
    committed,      \* name of the file in downloads/, or << >>
    node,           \* the number of nodes the file has come to
    phase

vars == <<filename, original_name, staged, committed, node, phase>>
-----------------------------------------------------------------------------
UploadBin == <<"a", "a", "a">>  \* "upload.bin"
Digits(n) == [i \in 1 .. n |-> "a"]

\* What follows the last c in f, if f has one.
Behind(f, c) ==
    LET last == CHOOSE i \in DOMAIN f : f[i] = c /\ \A j \in i + 1 .. Len(f) : f[j] # c IN
    SubSeq(f, last + 1, Len(f))
Base(f) ==
    CASE Contains(f, "/") -> Behind(f, "/")
      [] ~Contains(f, "/") /\ Contains(f, "\\") -> Behind(f, "\\")
      [] OTHER -> f

Replaced(c) == IF c \in Plain THEN c ELSE "_"

\* What sanitize_filename writes to dest.
Sanitized(f) ==
    LET base == Base(f)
        length == IF Len(base) < dest_size THEN Len(base) ELSE dest_size - 1 IN
    IF length = 0 THEN UploadBin ELSE [i \in 1 .. length |-> Replaced(base[i])]

StagedName(name) == Digits(TimeLength) \o <<"_">> \o Digits(RandomLength) \o <<"_">> \o name

Mut_commits_staged_name == Digits(TimeLength) \o <<"_">> \o staged
CommittedName == Digits(TimeLength) \o <<"_">> \o original_name
-----------------------------------------------------------------------------
\* The browser's name for the file.
named(c) ==
    /\ phase = "naming" /\ Len(filename) < MaxLength
    /\ filename' = Append(filename, c)
    /\ UNCHANGED <<original_name, staged, committed, node, phase>>

\* fopen decides whether the name is too long.
upload_stage_open ==
    /\ phase = "naming" \/ (phase = "sending" /\ node < MaxNodes)
    /\ node' = node + 1
    /\ original_name' = Sanitized(filename)
    /\ LET name == StagedName(Sanitized(filename)) IN
       \/ Len(name) <= NAME_MAX /\ staged' = name /\ phase' = "staged"
       \/ Len(name) > NAME_MAX /\ staged' = << >> /\ phase' = "refused"
    /\ UNCHANGED <<filename, committed>>

\* rename, which would fail for a longer name; see NameIsUsable.
upload_stage_commit ==
    /\ phase = "staged" /\ Len(CommittedName) <= NAME_MAX
    /\ committed' = CommittedName
    /\ staged' = << >>
    /\ phase' = "committed"
    /\ UNCHANGED <<filename, original_name, node>>

\* transfer_send_file: libcurl names the part after the file in staging/.
curl_mime_filedata ==
    /\ phase = "staged"
    /\ filename' = staged
    /\ phase' = "sending"
    /\ UNCHANGED <<original_name, staged, committed, node>>

Init ==
    /\ filename = << >> /\ original_name = << >>
    /\ staged = << >> /\ committed = << >>
    /\ node = 0 /\ phase = "naming"

Next ==
    \/ \E c \in Chars : named(c)
    \/ upload_stage_open \/ upload_stage_commit \/ curl_mime_filedata

Spec == Init /\ [][Next]_vars
-----------------------------------------------------------------------------
(* Properties.                                                             *)

\* A name that reaches a directory is one plain, non-empty name, whatever the
\* browser or the node before sent: paths of either style, nothing, too much.
PlainName ==
    node > 0 => /\ original_name # << >> /\ Len(original_name) < dest_size
                /\ Range(original_name) \subseteq Plain

\* And a file that could be staged is not lost for its name when it is committed,
\* though NAME_MAX cuts in before sanitize_filename does.
NameIsUsable == PlainName /\ (phase = "staged" => Len(CommittedName) <= NAME_MAX)
================================================================================
