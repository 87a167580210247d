----------------------------- MODULE PathNames -----------------------------
(***************************************************************************)
(* From a file's path to its URL and back: what encodeURIComponent makes   *)
(* of a path in the page (webui.c), how http.c takes the request target    *)
(* apart and decodes it, and which names fs.c lets through.                *)
(*                                                                         *)
(* The one variable is a text that grows piece by piece; the properties    *)
(* read it as the path of a file, as a raw request target, and as a native *)
(* file name. Characters are one-letter strings; a byte that no property   *)
(* tells apart is "x".                                                     *)
(***************************************************************************)
EXTENDS Integers, Sequences, SequencesExt

CONSTANTS
  Pieces,      \* the texts that a step appends
  MaxPieces,   \* bound: how many
  PathMax,     \* HF_HTTP_PATH_MAX, for the request target
  Bases        \* receive directories, as the user writes them

VARIABLES text, pieces

vars == <<text, pieces>>

Error == <<"error">>
NUL == "0x00"

-----------------------------------------------------------------------------
(* Texts. *)

Positions(c, s) == {i \in 1 .. Len(s) : s[i] = c}
Has(c, s) == Positions(c, s) # {}
First(c, s) == CHOOSE i \in Positions(c, s) : \A j \in Positions(c, s) : i <= j

\* the text before and after the first c, as strchr finds it
Before(c, s) == IF Has(c, s) THEN SubSeq(s, 1, First(c, s) - 1) ELSE s
After(c, s) == IF Has(c, s) THEN SubSeq(s, First(c, s) + 1, Len(s)) ELSE <<>>

\* what is left of bytes once they are a C string
CString(s) == Before(NUL, s)

-----------------------------------------------------------------------------
(* The page: encodeURIComponent, as the browser defines it. *)

Escape(c) ==
  CASE c = "/" -> <<"%", "2", "F">>
    [] c = "%" -> <<"%", "2", "5">>
    [] c = "?" -> <<"%", "3", "F">>
    [] c = "&" -> <<"%", "2", "6">>
    [] c = "=" -> <<"%", "3", "D">>
    [] c = "\\" -> <<"%", "5", "C">>
    [] OTHER -> <<c>>

EncodeURIComponent(s) == FlattenSeq([i \in 1 .. Len(s) |-> Escape(s[i])])

\* the targets the page asks for; the constant parts are one character each
FilesPrefix == "/api/files/"
FilesPath == "/api/files"

\* updateFileRow, uploadFile: `/api/files/${encodeURIComponent(path)}`
FileLink(path) == <<FilesPrefix>> \o EncodeURIComponent(path)

\* updateFileRow, loadFiles: `/api/files?path=${encodeURIComponent(path)}`
DirLink(path) == <<FilesPath, "?", "path", "=">> \o EncodeURIComponent(path)

-----------------------------------------------------------------------------
(* The server. *)

HexDigits == {"0", "2", "3", "5", "6", "C", "D", "E", "F", "a"}

\* the character of two hexadecimal digits
Byte(hi, lo) ==
  CASE <<hi, lo>> = <<"2", "E">> -> "."
    [] <<hi, lo>> = <<"2", "F">> -> "/"
    [] <<hi, lo>> = <<"2", "5">> -> "%"
    [] <<hi, lo>> = <<"2", "6">> -> "&"
    [] <<hi, lo>> = <<"3", "F">> -> "?"
    [] <<hi, lo>> = <<"3", "D">> -> "="
    [] <<hi, lo>> = <<"5", "C">> -> "\\"
    [] <<hi, lo>> = <<"0", "0">> -> NUL
    [] OTHER -> "x"

\* Mutant: the digits after a percent sign are left in the text.
DecodeNameTwice(s) ==
  LET bytes[i \in 1 .. Len(s) + 1] ==
        IF i > Len(s) THEN <<>>
        ELSE IF s[i] # "%" THEN <<s[i]>> \o bytes[i + 1]
        ELSE IF i + 2 <= Len(s) /\ s[i + 1] \in HexDigits /\ s[i + 2] \in HexDigits
             THEN <<Byte(s[i + 1], s[i + 2])>> \o bytes[i + 1]
             ELSE Error
  IN CString(bytes[1])

\* http_decode_name: the rest is decoded first; an error anywhere is an error
DecodeName(s) ==
  LET bytes[i \in 1 .. Len(s) + 1] ==
        IF i > Len(s) THEN <<>>
        ELSE IF s[i] # "%"
             THEN IF bytes[i + 1] = Error THEN Error ELSE <<s[i]>> \o bytes[i + 1]
        ELSE IF i + 2 <= Len(s) /\ s[i + 1] \in HexDigits /\ s[i + 2] \in HexDigits
             THEN IF bytes[i + 3] = Error THEN Error
                  ELSE <<Byte(s[i + 1], s[i + 2])>> \o bytes[i + 3]
             ELSE Error
  IN IF bytes[1] = Error THEN Error ELSE CString(bytes[1])

\* http_parse_request: the target up to the first question mark, and the rest
TargetPath(target) == Before("?", target)
TargetQuery(target) == After("?", target)

\* http_query_get_value for the key "path", through the entries in order
QueryValue(query) ==
  LET from[n \in 0 .. Len(query)] ==   \* n: what is left of the query
        LET rest == SubSeq(query, Len(query) - n + 1, Len(query))
            entry == Before("&", rest)
        IN IF n = 0 THEN Error
           ELSE IF Before("=", entry) = <<"path">> THEN After("=", entry)
           ELSE IF ~Has("&", rest) THEN Error
           ELSE from[n - First("&", rest)]
  IN from[Len(query)]

\* Mutant: what follows the last slash is not checked.
ValidateRelativePathLax(p) ==
  /\ p # <<>> /\ p[1] # "/" /\ ~Has("\\", p)
  /\ LET ok[n \in 0 .. Len(p)] ==
           LET rest == SubSeq(p, Len(p) - n + 1, Len(p))
           IN \/ n = 0
              \/ ~Has("/", rest)
              \/ /\ Before("/", rest) \notin {<<>>, <<".">>, <<".", ".">>}
                 /\ ok[n - First("/", rest)]
     IN ok[Len(p)]

\* fs_validate_relative_path: the loop over the segments; what follows a last
\* slash is not looked at when it is empty
ValidateRelativePath(p) ==
  /\ p # <<>> /\ p[1] # "/" /\ ~Has("\\", p)
  /\ LET ok[n \in 0 .. Len(p)] ==
           LET rest == SubSeq(p, Len(p) - n + 1, Len(p))
           IN \/ n = 0
              \/ /\ Before("/", rest) \notin {<<>>, <<".">>, <<".", ".">>}
                 /\ \/ ~Has("/", rest)
                    \/ ok[n - First("/", rest)]
     IN ok[Len(p)]

\* fs_validate_file_name
ValidateFileName(n) ==
  /\ n # <<>> /\ ~Has("/", n) /\ ~Has("\\", n)
  /\ ~\E i \in 1 .. Len(n) - 1 : n[i] = "." /\ n[i + 1] = "."

\* http_dispatch_file_route, http_send_file and http_handle_file_put: the
\* relative path that a request for /api/files/... names
FileTarget(target) ==
  LET path == TargetPath(target)
      name == DecodeName(Tail(path))
  IN IF \/ Len(target) >= PathMax \/ path = <<>> \/ path[1] # FilesPrefix
        \/ name = Error \/ ~ValidateRelativePath(name)
     THEN Error ELSE name

\* http_handle_files_list: the directory that a request for /api/files lists,
\* the receive directory itself when no path is given
DirTarget(target) ==
  LET value == QueryValue(TargetQuery(target))
      dir == IF value = Error THEN <<>> ELSE DecodeName(value)
  IN IF \/ Len(target) >= PathMax \/ TargetPath(target) # <<FilesPath>>
        \/ dir = Error \/ (dir # <<>> /\ ~ValidateRelativePath(dir))
     THEN Error ELSE dir

\* fs_join_path and fs_join_relative_path
JoinPath(dir, file) ==
  IF dir # <<>> /\ Last(dir) = "/" THEN dir \o file ELSE dir \o <<"/">> \o file

JoinRelativePath(dir, path) == IF path = <<>> THEN dir ELSE JoinPath(dir, path)

-----------------------------------------------------------------------------

Init == text = <<>> /\ pieces = 0

\* one more piece of the text
Grow(p) ==
  /\ pieces < MaxPieces
  /\ pieces' = pieces + 1
  /\ text' = text \o p

Next == \E p \in Pieces : Grow(p)

Spec == Init /\ [][Next]_vars

-----------------------------------------------------------------------------
(* The reference: how the file system walks a path. *)

Segments(p) ==
  LET split[n \in 0 .. Len(p)] ==
        LET rest == SubSeq(p, Len(p) - n + 1, Len(p))
        IN IF ~Has("/", rest) THEN <<rest>>
           ELSE <<Before("/", rest)>> \o split[n - First("/", rest)]
  IN split[Len(p)]

\* where a walk from a directory arrives: empty and "." segments stay, ".."
\* goes up, and above the start is nowhere
Nowhere == <<Error>>

Walk(p) ==
  LET step(at, segment) ==
        IF at = Nowhere \/ segment \in {<<>>, <<".">>} THEN at
        ELSE IF segment = <<".", ".">> THEN IF at = <<>> THEN Nowhere ELSE Front(at)
        ELSE Append(at, segment)
  IN FoldLeft(step, <<>>, Segments(p))

\* the paths that a listing shows for entries whose names the server can take:
\* plain segments, one slash between them
Listed(p) ==
  /\ p # <<>> /\ ~Has("\\", p) /\ ~Has(NUL, p)
  /\ Walk(p) = Segments(p)

-----------------------------------------------------------------------------

\* A link the page shows leads to the entry it stands for and to no other: the
\* server's decoding of the Download and Open links of a listed path gives that
\* path back, unless its encoding is too long for a request target, and then
\* the request is refused.
LinkReachesEntry ==
  Listed(text) =>
    /\ FileTarget(FileLink(text)) = IF Len(FileLink(text)) < PathMax THEN text ELSE Error
    /\ DirTarget(DirLink(text)) = IF Len(DirLink(text)) < PathMax THEN text ELSE Error

\* Whatever the target of a request is, the file or directory the server opens
\* for it is below the receive directory, and the path it uses is the only one
\* for that place, up to one trailing slash: validation comes after decoding,
\* and nothing is decoded after it.
TargetStaysInside ==
  \A base \in Bases :
    /\ LET t == FileTarget(<<FilesPrefix>> \o text) IN
         t # Error =>
           /\ Walk(JoinRelativePath(base, t)) = Walk(base) \o Walk(t)
           /\ Walk(t) # <<>>
           /\ Walk(t) = Segments(IF Last(t) = "/" THEN Front(t) ELSE t)
    /\ LET t == DirTarget(<<FilesPath, "?", "path", "=">> \o text) IN
         t # Error => Walk(JoinRelativePath(base, t)) = Walk(base) \o Walk(t)

\* A file that a native client was allowed to store can be fetched by every
\* other way in: its name is one plain segment that the HTTP side accepts too.
\* The one exception is ".", which fs_validate_file_name accepts and which no
\* file can have.
NativeNamesAreServed ==
  ValidateFileName(text) /\ text # <<".">> /\ ~Has(NUL, text) =>
    /\ ValidateRelativePath(text)
    /\ Walk(text) = <<text>>
=============================================================================
