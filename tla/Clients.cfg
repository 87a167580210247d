\* Four hf -g over one output path with two pids; two requests for the latest
\* message and a post at a time while the stream breaks; two overlapping
\* listings of two folders.
SPECIFICATION ClientSpec
CONSTANTS
    Names = {n1}
    Clients = {c1, c2, c3, c4}
    Pids = {p1, p2}
    Attempts = 2
    Size = 1
    NoFile = NoFile
    Loads = {l1, l2}
    Posts = {q1}
    MaxPosts = 2
    MaxDrafts = 2
    MaxDrops = 1
    Window = 2
    Dirs = {root, a}
    Root = root
    Listings = {l1, l2}
    Uploads = {u1}
    MaxChanges = 2
INVARIANTS TextIsKept UploadIsListed
PROPERTIES OnlyOrphansRemoved MessageArrives
CHECK_DEADLOCK FALSE
