\* Two uploads race for one video, with every fault, a restart and a delete.
CONSTANTS
    u1 = u1
    u2 = u2
    d1 = d1
    NoUpload = NoUpload
    Videos <- OneVideo
    Uploads = {u1, u2}
    Deletes = {d1}
    Workers = {w1, w2}
    UploadOf <- BothToOne
    DeleteOf <- DeleteTheOne
    MediaFiles <- MCMediaFiles
    QueueCap = 1
    IdDigits = 2
    Faults = {"db", "dbReply", "media", "storage"}
    MaxCrashes = 1
SPECIFICATION Spec
INVARIANTS TypeOK JobHeldOnce TmpFileHeld PlaylistComplete ReadyIsWhole
