\* Nothing fails; deleting video 1 takes the objects of video 10.
CONSTANTS
    u1 = u1
    u2 = u2
    d1 = d1
    NoUpload = NoUpload
    Videos <- NestedVideos
    Uploads = {u1, u2}
    Deletes = {d1}
    Workers = {w1, w2}
    UploadOf <- OneToEachNested
    DeleteOf <- DeleteTheOne
    MediaFiles <- MCMediaFiles
    QueueCap = 1
    IdDigits = 2
    Faults = {}
    MaxCrashes = 0
SPECIFICATION Spec
INVARIANTS SpareOtherVideos
