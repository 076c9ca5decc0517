\* Two uploads race for one video with a delete; media and storage fail, fair.
CONSTANTS
    u1 = u1
    u2 = u2
    d1 = d1
    NoUpload = NoUpload
    Uploads = {u1, u2}
    Deletes = {d1}
    DeleteOf <- DeleteTheOne
    IdDigits = 2
    Videos <- OneVideo
    Workers = {w1}
    UploadOf <- BothToOne
    MediaFiles <- MCMediaFiles
    QueueCap = 1
    Faults = {"media", "storage"}
    MaxCrashes = 0
SPECIFICATION FairSpec
INVARIANTS NoStrandedVideo
PROPERTIES CleanDelete UploadSettles TmpFileReclaimed
