\* Nothing fails, yet two uploads of one video mix their objects under a ready row.
CONSTANTS
    u1 = u1
    u2 = u2
    d1 = d1
    NoUpload = NoUpload
    Videos <- OneVideo
    Uploads = {u1, u2}
    Deletes = {d1}
    Workers = {w1, w2}
    UploadOf <- BothToOne
    DeleteOf <- DeleteTheOne
    MediaFiles <- MCMediaFiles
    QueueCap = 1
    IdDigits = 2
    Faults = {}
    MaxCrashes = 0
SPECIFICATION Spec
INVARIANTS NoHalfUploadedAsset
