\* An upload to each of two videos, a delete of one: the life of each, fair.
CONSTANTS
    u1 = u1
    u2 = u2
    d1 = d1
    NoUpload = NoUpload
    Uploads = {u1, u2}
    Deletes = {d1}
    DeleteOf <- DeleteTheOne
    IdDigits = 2
    Videos <- TwoVideos
    Workers = {w1, w2}
    UploadOf <- OneToEach
    MediaFiles <- MCMediaFiles
    QueueCap = 1
    Faults = {"media", "storage"}
    MaxCrashes = 0
SPECIFICATION FairSpec
PROPERTIES ImplementsLifecycle
