SPECIFICATION Spec
CONSTANTS
    s1 = s1
    t1 = t1
    s3 = s3
    huge = huge
    v1 = v1
    Path <- MCPath
    OnDisk <- MCOnDisk
    Html <- MCHtml
    Invalid <- MCInvalid
    Index = "index.html"
    Body = {s1, t1, s3, huge}
    Size <- MCSize
    Absent = Absent
    Drafts <- MCDrafts
    Edited <- MCEdited
    MaxFiles = 3
    PackBytes = 4
    Word = 16
    MaxEdits = 1
    Visit = {v1}
    Subpath <- MCSubpath
    Uploads <- MCUploads
    Limits = {3, 4}
    MaxUpdates = 2
INVARIANTS
    SitesInv
    ArchiveBounded
    PackedIsAccepted
    PackedIsDirectory
    RelativeLinksResolve
    OneRedirect
PROPERTIES
    StoredFits
    PublishedIsServed
