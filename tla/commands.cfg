SPECIFICATION FairSpec
CONSTANTS
    c1 = c1
    c2 = c2
    v1 = v1
    v2 = v2
    html = html
    text = text
    text2 = text2
    site = site
    p0 = p0
    f0 = f0
    Command = {c1, c2}
    Starts <- MCStarts
    NoKey = NoKey
    OldKey = OldKey
    Absent = Absent
    SkillFiles <- MCSkillFiles
    Version = {v1, v2}
    MaxFaults = 2
    MaxKills = 1
    Path = {"temp", "a.log", "-", "docs"}
    Stdin = "-"
    Extension <- MCExtension
    Body = {html, text, text2, site}
    Kind <- MCKind
    Mixed = Mixed
    Disks <- MCDisks
    Editable = {"temp", "a.log"}
    Edited <- MCEdited
    Initial <- MCInitial
    Authorized = {OldKey}
    MaxArgs = 2
    MaxEdits = 1
    MaxStops = 1
INVARIANTS
    CommandsInv
    SkillComplete
    MadeIsReported
    ReportedIsTrue
    NoMixture
    KindByContent
PROPERTIES
    CredentialsKept
    InstalledVersion
    EveryCommandEnds

