SPECIFICATION Spec
CONSTANTS
    h1 = h1
    h2 = h2
    p1 = p1
    p2 = p2
    p3 = p3
    a = a
    b = b
    ta = ta
    tb = tb
    tc = tc
    None = None
    Nodes <- FourNodes
    Info <- Cluster
    Pods <- SomePods
    Databases = {ta, tb}
    Options <- AllOptions
    Starts = {None, 7}
    OldVersions <- Mixed
    NewVersion <- V3
    Now = 9
    Flaky = {2, 3}
    MaxRuns = 2
INVARIANTS TypeOK RestartsWhatWasAsked ResumeSkipsRestarted StorageFirst
