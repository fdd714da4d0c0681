\* One guest, every mount, driver, filter and host failure; buffers smaller than the stream.
CONSTANTS
    Binaries = {5, 6, 7, 8}
    Pings = 2
    Stream = 6
    UpRoom = 2
    DownRoom = 1
    Chunk = 2
    Patience = 5
    TryFor = 2
    Pause = 1
    Longest = 6
    Sleep = 2
    Slowest = 3
    NoReport = NoReport
SPECIFICATION Spec
INVARIANTS
    TypeOK
    ReadsBack
    NeverStuck
    OnePingUnderWay
    MeasuredWasCarried
    NotGivenUpLightly
    GoodReportIsTrue
PROPERTIES
    EchoLetsGo
    KeepsGuestPromise
    Headway
