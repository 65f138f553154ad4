-------------------------- MODULE MCFrameEvidence --------------------------
(***************************************************************************)
(* FrameEvidence for TLC: a second of 10 milliseconds of 10 microseconds,  *)
(* rates of 1 to 4 frames per second, runs of up to 4 seconds.             *)
(***************************************************************************)
EXTENDS FrameEvidence

\* Hashes: any would do; these hit some frames and miss others.
MCDropMix(seed, id) == (seed * 31 + id * 47) % 100
MCJitterMix(seed, id) == seed * 17 + id * 29
MCOrderMix(seed, id) == (seed * 5 + id * 7) % 4
MCOutcomeMix(id) == (id * 41) % 100

-----------------------------------------------------------------------------
(***************************************************************************)
(* The simulated camera                                                    *)
(***************************************************************************)

Plain == [fps |-> 2, jitter |-> 0, size |-> 8, every |-> 0, percent |-> 0, burst |-> 0,
          reorder |-> 0, seed |-> 1]

MCConfigs ==
  {[Plain EXCEPT !.fps = f, !.jitter = j, !.every = e, !.reorder = o, !.seed = s] :
     f \in {2, 3}, j \in {0, 60}, e \in {0, 3}, o \in {0, 2, 3}, s \in {1, 2}} \cup
  {[Plain EXCEPT !.fps = 4, !.percent = 40, !.burst = b] : b \in {0, 2}} \cup
  {[Plain EXCEPT !.fps = f, !.percent = p] : f \in {1, 4}, p \in {0, 100}} \cup
  {[Plain EXCEPT !.fps = 0], [Plain EXCEPT !.size = 0]}

NoLimits == [minFps |-> -1, maxDrop |-> -1, maxInterval |-> -1, maxJitter |-> -1]

Limits ==
  {NoLimits, [NoLimits EXCEPT !.minFps = 3], [NoLimits EXCEPT !.maxDrop = 20],
   [NoLimits EXCEPT !.maxInterval = 40, !.maxJitter = 20]}

Base == [backend |-> "sim", soak |-> FALSE, duration |-> 40, interval |-> 40, config |-> Plain,
         thresholds |-> NoLimits, requests |-> <<>>, strict |-> TRUE, keys |-> <<>>,
         gige |-> FALSE, unplug |-> 0]

SimPlans ==
  {[Base EXCEPT !.config = c, !.thresholds = l] : c \in MCConfigs, l \in Limits} \cup
  {[Base EXCEPT !.config = c, !.soak = TRUE, !.interval = i] : c \in MCConfigs, i \in {7, 15}}

-----------------------------------------------------------------------------
(***************************************************************************)
(* The real camera: six keys of the rule table and of the default node map *)
(***************************************************************************)

MCPriority ==
  [k \in {"roi_width", "roi_offset_x", "pixel_format", "exposure", "frame_rate",
          "packet_size_bytes"} |->
     CASE k = "roi_width" -> 0 [] k = "roi_offset_x" -> 2 [] OTHER -> 10]

Number(n) == [kind |-> "number", at |-> n, exact |-> TRUE]
Word(n, exact) == [kind |-> "word", at |-> n, exact |-> exact]

NumberNode(min, max, first) ==
  [type |-> "number", min |-> min, max |-> max, words |-> {}, first |-> Number(first)]

MCNodes ==
  [n \in {"Width", "OffsetX", "PixelFormat", "RegionOfInterest", "ExposureTime",
          "AcquisitionFrameRate", "GevSCPSPacketSize"} |->
     CASE n = "Width" -> NumberNode(2, 6, 4)
       [] n = "OffsetX" -> NumberNode(0, 3, 0)
       [] n = "PixelFormat" ->
            [type |-> "word", min |-> 0, max |-> 0, words |-> {0, 1}, first |-> Word(0, TRUE)]
       [] n = "RegionOfInterest" ->
            [type |-> "text", min |-> 0, max |-> 0, words |-> {}, first |-> Word(9, TRUE)]
       [] n = "ExposureTime" -> NumberNode(1, 5, 2)
       [] n = "AcquisitionFrameRate" -> NumberNode(1, 4, 3)
       [] n = "GevSCPSPacketSize" -> NumberNode(1, 9, 1)]

DefaultKeys ==
  [k \in DOMAIN MCPriority |->
     CASE k = "roi_width" -> "Width" [] k = "roi_offset_x" -> "OffsetX"
       [] k = "pixel_format" -> "PixelFormat" [] k = "exposure" -> "ExposureTime"
       [] k = "frame_rate" -> "AcquisitionFrameRate"
       [] k = "packet_size_bytes" -> "GevSCPSPacketSize"]

\* Key maps a site may provide: fewer keys, a node that is not there, two keys for
\* one node, a node of another type, nothing.
KeyMaps ==
  {DefaultKeys, [k \in DOMAIN DefaultKeys \ {"exposure", "frame_rate"} |-> DefaultKeys[k]],
   [DefaultKeys EXCEPT !["roi_width"] = "Widht"], [DefaultKeys EXCEPT !["exposure"] = "Width"],
   [DefaultKeys EXCEPT !["pixel_format"] = "RegionOfInterest"], <<>>}

Maybe(key, values) == {<<>>} \cup {<<[key |-> key, value |-> v]>> : v \in values}

\* In the order of LoadRunPlanFromScenario; width and offset come together.
Requests ==
  {a \o b \o c \o d \o e :
     a \in Maybe("frame_rate", {Number(2), Number(9)}),
     b \in Maybe("pixel_format", {Word(1, FALSE), Word(7, TRUE)}),
     c \in Maybe("exposure", {Number(9)}),
     d \in Maybe("packet_size_bytes", {Number(5)}),
     e \in {<<>>} \cup
           {<<[key |-> "roi_width", value |-> Number(w)],
              [key |-> "roi_offset_x", value |-> Number(1)]>> : w \in {3, 9}}}

RealPlans ==
  {[Base EXCEPT !.backend = "real", !.soak = TRUE, !.duration = 10, !.requests = r, !.strict = s,
                !.keys = k, !.gige = g] :
     r \in Requests, s \in BOOLEAN, k \in KeyMaps, g \in BOOLEAN} \cup
  {[Base EXCEPT !.backend = "real", !.soak = TRUE, !.interval = i, !.thresholds = l,
                !.requests = <<[key |-> "frame_rate", value |-> Number(f)]>>,
                !.keys = DefaultKeys, !.unplug = u] :
     i \in {7, 15}, f \in {2, 9}, l \in Limits, u \in {0, 1, 2}}

MCPlans == SimPlans \cup RealPlans
=============================================================================
