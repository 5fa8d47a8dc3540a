----------------------------- MODULE MCStartup ------------------------------
(* Instances of Startup for TLC. *)
EXTENDS Startup

MCIpv4 == {"127.0.0.1", "10.0.0.2"}
MCTopics ==
    {"/imu", "/altimeter", "/navsat", "/X3/gazebo/command/motor_speed", "/model/X3/odometry",
     "/down", "/up", "/front", "/back", "/wide", "/narrow"}
Refused == "/a b"       \* not empty, and no topic

Tfmini(name, topic, address, port) ==
    [name |-> name, gazeboTopic |-> topic, output |-> "tfmini", sitlAddress |-> address,
     sitlPort |-> port]
Distance(name, topic, id) ==
    [name |-> name, gazeboTopic |-> topic, output |-> "mavlink", orientation |-> "forward",
     mavlinkMessage |-> "distance_sensor", sensorId |-> id]
Obstacle(name, topic) ==
    [name |-> name, gazeboTopic |-> topic, output |-> "mavlink", orientation |-> "forward",
     mavlinkMessage |-> "obstacle_distance"]
Disabled(entry) == [enabled |-> FALSE] @@ entry

Down == Tfmini("down", "/down", "127.0.0.1", 5762)
Front == Distance("front", "/front", 0)

\* The values a key is given in place of the one in config/bridge.yaml.
Odd ==
    [sitlAddress |-> {"localhost", "10.0.0.2", Malformed}, motorPort |-> {0, 65536, Malformed},
     fdmPort |-> {-1}, rcPort |-> {65535, 65536}, imuTopic |-> {"", Refused},
     altimeterTopic |-> {"", Refused}, navsatTopic |-> {"", Refused},
     actuatorTopic |-> {"", Refused}, rateHz |-> {0, NotANumber},
     frameMode |-> {"passthrough", "other"}, pressureMode |-> {"zero", "other"},
     altitudeSource |-> {"gps", "other"}, seaLevelPressurePa |-> {0, NotANumber},
     motorMap |-> {<<1, 2, 3, 0>>, <<0, 1, 2>>, <<0, 1, 2, 4>>, <<0, 1, 1, 2>>},
     minRotorVelocity |-> {-1, 800, NotANumber}, maxRotorVelocity |-> {0, NotANumber},
     timeout |-> {0, NotANumber}, mavlinkAddress |-> {"localhost", "10.0.0.2"},
     mavlinkPort |-> {0}, systemId |-> {0, 255, 256}, componentId |-> {0, 256},
     odometryEnabled |-> {TRUE}, odometryTopic |-> {"", Refused},
     rangefinders |->
        {<<Down, Tfmini("up", "/up", "localhost", 5762)>>,
         <<Down, Tfmini("up", "/up", "127.0.0.1", 5762)>>,
         <<Down, Tfmini("up", "/up", "127.0.0.1", 5763)>>,
         <<Down, Disabled(Tfmini("up", "/up", "127.0.0.1", 5762))>>,
         <<Disabled(Tfmini("up", "/up", "127.0.0.1", 5763)), Down>>,
         <<Down, Tfmini("down", "/up", "127.0.0.1", 5763)>>,
         <<Down, Tfmini("up", "/down", "127.0.0.1", 5763)>>,
         <<Disabled(Front), Down>>, <<Front, Obstacle("wide", "/wide")>>,
         <<Front, Distance("back", "/back", 0)>>, <<Front, Distance("back", "/back", 255)>>,
         <<Obstacle("wide", "/wide"), Obstacle("narrow", "/narrow")>>,
         <<Distance("back", "/back", 256)>>, <<[k \in DOMAIN Front \ {"sensorId"} |-> Front[k]]>>,
         <<Down, Tfmini("up", Refused, "127.0.0.1", 5763)>>,
         <<Distance("front", Refused, 0), Down>>,
         <<Down, Disabled(Tfmini("up", Refused, "127.0.0.1", 5763))>>,
         <<Tfmini("", "/up", "127.0.0.1", 5763)>>, <<Tfmini("up", "/up", "", 5763)>>,
         <<[name |-> "up", gazeboTopic |-> "/up"]>>, << >>}]

Given1(key, value) == [k \in {key} |-> value]
Bases ==
    {Given1("rangefinders", <<Down, Front>>),
     Given1("rangefinders", <<Down, Front>>) @@ Given1("odometryEnabled", TRUE)
        @@ Given1("navsatTopic", "/navsat")}
MCFiles ==
    UNION {{Given1(key, value) @@ base : value \in Odd[key]} : key \in DOMAIN Odd, base \in Bases}
        \cup Bases
=============================================================================
